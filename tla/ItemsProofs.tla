----------------------------- MODULE ItemsProofs -----------------------------
(***************************************************************************)
(* Proofs about Items: for any number of turns, names, goals and memories, *)
(* whatever the names contain of one another, and whatever forms the       *)
(* program and the database give a text.                                   *)
(***************************************************************************)
EXTENDS Items, FiniteSetTheorems, TLAPS

-----------------------------------------------------------------------------
(***************************************************************************)
(* The inductive invariant.                                                *)
(***************************************************************************)

\* What a tool has accepted.
IntentOK(i) ==
  /\ i.op \notin {"none", "DeleteGoal", "SaveMemory", "ForgetMemory"} => i.name \in Names
  /\ i.op \in {"SaveMemory", "ForgetMemory"} => i.name \in Texts
  /\ i.op \in {"EditGoal", "DeleteGoal"} => i.goal \in GoalIds
  /\ i.op = "AddRecurring" \/ (i.op = "EditRecurring" /\ i.cadence # "keep") =>
       i.cadence \in Cadences /\ ValidDays(i.cadence, i.dom, i.dow)
  /\ i.op = "SaveMemory" => i.kind \in Kinds

PlannedOK == \A f \in Flushes : flush[f].pc # "idle" => IntentOK(flush[f].intent)

\* An id is given once.
IdsOK ==
  /\ \A n \in Names : recurring[n].id < nextId
  /\ \A a, b \in Names : recurring[a].id = recurring[b].id /\ recurring[a].id # 0 => a = b
  /\ \A m \in memories : 0 < m.id /\ m.id < nextId
  /\ \A a, b \in memories : a.id = b.id => a = b

\* The rows of the table meet its checks.
RowsLegal == \A n \in Names : recurring[n].id # 0 => Legal(recurring[n])

\* What a flush read is still so: the id it found belongs to the label or to
\* nothing, and the memories are those it saw unless another turn changed them.
RecurringSeen(r) ==
  r.intent.op \in {"EditRecurring", "RemoveRecurring"} /\ ~r.missing =>
    /\ r.target # 0 /\ r.target < nextId
    /\ \A n \in Names : recurring[n].id = r.target => n = r.intent.name

MemorySeen(r) ==
  r.intent.op = "SaveMemory" /\ ~r.raced =>
    /\ r.target = 0 => SameText(r.intent.name) = {}
    /\ \A m \in memories : m.id = r.target => m.kind = r.kind

SeenOK == \A f \in Flushes : flush[f].pc = "selected" =>
            RecurringSeen(flush[f]) /\ MemorySeen(flush[f])

ItemsInv ==
  TypeOK /\ PlannedOK /\ IdsOK /\ RowsLegal /\ SeenOK /\ RememberedOnce /\ AbortExplained

-----------------------------------------------------------------------------
(***************************************************************************)
(* Choosing a target.                                                      *)
(***************************************************************************)

\* What the flush aims at is a memory, or nothing.
LEMMA TargetFacts ==
  ASSUME TypeOK, IdsOK, NEW i, NEW t \in MemoryTargets(i)
  PROVE  /\ t.id \in Nat /\ t.kind \in Kinds \cup {"none"}
         /\ t.id = 0 /\ i.op = "SaveMemory" => SameText(i.name) = {}
         /\ \A m \in memories : m.id = t.id => m.kind = t.kind
<1>0. \A m \in memories : m.id \in Nat /\ m.id # 0 /\ m.kind \in Kinds
  BY DEF TypeOK, IdsOK, Memory
<1>1. CASE MemoryHits(i) = {}
  <2>1. t = [id |-> 0, kind |-> "none"]
    BY <1>1 DEF MemoryTargets
  <2>2. i.op = "SaveMemory" => SameText(i.name) = {}
    BY <1>1 DEF MemoryHits
  <2> QED
    BY <1>0, <2>1, <2>2
<1>2. CASE MemoryHits(i) # {}
  <2>1. MemoryHits(i) \subseteq memories
    BY DEF MemoryHits, SameText, Like
  <2>2. PICK m \in MemoryHits(i) : t = [id |-> m.id, kind |-> m.kind]
    BY <1>2 DEF MemoryTargets
  <2>3. m \in memories /\ t.id = m.id /\ t.kind = m.kind
    BY <2>1, <2>2
  <2> QED
    BY <1>0, <2>3 DEF IdsOK
<1> QED
  BY <1>1, <1>2

\* A name that is there is found by itself; what is found is there.
LEMMA FoundFacts ==
  ASSUME NEW names, NEW query
  PROVE  /\ FindOne(names, query) \subseteq names
         /\ query \in names => FindOne(names, query) = {query}
BY DEF FindOne

\* The tools accept what their arguments allow.
LEMMA ToolsPlan ==
  ASSUME TypeOK, NEW f \in Flushes, Tools(f)
  PROVE  \E i \in Intent : IntentOK(i) /\ i.op # "none" /\ Plan(f, i)
<1> DEFINE Goal == \E i \in Intent : IntentOK(i) /\ i.op # "none" /\ Plan(f, i)
<1>0. Labels \subseteq Names
  BY DEF Labels
<1>1. ASSUME NEW n \in Names, NEW d \in Days, NEW w \in Days, NEW c \in Cadences,
             AddRecurring(f, n, c, d, w)
      PROVE  Goal
  <2> DEFINE i == [NoIntent EXCEPT !.op = "AddRecurring", !.name = n,
                                   !.cadence = c, !.dom = d, !.dow = w]
  <2>1. i \in Intent
    BY DEF NoIntent, Intent, Days
  <2>2. i.op = "AddRecurring" /\ i.name = n /\ i.cadence = c /\ i.dom = d /\ i.dow = w
    BY DEF NoIntent
  <2>3. Plan(f, i) /\ ValidDays(c, d, w)
    BY <1>1 DEF AddRecurring
  <2> HIDE DEF i
  <2>4. IntentOK(i)
    BY <2>2, <2>3 DEF IntentOK
  <2> QED
    BY <2>1, <2>2, <2>3, <2>4
<1>2. ASSUME NEW n \in Names, NEW d \in Days, NEW w \in Days, NEW c \in Cadences \cup {"keep"},
             EditRecurring(f, n, c, d, w)
      PROVE  Goal
  <2>0. PICK l \in FindOne(Labels, n) :
          Plan(f, [NoIntent EXCEPT !.op = "EditRecurring", !.name = l,
                                   !.cadence = c, !.dom = d, !.dow = w])
    BY <1>2 DEF EditRecurring
  <2> DEFINE i == [NoIntent EXCEPT !.op = "EditRecurring", !.name = l,
                                   !.cadence = c, !.dom = d, !.dow = w]
  <2>1. l \in Names
    BY <1>0, FoundFacts
  <2>2. i \in Intent
    BY <2>1 DEF NoIntent, Intent, Days
  <2>3. i.op = "EditRecurring" /\ i.name = l /\ i.cadence = c /\ i.dom = d /\ i.dow = w
    BY DEF NoIntent
  <2>4. c # "keep" => ValidDays(c, d, w) /\ c \in Cadences
    BY <1>2 DEF EditRecurring
  <2>5. Plan(f, i)
    BY <2>0
  <2> HIDE DEF i
  <2>6. IntentOK(i)
    BY <2>1, <2>3, <2>4 DEF IntentOK
  <2> QED
    BY <2>2, <2>3, <2>5, <2>6
<1>3. ASSUME NEW n \in Names, NEW op \in {"RemoveRecurring", "CreateGoal"},
             Plan(f, [NoIntent EXCEPT !.op = op, !.name = n])
      PROVE  Goal
  <2> DEFINE i == [NoIntent EXCEPT !.op = op, !.name = n]
  <2>1. i \in Intent /\ i.op = op /\ i.name = n
    BY DEF NoIntent, Intent, Days
  <2>2. IntentOK(i)
    BY <2>1 DEF IntentOK
  <2> QED
    BY <1>3, <2>1, <2>2
<1>4. ASSUME NEW n \in Names, RemoveRecurring(f, n) PROVE Goal
  BY <1>0, <1>3, <1>4, FoundFacts DEF RemoveRecurring
<1>5. ASSUME NEW n \in Names, CreateGoal(f, n) PROVE Goal
  BY <1>3, <1>5 DEF CreateGoal
<1>6. ASSUME NEW g \in GoalIds, Plan(f, [NoIntent EXCEPT !.op = "DeleteGoal", !.goal = g])
      PROVE  Goal
  <2> DEFINE i == [NoIntent EXCEPT !.op = "DeleteGoal", !.goal = g]
  <2>1. i \in Intent /\ i.op = "DeleteGoal" /\ i.goal = g
    BY DEF NoIntent, Intent, Days
  <2>2. IntentOK(i)
    BY <2>1 DEF IntentOK
  <2> QED
    BY <1>6, <2>1, <2>2
<1>7. ASSUME NEW n \in Names, DeleteGoal(f, n) PROVE Goal
  BY <1>6, <1>7 DEF DeleteGoal
<1>8. ASSUME NEW n \in Names, NEW m \in Names, EditGoal(f, n, m) PROVE Goal
  <2>0. PICK g \in GoalIds :
          Plan(f, [NoIntent EXCEPT !.op = "EditGoal", !.goal = g, !.name = m])
    BY <1>8 DEF EditGoal
  <2> DEFINE i == [NoIntent EXCEPT !.op = "EditGoal", !.goal = g, !.name = m]
  <2>1. i \in Intent /\ i.op = "EditGoal" /\ i.goal = g /\ i.name = m
    BY DEF NoIntent, Intent, Days
  <2>2. IntentOK(i)
    BY <2>1 DEF IntentOK
  <2> QED
    BY <2>0, <2>1, <2>2
<1>9. ASSUME NEW n \in Texts, NEW k \in Kinds, Remember(f, n, k) PROVE Goal
  <2> DEFINE i == [NoIntent EXCEPT !.op = "SaveMemory", !.name = n, !.kind = k]
  <2>1. i \in Intent /\ i.op = "SaveMemory" /\ i.name = n /\ i.kind = k
    BY DEF NoIntent, Intent, Days
  <2>2. IntentOK(i)
    BY <2>1 DEF IntentOK
  <2> QED
    BY <1>9, <2>1, <2>2 DEF Remember
<1>10. ASSUME NEW n \in Texts, Forget(f, n) PROVE Goal
  <2> DEFINE i == [NoIntent EXCEPT !.op = "ForgetMemory", !.name = n]
  <2>1. i \in Intent /\ i.op = "ForgetMemory" /\ i.name = n
    BY DEF NoIntent, Intent, Days
  <2>2. IntentOK(i)
    BY <2>1 DEF IntentOK
  <2> QED
    BY <1>10, <2>1, <2>2 DEF Forget
<1> QED
  BY <1>1, <1>2, <1>4, <1>5, <1>7, <1>8, <1>9, <1>10 DEF Tools

-----------------------------------------------------------------------------
(***************************************************************************)
(* Who moves.  Every step is one turn's; the others stay where they are,   *)
(* and those that have read the memories note when these change.           *)
(***************************************************************************)
Beside(f) ==
  \A g \in Flushes \ {f} :
    /\ flush'[g].pc = flush[g].pc /\ flush'[g].intent = flush[g].intent
    /\ flush'[g].target = flush[g].target /\ flush'[g].kind = flush[g].kind
    /\ flush'[g].missing = flush[g].missing
    /\ flush[g].raced => flush'[g].raced
    /\ flush[g].pc = "selected" /\ ~flush'[g].raced => memories' = memories

LEMMA IdleType == Idle \in Flush /\ Idle.pc = "idle"
BY DEF Idle, Flush, NoIntent, Intent, Days

\* A turn commits.
LEMMA CommitFacts ==
  ASSUME TypeOK, NEW f \in Flushes, NEW M, Commit(f, M)
  PROVE  flush' \in [Flushes -> Flush] /\ flush'[f] = Idle /\ Beside(f) /\ memories' = M
<1> DEFINE b(g) == flush[g].raced \/ (flush[g].pc = "selected" /\ M # memories)
           z(g) == [flush[g] EXCEPT !.raced = b(g)]
<1>1. flush' = [g \in Flushes |-> IF g = f THEN Idle ELSE z(g)] /\ memories' = M
  BY DEF Commit
<1>2. \A g \in Flushes : flush[g] \in Flush /\ b(g) \in BOOLEAN
  BY DEF TypeOK, Flush
<1> HIDE DEF b
<1>3. \A g \in Flushes :
        /\ z(g) \in Flush /\ z(g).pc = flush[g].pc /\ z(g).intent = flush[g].intent
        /\ z(g).target = flush[g].target /\ z(g).kind = flush[g].kind
        /\ z(g).missing = flush[g].missing /\ z(g).raced = b(g)
  BY <1>2 DEF Flush
<1> HIDE DEF z
<1>4. flush' \in [Flushes -> Flush] /\ flush'[f] = Idle
  BY <1>1, <1>3, IdleType
<1>5. \A g \in Flushes \ {f} : flush'[g] = z(g)
  BY <1>1
<1>6. Beside(f)
  BY <1>1, <1>3, <1>5 DEF Beside, b
<1> QED
  BY <1>1, <1>4, <1>6

\* A turn's own record changes, and no memory.
LEMMA AloneFacts ==
  ASSUME TypeOK, NEW f \in Flushes, NEW r \in Flush, flush' = [flush EXCEPT ![f] = r],
         memories' = memories
  PROVE  flush' \in [Flushes -> Flush] /\ flush'[f] = r /\ Beside(f)
BY DEF TypeOK, Beside

\* A turn is planned, selects, commits or aborts.
Moves(f) ==
  \/ \E i \in Intent : IntentOK(i) /\ i.op # "none" /\ Plan(f, i)
  \/ Select(f)
  \/ FlushAddRecurring(f) \/ FlushEditRecurring(f) \/ FlushRemoveRecurring(f)
  \/ FlushCreateGoal(f) \/ FlushEditGoal(f) \/ FlushDeleteGoal(f)
  \/ FlushSaveMemory(f) \/ FlushForgetMemory(f) \/ FlushEmptyMemory(f)

LEMMA StepMoves ==
  ASSUME TypeOK, Next
  PROVE  \E f \in Flushes : Moves(f)
BY ToolsPlan DEF Next, Moves

\* What Select finds.
LEMMA SelectFacts ==
  ASSUME TypeOK, PlannedOK, IdsOK, NEW f \in Flushes, Select(f)
  PROVE  /\ flush' \in [Flushes -> Flush] /\ Beside(f)
         /\ UNCHANGED <<recurring, goals, memories, begun, nextId, doubled, aborts>>
         /\ flush'[f].pc = "selected" /\ flush'[f].intent = flush[f].intent
         /\ flush[f].pc = "planned"
         /\ RecurringSeen(flush'[f]) /\ MemorySeen(flush'[f])
<1> DEFINE x == flush[f]
           i == x.intent
<1>0. /\ x \in Flush /\ flush \in [Flushes -> Flush] /\ i \in Intent
      /\ recurring \in [Names -> Item] /\ memories \subseteq Memory /\ nextId \in Nat
  BY DEF TypeOK, Flush
<1>1. x.pc = "planned" /\ IntentOK(i)
      /\ UNCHANGED <<recurring, goals, memories, begun, nextId, doubled, aborts>>
  BY DEF Select, PlannedOK
<1>2. CASE i.op \in {"EditRecurring", "RemoveRecurring"}
  <2> DEFINE t == RecurringTarget(i.name)
             b == i.name \notin Labels
             y == [x EXCEPT !.pc = "selected", !.target = t, !.missing = b]
  <2>1. FindOne(Labels, i.name) \subseteq Names
    BY FoundFacts DEF Labels
  <2>2. t \in Nat
    <3>1. CASE FindOne(Labels, i.name) = {}
      BY <3>1 DEF RecurringTarget
    <3>2. CASE FindOne(Labels, i.name) # {}
      <4>1. (CHOOSE n \in FindOne(Labels, i.name) : TRUE) \in Names
        BY <2>1, <3>2
      <4>2. t = recurring[CHOOSE n \in FindOne(Labels, i.name) : TRUE].id
        BY <3>2 DEF RecurringTarget
      <4> QED
        BY <1>0, <4>1, <4>2 DEF Item
    <3> QED
      BY <3>1, <3>2
  <2>3. ~b => t = recurring[i.name].id /\ t # 0 /\ i.name \in Names
    <3> SUFFICES ASSUME i.name \in Labels
                 PROVE  t = recurring[i.name].id /\ t # 0 /\ i.name \in Names
      OBVIOUS
    <3>1. FindOne(Labels, i.name) = {i.name}
      BY FoundFacts
    <3>2. t = recurring[i.name].id
      BY <3>1 DEF RecurringTarget
    <3> QED
      BY <3>2 DEF Labels
  <2>4. flush' = [flush EXCEPT ![f] = y]
    BY <1>0, <1>2 DEF Select
  <2>5. b \in BOOLEAN
    OBVIOUS
  <2> HIDE DEF t, b
  <2>6. /\ y \in Flush /\ y.pc = "selected" /\ y.target = t /\ y.missing = b
        /\ y.intent = i
    BY <1>0, <2>2, <2>5 DEF Flush
  <2> HIDE DEF y
  <2>7. flush'[f] = y /\ flush' \in [Flushes -> Flush] /\ Beside(f)
    BY <1>1, <2>4, <2>6, AloneFacts
  <2>8. RecurringSeen(y)
    <3> SUFFICES ASSUME ~b
                 PROVE  /\ t # 0 /\ t < nextId
                        /\ \A n \in Names : recurring[n].id = t => n = i.name
      BY <2>6 DEF RecurringSeen
    <3> QED
      BY <2>3 DEF IdsOK
  <2>9. MemorySeen(y)
    BY <1>2, <2>6 DEF MemorySeen
  <2> QED
    BY <1>1, <2>6, <2>7, <2>8, <2>9
<1>3. CASE i.op \in {"SaveMemory", "ForgetMemory"}
  <2>1. PICK t \in MemoryTargets(i) :
          flush' = [flush EXCEPT ![f].pc = "selected", ![f].target = t.id, ![f].kind = t.kind]
    BY <1>3 DEF Select
  <2>2. /\ t.id \in Nat /\ t.kind \in Kinds \cup {"none"}
        /\ t.id = 0 /\ i.op = "SaveMemory" => SameText(i.name) = {}
        /\ \A m \in memories : m.id = t.id => m.kind = t.kind
    BY TargetFacts
  <2> DEFINE y == [x EXCEPT !.pc = "selected", !.target = t.id, !.kind = t.kind]
  <2>4. flush' = [flush EXCEPT ![f] = y]
    BY <1>0, <2>1
  <2>6. /\ y \in Flush /\ y.pc = "selected" /\ y.target = t.id /\ y.kind = t.kind
        /\ y.intent = i
    BY <1>0, <2>2 DEF Flush
  <2> HIDE DEF y
  <2>7. flush'[f] = y /\ flush' \in [Flushes -> Flush] /\ Beside(f)
    BY <1>1, <2>4, <2>6, AloneFacts
  <2>8. RecurringSeen(y)
    BY <1>3, <2>6 DEF RecurringSeen
  <2>9. MemorySeen(y)
    BY <2>2, <2>6 DEF MemorySeen
  <2> QED
    BY <1>1, <2>6, <2>7, <2>8, <2>9
<1> QED
  BY <1>2, <1>3 DEF Select

\* The record of the turn that moves.
LEMMA MoveFacts ==
  ASSUME TypeOK, PlannedOK, IdsOK, NEW f \in Flushes, Moves(f)
  PROVE  /\ flush' \in [Flushes -> Flush] /\ Beside(f)
         /\ flush'[f].pc # "idle" => IntentOK(flush'[f].intent)
         /\ \/ /\ flush'[f].pc = "planned"
               /\ UNCHANGED <<recurring, goals, memories, nextId, doubled, aborts>>
            \/ Select(f)
            \/ flush'[f] = Idle /\ begun' = begun
         /\ begun' \in 0..MaxFlushes
<1> DEFINE Goal == /\ flush' \in [Flushes -> Flush] /\ Beside(f)
                   /\ flush'[f].pc # "idle" => IntentOK(flush'[f].intent)
                   /\ \/ /\ flush'[f].pc = "planned"
                         /\ UNCHANGED <<recurring, goals, memories, nextId, doubled, aborts>>
                      \/ Select(f)
                      \/ flush'[f] = Idle /\ begun' = begun
                   /\ begun' \in 0..MaxFlushes
<1>0. begun \in 0..MaxFlushes /\ MaxFlushes \in Nat
  BY ItemsAssumption DEF TypeOK
<1>1. ASSUME NEW i \in Intent, IntentOK(i), Plan(f, i) PROVE Goal
  <2> DEFINE y == [Idle EXCEPT !.pc = "planned", !.intent = i]
  <2>1. y \in Flush /\ y.pc = "planned" /\ y.intent = i
    BY IdleType DEF Flush
  <2>2. /\ flush' = [flush EXCEPT ![f] = y] /\ begun' = begun + 1 /\ begun < MaxFlushes
        /\ UNCHANGED <<recurring, goals, memories, nextId, doubled, aborts>>
    BY <1>1 DEF Plan
  <2> HIDE DEF y
  <2>3. flush'[f] = y /\ flush' \in [Flushes -> Flush] /\ Beside(f)
    BY <2>1, <2>2, AloneFacts
  <2> QED
    BY <1>0, <1>1, <2>1, <2>2, <2>3
<1>2. ASSUME Select(f) PROVE Goal
  <2>1. IntentOK(flush[f].intent)
    BY <1>2, SelectFacts DEF PlannedOK
  <2> QED
    BY <1>0, <1>2, <2>1, SelectFacts
<1>3. ASSUME NEW M, Commit(f, M) PROVE Goal
  <2>1. begun' = begun
    BY <1>3 DEF Commit
  <2> QED
    BY <1>0, <1>3, <2>1, CommitFacts, IdleType
<1>4. ASSUME Abort(f) PROVE Goal
  <2>1. flush' = [flush EXCEPT ![f] = Idle] /\ memories' = memories /\ begun' = begun
    BY <1>4 DEF Abort
  <2> QED
    BY <1>0, <2>1, AloneFacts, IdleType
<1>5. ASSUME \/ FlushAddRecurring(f) \/ FlushEditRecurring(f) \/ FlushRemoveRecurring(f)
             \/ FlushCreateGoal(f) \/ FlushEditGoal(f) \/ FlushDeleteGoal(f)
             \/ FlushSaveMemory(f) \/ FlushForgetMemory(f) \/ FlushEmptyMemory(f)
      PROVE  Abort(f) \/ \E M : Commit(f, M)
  BY <1>5 DEF FlushAddRecurring, FlushEditRecurring, FlushRemoveRecurring, FlushCreateGoal,
              FlushEditGoal, FlushDeleteGoal, FlushSaveMemory, FlushForgetMemory,
              FlushEmptyMemory
<1> QED
  BY <1>1, <1>2, <1>3, <1>4, <1>5 DEF Moves

-----------------------------------------------------------------------------
(***************************************************************************)
(* The tables.                                                             *)
(***************************************************************************)

\* Ids and checks of the recurring items.
TableOK(table, next) ==
  /\ table \in [Names -> Item]
  /\ \A n \in Names : table[n].id < next
  /\ \A a, b \in Names : table[a].id = table[b].id /\ table[a].id # 0 => a = b
  /\ \A n \in Names : table[n].id # 0 => Legal(table[n])

\* A flush changes the label its tool named, and gives an id that is new.
LEMMA RecurringStep ==
  ASSUME ItemsInv, NEW f \in Flushes, Moves(f)
  PROVE  /\ nextId' \in Nat \ {0} /\ nextId <= nextId'
         /\ TableOK(recurring', nextId')
         /\ \A n \in Names : recurring'[n].id \in {recurring[n].id, 0, nextId}
         /\ flush[f].pc = "selected" =>
              Changed \subseteq {flush[f].intent.name} \/ flush[f].missing
<1> DEFINE x == flush[f]
           i == x.intent
           Goal == /\ nextId' \in Nat \ {0} /\ nextId <= nextId'
                   /\ TableOK(recurring', nextId')
                   /\ \A n \in Names : recurring'[n].id \in {recurring[n].id, 0, nextId}
                   /\ x.pc = "selected" => Changed \subseteq {i.name} \/ x.missing
<1>0. /\ x \in Flush /\ i \in Intent /\ nextId \in Nat /\ nextId # 0
      /\ recurring \in [Names -> Item] /\ \A n \in Names : recurring[n] \in Item
      /\ x.pc # "idle" => IntentOK(i)
      /\ x.pc = "selected" => RecurringSeen(x)
  BY DEF ItemsInv, TypeOK, Flush, PlannedOK, SeenOK
<1>1. TableOK(recurring, nextId)
  BY DEF ItemsInv, TypeOK, IdsOK, RowsLegal, TableOK
<1>2. ASSUME recurring' = recurring, nextId' \in {nextId, nextId + 1} PROVE Goal
  <2>1. nextId' \in Nat \ {0} /\ nextId <= nextId'
    BY <1>0, <1>2
  <2>2. \A n \in Names : recurring[n].id \in Nat
    BY <1>0 DEF Item
  <2>3. TableOK(recurring', nextId')
    BY <1>0, <1>1, <1>2, <2>1, <2>2 DEF TableOK
  <2>4. Changed = {}
    BY <1>2 DEF Changed
  <2> QED
    BY <1>2, <2>1, <2>3, <2>4
<1>3. ASSUME FlushAddRecurring(f) PROVE Goal
  <2> DEFINE old == recurring[i.name]
             new == [id |-> IF old.id = 0 THEN nextId ELSE old.id,
                     cadence |-> i.cadence, dom |-> i.dom, dow |-> i.dow]
  <2>1. CASE ~Legal(new)
    BY <1>2, <1>3, <2>1 DEF FlushAddRecurring, Abort
  <2>2. CASE Legal(new)
    <3>1. /\ recurring' = [recurring EXCEPT ![i.name] = new]
          /\ nextId' = IF old.id = 0 THEN nextId + 1 ELSE nextId
          /\ x.pc = "planned" /\ i.op = "AddRecurring"
      BY <1>3, <2>2 DEF FlushAddRecurring
    <3>2. i.name \in Names /\ i.cadence \in Cadences /\ old \in Item
      BY <1>0, <3>1 DEF IntentOK
    <3>3. /\ old.id \in Nat /\ old.id < nextId
          /\ \A n \in Names : recurring[n].id \in Nat /\ recurring[n].id < nextId
          /\ \A a, b \in Names :
               recurring[a].id = recurring[b].id /\ recurring[a].id # 0 => a = b
          /\ \A n \in Names : recurring[n].id # 0 => Legal(recurring[n])
      BY <1>0, <1>1, <3>2 DEF Item, TableOK
    <3>4. /\ new \in Item /\ new.id = IF old.id = 0 THEN nextId ELSE old.id
      BY <1>0, <3>2, <3>3 DEF Item, Intent
    <3> HIDE DEF new
    <3>5. /\ recurring'[i.name] = new
          /\ \A n \in Names \ {i.name} : recurring'[n] = recurring[n]
          /\ recurring' \in [Names -> Item]
      BY <1>0, <3>1, <3>2, <3>4
    <3>6. nextId' \in Nat \ {0} /\ nextId <= nextId' /\ new.id < nextId'
      BY <1>0, <3>1, <3>3, <3>4
    <3>7. \A n \in Names : recurring'[n].id < nextId' /\ recurring'[n].id \in {recurring[n].id, 0, nextId}
      BY <1>0, <3>3, <3>4, <3>5, <3>6
    <3>8. ASSUME NEW a \in Names, NEW b \in Names, recurring'[a].id = recurring'[b].id,
                 recurring'[a].id # 0
          PROVE  a = b
      BY <1>0, <3>2, <3>3, <3>4, <3>5, <3>8
    <3>9. \A n \in Names : recurring'[n].id # 0 => Legal(recurring'[n])
      BY <2>2, <3>3, <3>5 DEF new
    <3> QED
      BY <3>1, <3>5, <3>6, <3>7, <3>8, <3>9 DEF TableOK
  <2> QED
    BY <2>1, <2>2
<1>4. ASSUME FlushEditRecurring(f) PROVE Goal
  <2> DEFINE hit == {n \in Labels : recurring[n].id = x.target}
             e(n) == Edited(recurring[n], i)
  <2>0. x.pc = "selected" /\ i.op = "EditRecurring" /\ Labels \subseteq Names
    BY <1>4 DEF FlushEditRecurring, Labels
  <2>1. CASE ~\A n \in hit : Legal(e(n))
    BY <1>2, <1>4, <2>1 DEF FlushEditRecurring, Abort
  <2>2. CASE \A n \in hit : Legal(e(n))
    <3>1. /\ recurring' = [n \in Names |-> IF n \in hit THEN e(n) ELSE recurring[n]]
          /\ nextId' = nextId
      BY <1>4, <2>2 DEF FlushEditRecurring
    <3>2. \A n \in Names : e(n) \in Item /\ e(n).id = recurring[n].id
      BY <1>0 DEF Edited, Item, Intent
    <3>3. \A n \in hit : n = i.name \/ x.missing
      BY <1>0, <2>0 DEF RecurringSeen
    <3> HIDE DEF e, hit
    <3>4. \A n \in Names : recurring'[n].id = recurring[n].id /\ recurring'[n] \in Item
      BY <1>0, <3>1, <3>2
    <3>5. \A n \in Names : recurring'[n].id # 0 => Legal(recurring'[n])
      BY <1>1, <2>2, <3>1, <3>4 DEF TableOK
    <3>6. recurring' \in [Names -> Item]
      BY <3>1, <3>4
    <3>7. TableOK(recurring', nextId')
      BY <1>1, <3>1, <3>4, <3>5, <3>6 DEF TableOK
    <3>8. Changed \subseteq {i.name} \/ x.missing
      BY <3>1, <3>3 DEF Changed
    <3> QED
      BY <1>0, <3>1, <3>4, <3>7, <3>8
  <2> QED
    BY <2>1, <2>2
<1>5. ASSUME FlushRemoveRecurring(f) PROVE Goal
  <2> DEFINE hit(n) == x.target # 0 /\ recurring[n].id = x.target
  <2>1. /\ x.pc = "selected" /\ i.op = "RemoveRecurring" /\ nextId' = nextId
        /\ recurring' = [n \in Names |-> IF hit(n) THEN NoItem ELSE recurring[n]]
    BY <1>5 DEF FlushRemoveRecurring
  <2>2. \A n \in Names : hit(n) => n = i.name \/ x.missing
    BY <1>0, <2>1 DEF RecurringSeen
  <2> HIDE DEF hit
  <2>3. NoItem \in Item /\ NoItem.id = 0
    BY DEF NoItem, Item, Cadences, Days
  <2>4. \A n \in Names : recurring'[n] \in {recurring[n], NoItem}
    BY <2>1
  <2>5. \A n \in Names : recurring'[n] \in Item /\ recurring'[n].id \in {recurring[n].id, 0}
    BY <1>0, <2>3, <2>4
  <2>6. recurring' \in [Names -> Item]
    BY <2>1, <2>5
  <2>7. TableOK(recurring', nextId')
    BY <1>0, <1>1, <2>1, <2>3, <2>4, <2>5, <2>6 DEF TableOK
  <2>8. Changed \subseteq {i.name} \/ x.missing
    BY <2>1, <2>2 DEF Changed
  <2> QED
    BY <1>0, <2>1, <2>5, <2>7, <2>8
<1>6. ASSUME \/ \E k \in Intent : Plan(f, k)
             \/ Select(f) \/ FlushCreateGoal(f) \/ FlushEditGoal(f) \/ FlushDeleteGoal(f)
             \/ FlushSaveMemory(f) \/ FlushForgetMemory(f) \/ FlushEmptyMemory(f)
      PROVE  recurring' = recurring /\ nextId' \in {nextId, nextId + 1}
  BY <1>6 DEF Plan, Select, FlushCreateGoal, FlushEditGoal, FlushDeleteGoal,
              FlushSaveMemory, FlushForgetMemory, FlushEmptyMemory, Abort
<1> HIDE DEF Goal
<1> QED
  BY <1>2, <1>3, <1>4, <1>5, <1>6 DEF Moves, Goal

\* Ids of the memories, and which of them may stand beside one of the same form.
MemoriesOK(rows, next, twice) ==
  /\ rows \subseteq Memory
  /\ \A m \in rows : 0 < m.id /\ m.id < next
  /\ \A a, b \in rows : a.id = b.id => a = b
  /\ \A a, b \in rows :
       a.id < b.id /\ Stored[a.text] = Stored[b.text] /\ Plain(b.text) => b.id \in twice

\* A row is inserted, promoted or forgotten.
LEMMA MemoryStep ==
  ASSUME ItemsInv, NEW f \in Flushes, Moves(f)
  PROVE  /\ MemoriesOK(memories', nextId', doubled') /\ doubled' \subseteq Nat
         /\ \E m : memories \ memories' \subseteq {m}
         /\ \A m \in memories, n \in memories' :
              m.id = n.id => Rank[n.kind] <= Rank[m.kind]
                               \/ (flush[f].raced /\ flush'[f].pc = "idle")
<1> DEFINE x == flush[f]
           i == x.intent
           Goal == /\ MemoriesOK(memories', nextId', doubled') /\ doubled' \subseteq Nat
                   /\ \E m : memories \ memories' \subseteq {m}
                   /\ \A m \in memories, n \in memories' :
                        m.id = n.id => Rank[n.kind] <= Rank[m.kind]
                                         \/ (x.raced /\ flush'[f].pc = "idle")
<1>0. /\ x \in Flush /\ i \in Intent /\ nextId \in Nat /\ nextId # 0 /\ TypeOK
      /\ x.pc # "idle" => IntentOK(i)
      /\ x.pc = "selected" => MemorySeen(x)
      /\ doubled \subseteq Nat
  BY DEF ItemsInv, TypeOK, Flush, PlannedOK, SeenOK
<1>1. MemoriesOK(memories, nextId, doubled)
  BY DEF ItemsInv, TypeOK, IdsOK, RememberedOnce, MemoriesOK
<1>r. \A k \in Kinds \cup {"none"} : k \in Kinds => Rank[k] \in Int
  BY ItemsAssumption DEF Rank
<1>2. ASSUME memories' \subseteq memories, doubled' = doubled,
             \E m : memories \ memories' \subseteq {m}
      PROVE  Goal
  <2>1. nextId <= nextId' /\ nextId' \in Nat
    BY RecurringStep
  <2>2. \A m \in memories : m.id \in Nat /\ m.kind \in Kinds
    BY <1>1 DEF MemoriesOK, Memory
  <2>3. MemoriesOK(memories', nextId', doubled')
    BY <1>0, <1>1, <1>2, <2>1, <2>2 DEF MemoriesOK
  <2>4. \A m \in memories, n \in memories' : m.id = n.id => m = n
    BY <1>1, <1>2 DEF MemoriesOK
  <2>5. \A m \in memories : Rank[m.kind] <= Rank[m.kind]
    BY <1>r, <2>2
  <2>6. ASSUME NEW m \in memories, NEW n \in memories', m.id = n.id
        PROVE  Rank[n.kind] <= Rank[m.kind]
    BY <2>4, <2>5, <2>6
  <2> QED
    BY <1>0, <1>2, <2>3, <2>6
<1>3. ASSUME FlushSaveMemory(f) PROVE Goal
  <2>0. /\ x.pc = "selected" /\ i.op = "SaveMemory" /\ i.name \in Texts /\ i.kind \in Kinds
        /\ flush'[f].pc = "idle"
    <3>1. x.pc = "selected" /\ i.op = "SaveMemory"
      BY <1>3 DEF FlushSaveMemory
    <3>2. \E M : Commit(f, M)
      BY <1>3 DEF FlushSaveMemory
    <3>3. flush'[f].pc = "idle"
      BY <1>0, <3>2, CommitFacts, IdleType
    <3> QED
      BY <1>0, <3>1, <3>3 DEF IntentOK
  <2>1. CASE x.target = 0
    <3> DEFINE new == [id |-> nextId, text |-> i.name, kind |-> i.kind]
    <3>1. /\ memories' = memories \cup {new} /\ nextId' = nextId + 1
          /\ doubled' = IF SameText(i.name) # {} /\ x.raced
                          THEN doubled \cup {nextId} ELSE doubled
      BY <1>3, <2>1 DEF FlushSaveMemory, Commit
    <3>2. new \in Memory /\ new.id = nextId /\ new.text = i.name
      BY <1>0, <2>0 DEF Memory
    <3>3. SameText(i.name) # {} => nextId \in doubled'
      BY <1>0, <2>0, <2>1, <3>1 DEF MemorySeen
    <3>4. \A m \in memories : Stored[m.text] = Asked[i.name] => nextId \in doubled'
      BY <3>3 DEF SameText
    <3>5. doubled \subseteq doubled' /\ doubled' \subseteq Nat
      BY <1>0, <2>0, <3>1
    <3> HIDE DEF new
    <3>6. \A m \in memories : m.id \in Nat /\ m.id < nextId /\ 0 < m.id /\ m.kind \in Kinds
      BY <1>1 DEF MemoriesOK, Memory
    <3>7. MemoriesOK(memories', nextId', doubled')
      <4>1. memories' \subseteq Memory /\ \A m \in memories' : 0 < m.id /\ m.id < nextId'
        BY <1>0, <1>1, <3>1, <3>2, <3>6 DEF MemoriesOK
      <4>2. \A a, b \in memories' : a.id = b.id => a = b
        BY <1>0, <1>1, <3>1, <3>2, <3>6 DEF MemoriesOK
      <4>3. ASSUME NEW a \in memories', NEW b \in memories', a.id < b.id,
                   Stored[a.text] = Stored[b.text], Plain(b.text)
            PROVE  b.id \in doubled'
        <5>1. CASE b = new
          <6>1. a \in memories
            BY <1>0, <3>1, <3>2, <4>3, <5>1
          <6>2. Stored[a.text] = Asked[i.name]
            BY <3>2, <4>3, <5>1 DEF Plain
          <6> QED
            BY <3>2, <3>4, <5>1, <6>1, <6>2
        <5>2. CASE b \in memories
          <6>1. a \in memories
            BY <1>0, <3>1, <3>2, <3>6, <4>3, <5>2
          <6> QED
            BY <1>1, <3>5, <4>3, <5>2, <6>1 DEF MemoriesOK
        <5> QED
          BY <3>1, <5>1, <5>2
      <4> QED
        BY <4>1, <4>2, <4>3 DEF MemoriesOK
    <3>8. ASSUME NEW m \in memories, NEW n \in memories', m.id = n.id
          PROVE  Rank[n.kind] <= Rank[m.kind]
      <4>1. n = m
        BY <1>0, <1>1, <3>1, <3>2, <3>6, <3>8 DEF MemoriesOK
      <4>2. Rank[m.kind] \in Int
        BY <1>r, <3>6
      <4> QED
        BY <4>1, <4>2
    <3>9. memories \ memories' \subseteq {new}
      BY <3>1
    <3> QED
      BY <3>5, <3>7, <3>8, <3>9
  <2>2. CASE x.target # 0 /\ ~ShouldPromote(x.kind, i.kind)
    <3>1. memories' = memories /\ doubled' = doubled
      BY <1>3, <2>2 DEF FlushSaveMemory, Commit
    <3> QED
      BY <1>2, <3>1
  <2>3. CASE x.target # 0 /\ ShouldPromote(x.kind, i.kind)
    <3> DEFINE up(m) == IF m.id = x.target THEN [m EXCEPT !.kind = i.kind] ELSE m
    <3>1. /\ memories' = {up(m) : m \in memories} /\ nextId' = nextId /\ doubled' = doubled
      BY <1>3, <2>3 DEF FlushSaveMemory, Commit
    <3>2. \A m \in memories :
            /\ m \in Memory /\ up(m) \in Memory
            /\ up(m).id = m.id /\ up(m).text = m.text
            /\ m.id # x.target => up(m) = m
            /\ m.id = x.target => up(m).kind = i.kind
      BY <1>1, <2>0 DEF MemoriesOK, Memory
    <3> HIDE DEF up
    <3>3. \A m \in memories' : \E k \in memories : m = up(k)
      BY <3>1
    <3>4. MemoriesOK(memories', nextId', doubled')
      <4>1. memories' \subseteq Memory /\ \A m \in memories' : 0 < m.id /\ m.id < nextId'
        BY <1>1, <3>1, <3>2, <3>3 DEF MemoriesOK
      <4>2. ASSUME NEW a \in memories', NEW b \in memories', a.id = b.id PROVE a = b
        <5>1. PICK k \in memories, l \in memories : a = up(k) /\ b = up(l)
          BY <3>3
        <5>2. k = l
          BY <1>1, <3>2, <4>2, <5>1 DEF MemoriesOK
        <5> QED
          BY <5>1, <5>2
      <4>3. ASSUME NEW a \in memories', NEW b \in memories', a.id < b.id,
                   Stored[a.text] = Stored[b.text], Plain(b.text)
            PROVE  b.id \in doubled'
        <5>1. PICK k \in memories, l \in memories : a = up(k) /\ b = up(l)
          BY <3>3
        <5>2. k.text = a.text /\ l.text = b.text /\ k.id = a.id /\ l.id = b.id
          BY <3>2, <5>1
        <5> QED
          BY <1>1, <3>1, <4>3, <5>2 DEF MemoriesOK
      <4> QED
        BY <4>1, <4>2, <4>3 DEF MemoriesOK
    <3>5. ASSUME NEW m \in memories, NEW n \in memories', m.id = n.id, ~x.raced
          PROVE  Rank[n.kind] <= Rank[m.kind]
      <4>1. PICK k \in memories : n = up(k)
        BY <3>3
      <4>2. n = up(m)
        BY <1>1, <3>2, <3>5, <4>1 DEF MemoriesOK
      <4>3. m.kind \in Kinds /\ Rank[m.kind] \in Int
        BY <1>r, <3>2 DEF Memory
      <4>4. CASE m.id # x.target
        BY <3>2, <4>2, <4>3, <4>4
      <4>5. CASE m.id = x.target
        <5>1. m.kind = x.kind
          BY <1>0, <2>0, <3>5, <4>5 DEF MemorySeen
        <5>2. Rank[i.kind] < Rank[x.kind]
          BY <2>3 DEF ShouldPromote
        <5>3. n.kind = i.kind /\ Rank[i.kind] \in Int
          BY <1>r, <2>0, <3>2, <4>2, <4>5
        <5> QED
          BY <4>3, <5>1, <5>2, <5>3
      <4> QED
        BY <4>4, <4>5
    <3>6. \E m : memories \ memories' \subseteq {m}
      <4>1. \A m \in memories : m.id # x.target => m \in memories'
        BY <3>1, <3>2
      <4>2. \A a, b \in memories \ memories' : a = b
        BY <1>1, <4>1 DEF MemoriesOK
      <4> QED
        BY <4>2
    <3> QED
      BY <1>0, <2>0, <3>1, <3>4, <3>5, <3>6
  <2> QED
    BY <2>1, <2>2, <2>3
<1>4. ASSUME FlushForgetMemory(f) PROVE Goal
  <2>1. memories' = memories \ Forgotten(f) /\ doubled' = doubled
    BY <1>4 DEF FlushForgetMemory, Commit
  <2>2. \A a, b \in memories \ memories' : a = b
    BY <1>1, <2>1 DEF Forgotten, MemoriesOK
  <2>3. \E m : memories \ memories' \subseteq {m}
    BY <2>2
  <2> QED
    BY <1>2, <2>1, <2>3
<1>5. ASSUME \/ \E k \in Intent : Plan(f, k)
             \/ Select(f) \/ FlushCreateGoal(f) \/ FlushEditGoal(f) \/ FlushDeleteGoal(f)
             \/ FlushAddRecurring(f) \/ FlushEditRecurring(f) \/ FlushRemoveRecurring(f)
             \/ FlushEmptyMemory(f)
      PROVE  Goal
  <2>1. memories' = memories /\ doubled' = doubled
    BY <1>5 DEF Plan, Select, FlushCreateGoal, FlushEditGoal, FlushDeleteGoal,
                FlushAddRecurring, FlushEditRecurring, FlushRemoveRecurring, FlushEmptyMemory,
                Abort, Commit
  <2> QED
    BY <1>2, <2>1
<1> HIDE DEF Goal
<1> QED
  BY <1>3, <1>4, <1>5 DEF Moves, Goal

\* Goals keep their type.
LEMMA GoalStep ==
  ASSUME ItemsInv, NEW f \in Flushes, Moves(f)
  PROVE  goals' \in [GoalIds -> Names \cup {NoName}]
<1>0. /\ goals \in [GoalIds -> Names \cup {NoName}]
      /\ flush[f].pc # "idle" => IntentOK(flush[f].intent)
  BY DEF ItemsInv, TypeOK, PlannedOK
<1>1. CASE FlushCreateGoal(f)
  BY <1>0, <1>1 DEF FlushCreateGoal, IntentOK
<1>2. CASE FlushEditGoal(f)
  <2>1. flush[f].intent.name \in Names /\ flush[f].intent.goal \in GoalIds
    BY <1>0, <1>2 DEF FlushEditGoal, IntentOK
  <2> QED
    BY <1>0, <1>2, <2>1 DEF FlushEditGoal, Abort
<1>3. CASE FlushDeleteGoal(f)
  BY <1>0, <1>3 DEF FlushDeleteGoal, IntentOK
<1>4. ASSUME \/ \E k \in Intent : Plan(f, k)
             \/ Select(f) \/ FlushSaveMemory(f) \/ FlushForgetMemory(f) \/ FlushEmptyMemory(f)
             \/ FlushAddRecurring(f) \/ FlushEditRecurring(f) \/ FlushRemoveRecurring(f)
      PROVE  goals' = goals
  BY <1>4 DEF Plan, Select, FlushSaveMemory, FlushForgetMemory, FlushEmptyMemory,
              FlushAddRecurring, FlushEditRecurring, FlushRemoveRecurring, Abort
<1> QED
  BY <1>0, <1>1, <1>2, <1>3, <1>4 DEF Moves

\* What a table's check or unique index may refuse.
Refusable(i) ==
  \/ i.op = "EditGoal"
  \/ i.op = "AddRecurring" /\ (IF i.cadence = "monthly" THEN i.dow ELSE i.dom) = "bad"
  \/ i.op = "EditRecurring" /\ "bad" \in {i.dom, i.dow}
       /\ (i.cadence = "monthly" => i.dom = "ok") /\ (i.cadence = "weekly" => i.dow = "ok")

LEMMA AbortStep ==
  ASSUME ItemsInv, NEW f \in Flushes, Moves(f)
  PROVE  aborts' \subseteq Intent /\ AbortExplained'
<1> DEFINE x == flush[f]
           i == x.intent
<1>0. /\ aborts \subseteq Intent /\ i \in Intent
      /\ x.pc # "idle" => IntentOK(i)
      /\ \A k \in aborts : Refusable(k)
      /\ recurring \in [Names -> Item] /\ RowsLegal
  BY DEF ItemsInv, TypeOK, Flush, PlannedOK, AbortExplained, Refusable
<1>1. SUFFICES aborts' \subseteq Intent /\ \A k \in aborts' : Refusable(k)
  BY DEF AbortExplained, Refusable
<1>2. CASE aborts' = aborts
  BY <1>0, <1>2
<1>3. ASSUME aborts' = aborts \cup {i}, Refusable(i)
      PROVE  aborts' \subseteq Intent /\ \A k \in aborts' : Refusable(k)
  BY <1>0, <1>3
<1>4. ASSUME FlushAddRecurring(f), aborts' # aborts
      PROVE  aborts' = aborts \cup {i} /\ Refusable(i)
  <2> DEFINE new == [id |-> IF recurring[i.name].id = 0 THEN nextId ELSE recurring[i.name].id,
                     cadence |-> i.cadence, dom |-> i.dom, dow |-> i.dow]
  <2>1. /\ aborts' = aborts \cup {i} /\ ~Legal(new)
        /\ x.pc = "planned" /\ i.op = "AddRecurring"
    BY <1>4 DEF FlushAddRecurring, Commit, Abort
  <2>2. i.cadence \in Cadences /\ ValidDays(i.cadence, i.dom, i.dow)
    BY <1>0, <2>1 DEF IntentOK
  <2>3. new.dom = i.dom /\ new.dow = i.dow /\ new.cadence = i.cadence
    OBVIOUS
  <2> HIDE DEF new
  <2> QED
    BY <2>1, <2>2, <2>3 DEF Legal, ValidDays, Cadences, Refusable
<1>5. ASSUME FlushEditRecurring(f), aborts' # aborts
      PROVE  aborts' = aborts \cup {i} /\ Refusable(i)
  <2>1. /\ aborts' = aborts \cup {i} /\ x.pc = "selected" /\ i.op = "EditRecurring"
        /\ \E n \in Labels : ~Legal(Edited(recurring[n], i))
    BY <1>5 DEF FlushEditRecurring, Commit, Abort
  <2>2. PICK n \in Labels : ~Legal(Edited(recurring[n], i))
    BY <2>1
  <2> DEFINE old == recurring[n]
             e == Edited(old, i)
  <2>3. old \in Item /\ Legal(old)
    BY <1>0 DEF Labels, RowsLegal
  <2>4. /\ e.cadence = IF i.cadence = "keep" THEN old.cadence ELSE i.cadence
        /\ e.dom = IF i.dom = "none" THEN old.dom ELSE i.dom
        /\ e.dow = IF i.dow = "none" THEN old.dow ELSE i.dow
    BY <2>3 DEF Edited, Item
  <2>5. i.cadence # "keep" => i.cadence \in Cadences /\ ValidDays(i.cadence, i.dom, i.dow)
    BY <1>0, <2>1 DEF IntentOK
  <2>6. ~Legal(e) /\ old.cadence \in Cadences
    BY <2>2, <2>3 DEF Item
  <2> HIDE DEF e, old
  <2>7. i.cadence = "monthly" => i.dom = "ok"
    BY <2>5 DEF ValidDays
  <2>8. i.cadence = "weekly" => i.dow = "ok"
    BY <2>5 DEF ValidDays
  <2>9. "bad" \in {i.dom, i.dow}
    BY <2>3, <2>4, <2>5, <2>6, <2>7, <2>8 DEF Legal, Cadences
  <2> QED
    BY <2>1, <2>7, <2>8, <2>9 DEF Refusable
<1>6. ASSUME FlushEditGoal(f), aborts' # aborts
      PROVE  aborts' = aborts \cup {i} /\ Refusable(i)
  BY <1>6 DEF FlushEditGoal, Commit, Abort, Refusable
<1>7. ASSUME \/ \E k \in Intent : Plan(f, k)
             \/ Select(f) \/ FlushSaveMemory(f) \/ FlushForgetMemory(f) \/ FlushEmptyMemory(f)
             \/ FlushCreateGoal(f) \/ FlushDeleteGoal(f) \/ FlushRemoveRecurring(f)
      PROVE  aborts' = aborts
  BY <1>7 DEF Plan, Select, FlushSaveMemory, FlushForgetMemory, FlushEmptyMemory, FlushCreateGoal,
              FlushDeleteGoal, FlushRemoveRecurring, Commit
<1> QED
  BY <1>2, <1>3, <1>4, <1>5, <1>6, <1>7 DEF Moves

\* What the turns beside it have read is still so, or they know that it may not.
LEMMA SeenStep ==
  ASSUME ItemsInv, NEW f \in Flushes, Moves(f)
  PROVE  SeenOK'
<1>0. /\ TypeOK /\ PlannedOK /\ IdsOK /\ SeenOK /\ nextId \in Nat
      /\ \A g \in Flushes : flush[g].target \in Nat
      /\ \A n \in Names : recurring[n].id \in Nat
  BY DEF ItemsInv, TypeOK, Flush, Item
<1>1. /\ Beside(f) /\ flush' \in [Flushes -> Flush]
      /\ flush'[f].pc = "planned" \/ Select(f) \/ flush'[f] = Idle
  BY <1>0, MoveFacts
<1>2. /\ nextId <= nextId' /\ nextId' \in Nat
      /\ \A n \in Names : recurring'[n].id \in {recurring[n].id, 0, nextId}
  BY RecurringStep
<1>3. SUFFICES ASSUME NEW g \in Flushes, flush'[g].pc = "selected", NEW r, r = flush'[g]
               PROVE  RecurringSeen(r)' /\ MemorySeen(r)'
  BY DEF SeenOK, RecurringSeen, MemorySeen, SameText
<1>4. CASE g = f
  <2>1. Select(f)
    BY <1>1, <1>3, <1>4, IdleType
  <2>2. /\ UNCHANGED <<recurring, memories, nextId>>
        /\ RecurringSeen(r) /\ MemorySeen(r)
    BY <1>0, <1>3, <1>4, <2>1, SelectFacts
  <2> QED
    BY <2>2 DEF RecurringSeen, MemorySeen, SameText
<1>5. CASE g # f
  <2> DEFINE x == flush[g]
  <2>1. /\ r.pc = x.pc /\ r.intent = x.intent /\ r.target = x.target /\ r.kind = x.kind
        /\ r.missing = x.missing /\ (x.raced => r.raced)
        /\ x.pc = "selected" /\ (~r.raced => memories' = memories)
    BY <1>1, <1>3, <1>5 DEF Beside
  <2>2. RecurringSeen(x) /\ MemorySeen(x) /\ x.target \in Nat
    BY <1>0, <2>1 DEF SeenOK
  <2> HIDE DEF x
  <2>3. RecurringSeen(r)'
    BY <1>0, <1>2, <2>1, <2>2 DEF RecurringSeen
  <2>4. MemorySeen(r)'
    BY <2>1, <2>2 DEF MemorySeen, SameText
  <2> QED
    BY <2>3, <2>4
<1> QED
  BY <1>4, <1>5

LEMMA ItemsStep == ItemsInv /\ [Next]_vars => ItemsInv'
<1> SUFFICES ASSUME ItemsInv, [Next]_vars PROVE ItemsInv'
  OBVIOUS
<1>1. CASE UNCHANGED vars
  BY <1>1 DEF vars, ItemsInv, TypeOK, PlannedOK, IdsOK, RowsLegal, SeenOK, RecurringSeen,
              MemorySeen, SameText, RememberedOnce, AbortExplained
<1>2. ASSUME NEW f \in Flushes, Moves(f) PROVE ItemsInv'
  <2>0. TypeOK /\ PlannedOK /\ IdsOK
    BY DEF ItemsInv
  <2>1. /\ flush' \in [Flushes -> Flush] /\ begun' \in 0..MaxFlushes
        /\ flush'[f].pc # "idle" => IntentOK(flush'[f].intent)
        /\ Beside(f)
    BY <1>2, <2>0, MoveFacts
  <2>2. PlannedOK'
    <3>1. ASSUME NEW g \in Flushes, flush'[g].pc # "idle" PROVE IntentOK(flush'[g].intent)
      BY <2>0, <2>1, <3>1 DEF PlannedOK, Beside
    <3> QED
      BY <3>1 DEF PlannedOK
  <2>3. nextId' \in Nat \ {0} /\ TableOK(recurring', nextId')
    BY <1>2, RecurringStep
  <2>4. MemoriesOK(memories', nextId', doubled') /\ doubled' \subseteq Nat
    BY <1>2, MemoryStep
  <2>5. TypeOK'
    BY <1>2, <2>1, <2>3, <2>4, GoalStep, AbortStep DEF TypeOK, TableOK, MemoriesOK
  <2>6. IdsOK' /\ RowsLegal'
    BY <2>3, <2>4 DEF IdsOK, RowsLegal, TableOK, MemoriesOK
  <2>7. RememberedOnce'
    BY <2>4 DEF RememberedOnce, MemoriesOK
  <2> QED
    BY <1>2, <2>2, <2>5, <2>6, <2>7, AbortStep, SeenStep DEF ItemsInv
<1> QED
  BY <1>1, <1>2, StepMoves DEF ItemsInv

LEMMA ItemsInit == Init => ItemsInv
<1> SUFFICES ASSUME Init PROVE ItemsInv
  OBVIOUS
<1>1. Cardinality(Names) \in Nat
  BY ItemsAssumption, FS_CardinalityType
<1>2. nextId = Cardinality(Names) + 1 /\ nextId \in Nat \ {0}
  BY <1>1 DEF Init
<1>3. TableOK(recurring, nextId)
  <2>1. CASE recurring = [n \in Names |-> NoItem]
    BY <1>2, <2>1 DEF TableOK, NoItem, Item, Cadences, Days
  <2>2. ASSUME NEW order \in [Names -> 1..Cardinality(Names)],
               \A a, b \in Names : a # b => order[a] # order[b],
               recurring = [n \in Names |-> [id |-> order[n], cadence |-> "monthly",
                                             dom |-> "ok", dow |-> "none"]]
        PROVE  TableOK(recurring, nextId)
    <3>1. \A n \in Names : /\ recurring[n].id = order[n] /\ order[n] \in Nat
                           /\ order[n] < nextId
                           /\ recurring[n] \in Item /\ Legal(recurring[n])
      BY <1>1, <1>2, <2>2 DEF Item, Cadences, Days, Legal
    <3>2. recurring \in [Names -> Item]
      BY <2>2, <3>1
    <3> QED
      BY <2>2, <3>1, <3>2 DEF TableOK
  <2> QED
    BY <2>1, <2>2 DEF Init
<1>4. /\ goals \in [GoalIds -> Names \cup {NoName}] /\ memories = {} /\ doubled = {} /\ aborts = {}
      /\ begun \in 0..MaxFlushes /\ \A f \in Flushes : flush[f] = Idle
      /\ flush \in [Flushes -> Flush]
  BY IdleType, ItemsAssumption DEF Init
<1>5. TypeOK
  BY <1>2, <1>3, <1>4 DEF TypeOK, TableOK
<1>6. IdsOK /\ RowsLegal
  BY <1>3, <1>4 DEF IdsOK, RowsLegal, TableOK
<1>7. PlannedOK /\ SeenOK
  BY <1>4, IdleType DEF PlannedOK, SeenOK
<1> QED
  BY <1>4, <1>5, <1>6, <1>7 DEF ItemsInv, RememberedOnce, AbortExplained

\* Every variable keeps its type.
THEOREM TypeCorrect == Spec => []TypeOK
<1>1. ItemsInv => TypeOK
  BY DEF ItemsInv
<1> QED
  BY <1>1, ItemsInit, ItemsStep, PTL DEF Spec

\* A text that the program and the database reduce to the same form is not stored
\* beside a row of that form, however many turns save it, unless one was overtaken
\* (save_memory_in_tx reads, then inserts or promotes).
THEOREM OneRowPerText == Spec => []RememberedOnce
<1>1. ItemsInv => RememberedOnce
  BY DEF ItemsInv
<1> QED
  BY <1>1, ItemsInit, ItemsStep, PTL DEF Spec

\* What the tools accept is refused by the tables in two cases only
\* (validate_recurring_days against the checks of recurring_items, the unique
\* index of savings_goals).
THEOREM RefusalHasACause == Spec => []AbortExplained
<1>1. ItemsInv => AbortExplained
  BY DEF ItemsInv
<1> QED
  BY <1>1, ItemsInit, ItemsStep, PTL DEF Spec

\* The recurring item that changes is the one the tool named, though the flush
\* goes by the id it read a statement earlier and other turns commit meanwhile
\* (recurring_target_id).
THEOREM TheNamedItemChanges == Spec => NamedItemChanged
<1> DEFINE A == \A f \in Flushes :
       flush[f].pc = "selected" /\ flush'[f].pc = "idle" =>
         Changed \subseteq {flush[f].intent.name} \/ flush[f].missing
<1>1. ItemsInv /\ [Next]_vars => [A]_vars
  <2> SUFFICES ASSUME ItemsInv, Next, NEW f \in Flushes,
                      flush[f].pc = "selected", flush'[f].pc = "idle"
               PROVE  Changed \subseteq {flush[f].intent.name} \/ flush[f].missing
    OBVIOUS
  <2>1. PICK g \in Flushes : Moves(g)
    BY StepMoves DEF ItemsInv
  <2>2. Beside(g)
    BY <2>1, MoveFacts DEF ItemsInv
  <2>3. f = g
    BY <2>2 DEF Beside
  <2> QED
    BY <2>1, <2>3, RecurringStep
<1> HIDE DEF A
<1>2. ItemsInv /\ [][Next]_vars => [][A]_vars
  BY <1>1, ItemsStep, PTL
<1> QED
  BY <1>2, ItemsInit, PTL DEF Spec, NamedItemChanged, A

\* A turn takes away one memory at most, and none becomes weaker, unless another
\* turn changed the memories since this one read them (save_memory_in_tx,
\* forget_memory_in_tx, should_promote_memory_kind).
THEOREM MemoriesDoNotFade == Spec => MemoryKept
<1> DEFINE A == /\ Cardinality(memories \ memories') <= 1
                /\ \A m \in memories, n \in memories' :
                     m.id = n.id => Rank[n.kind] <= Rank[m.kind]
                           \/ \E f \in Flushes : flush[f].raced /\ flush'[f].pc = "idle"
<1>1. ItemsInv /\ [Next]_vars => [A]_vars
  <2> SUFFICES ASSUME ItemsInv, Next PROVE A
    OBVIOUS
  <2>1. PICK g \in Flushes : Moves(g)
    BY StepMoves DEF ItemsInv
  <2>2. PICK m : memories \ memories' \subseteq {m}
    BY <2>1, MemoryStep
  <2>3. memories \ memories' = {} \/ memories \ memories' = {m}
    BY <2>2
  <2>4. Cardinality(memories \ memories') <= 1
    <3>1. Cardinality({}) = 0 /\ Cardinality({m}) = 1
      BY FS_EmptySet, FS_Singleton
    <3>2. Cardinality(memories \ memories') \in {0, 1}
      BY <2>3, <3>1
    <3> QED
      BY <3>2
  <2> QED
    BY <2>1, <2>4, MemoryStep
<1> HIDE DEF A
<1>2. ItemsInv /\ [][Next]_vars => [][A]_vars
  BY <1>1, ItemsStep, PTL
<1> QED
  BY <1>2, ItemsInit, PTL DEF Spec, MemoryKept, A
=============================================================================
