-------------------------------- MODULE Items --------------------------------
(***************************************************************************)
(* The records a user names in words: recurring items, goals, memories.    *)
(*                                                                         *)
(* A tool looks the name up in the snapshot its turn started from, says    *)
(* yes or no to the model, and buffers an intent.  The flush looks it up   *)
(* again, in statements of its own, while other turns of the user commit.  *)
(* A check or a unique index of the table may still refuse the row, which  *)
(* aborts the flush and everything else the turn did.                      *)
(*                                                                         *)
(* One intent of this kind per turn.  A name stands for its lower-case     *)
(* form; Contains says which name is part of which.  Texts of memories are *)
(* compared by what is left of them without case, spaces and punctuation,  *)
(* and that is worked out twice: from the row by the database (Stored),    *)
(* which keeps any letter its locale knows, and from what the user said by *)
(* the program (Asked), which keeps ASCII letters and digits only.         *)
(***************************************************************************)
EXTENDS Integers, FiniteSets

CONSTANTS
  Flushes,       \* concurrent turns
  Names,         \* labels, goal names, and what they are asked for with
  Contains,      \* <<name, part>>
  Texts,         \* memories, and what they are asked for with
  Stored,        \* the form of a text in its row, by text
  Asked,         \* the form it is looked for with, by text
  NoForm,        \* the form with no letter or digit left
  PartOf,        \* <<form, part>>
  GoalIds,       \* ids of goals
  NoName,        \* of a goal that is not there
  Kinds,         \* kinds of a memory that are saved
  MaxFlushes     \* bound of the model: turns

\* memory_kind_rank: lower is stronger.
Rank == [payday |-> 0, fact |-> 1, preference |-> 1, goal |-> 2, person |-> 3, other |-> 3]

ASSUME ItemsAssumption ==
  /\ IsFiniteSet(Names)
  /\ Contains \subseteq Names \X Names /\ \A n \in Names : <<n, n>> \in Contains
  /\ NoName \notin Names
  /\ Kinds \subseteq DOMAIN Rank
  /\ MaxFlushes \in Nat

VARIABLES
  recurring,  \* table recurring_items, by label (recurring_user_label_uniq)
  goals,      \* table savings_goals: name by id
  memories,   \* table memories
  flush,      \* what each turn is doing
  begun,      \* number of turns
  nextId,     \* ids given so far
  doubled,    \* history: ids of the memories inserted beside one like them by a
              \* turn another had overtaken
  aborts      \* history: intents the database refused

vars == <<recurring, goals, memories, flush, begun, nextId, doubled, aborts>>

-----------------------------------------------------------------------------
Days == {"none", "ok", "bad"}          \* bad: outside the range the table allows
Cadences == {"monthly", "weekly"}

Item == [id: Nat, cadence: Cadences, dom: Days, dow: Days]
NoItem == [id |-> 0, cadence |-> "monthly", dom |-> "none", dow |-> "none"]
Memory == [id: Nat, text: Texts, kind: Kinds]

\* name: what the tool resolved the query to, or the new name; goal: of EditGoal;
\* cadence "keep" and day "none": not given.
Intent == [op: {"none", "AddRecurring", "EditRecurring", "RemoveRecurring", "CreateGoal",
                "EditGoal", "DeleteGoal", "SaveMemory", "ForgetMemory"},
           name: Names \cup Texts \cup {NoName}, goal: GoalIds \cup {0},
           cadence: Cadences \cup {"keep"}, dom: Days, dow: Days, kind: Kinds \cup {"none"}]

NoIntent == [op |-> "none", name |-> NoName, goal |-> 0, cadence |-> "keep",
             dom |-> "none", dow |-> "none", kind |-> "none"]

\* pc: planned = the tool has accepted it, selected = the flush knows its target.
\* target: its id, 0 for none; kind: of the target when it was read; raced: the
\* memories changed since.
Flush == [pc: {"idle", "planned", "selected"}, intent: Intent, target: Nat,
          kind: Kinds \cup {"none"}, raced: BOOLEAN, missing: BOOLEAN]
Idle == [pc |-> "idle", intent |-> NoIntent, target |-> 0, kind |-> "none",
         raced |-> FALSE, missing |-> FALSE]

TypeOK ==
  /\ recurring \in [Names -> Item]
  /\ goals \in [GoalIds -> Names \cup {NoName}]
  /\ memories \subseteq Memory
  /\ flush \in [Flushes -> Flush]
  /\ begun \in 0..MaxFlushes
  /\ nextId \in Nat \ {0}
  /\ doubled \subseteq Nat
  /\ aborts \subseteq Intent

\* A user with no recurring items or with all of them, entered in some order.
Init ==
  /\ recurring \in {[n \in Names |-> NoItem]} \cup
       {[n \in Names |-> [id |-> order[n], cadence |-> "monthly", dom |-> "ok", dow |-> "none"]] :
          order \in {o \in [Names -> 1..Cardinality(Names)] :
                       \A a, b \in Names : a # b => o[a] # o[b]}}
  /\ goals = [g \in GoalIds |-> NoName]
  /\ memories = {}
  /\ flush = [f \in Flushes |-> Idle]
  /\ begun = 0 /\ nextId = Cardinality(Names) + 1
  /\ doubled = {} /\ aborts = {}

-----------------------------------------------------------------------------
(***************************************************************************)
(* The tools.                                                              *)
(***************************************************************************)

\* find_one_goal, find_one_recurring: the exact name, or the only one that
\* contains the query; otherwise an error.
FindOne(names, query) ==
  IF query \in names THEN {query}
  ELSE LET hits == {n \in names : <<n, query>> \in Contains} IN
       IF Cardinality(hits) = 1 THEN hits ELSE {}

Labels == {n \in Names : recurring[n].id # 0}

\* validate_recurring_days
ValidDays(cadence, dom, dow) == IF cadence = "monthly" THEN dom = "ok" ELSE dow = "ok"

Plan(f, intent) ==
  /\ flush[f].pc = "idle" /\ begun < MaxFlushes
  /\ begun' = begun + 1
  /\ flush' = [flush EXCEPT ![f] = [Idle EXCEPT !.pc = "planned", !.intent = intent]]
  /\ UNCHANGED <<recurring, goals, memories, nextId, doubled, aborts>>

\* add_recurring
AddRecurring(f, label, cadence, dom, dow) ==
  /\ ValidDays(cadence, dom, dow)
  /\ Plan(f, [NoIntent EXCEPT !.op = "AddRecurring", !.name = label,
                              !.cadence = cadence, !.dom = dom, !.dow = dow])

\* edit_recurring: the days are checked with a cadence only; an amount or a
\* category may be what changes.
EditRecurring(f, query, cadence, dom, dow) ==
  /\ cadence # "keep" => ValidDays(cadence, dom, dow)
  /\ \E label \in FindOne(Labels, query) :
       Plan(f, [NoIntent EXCEPT !.op = "EditRecurring", !.name = label,
                                !.cadence = cadence, !.dom = dom, !.dow = dow])

\* remove_recurring
RemoveRecurring(f, query) ==
  \E label \in FindOne(Labels, query) :
    Plan(f, [NoIntent EXCEPT !.op = "RemoveRecurring", !.name = label])

\* create_goal
CreateGoal(f, name) == Plan(f, [NoIntent EXCEPT !.op = "CreateGoal", !.name = name])

GoalNames == {goals[g] : g \in GoalIds} \ {NoName}

\* edit_goal with a new name (a new target or deadline meets no constraint), delete_goal
EditGoal(f, query, name) ==
  \E hit \in FindOne(GoalNames, query), g \in GoalIds :
    goals[g] = hit /\ Plan(f, [NoIntent EXCEPT !.op = "EditGoal", !.goal = g, !.name = name])
DeleteGoal(f, query) ==
  \E hit \in FindOne(GoalNames, query), g \in GoalIds :
    goals[g] = hit /\ Plan(f, [NoIntent EXCEPT !.op = "DeleteGoal", !.goal = g])

\* remember, forget_memory
Remember(f, text, kind) ==
  Plan(f, [NoIntent EXCEPT !.op = "SaveMemory", !.name = text, !.kind = kind])
Forget(f, query) == Plan(f, [NoIntent EXCEPT !.op = "ForgetMemory", !.name = query])

-----------------------------------------------------------------------------
(***************************************************************************)
(* The flush, first statement: the SELECT that finds the target.           *)
(***************************************************************************)

\* Mutant: a part of the label will do.
RecurringTarget_Part(query) ==
  LET hits == {n \in Labels : <<n, query>> \in Contains} IN
  IF hits = {} THEN 0 ELSE (CHOOSE i \in {recurring[n] : n \in hits} :
                              \A k \in {recurring[n] : n \in hits} : k.id <= i.id).id

\* recurring_target_id: the exact label, or the only one that contains it.
RecurringTarget(query) ==
  LET hits == FindOne(Labels, query) IN
  IF hits = {} THEN 0 ELSE recurring[CHOOSE n \in hits : TRUE].id

\* The rows whose form is the one asked for.
SameText(text) == {m \in memories : Stored[m.text] = Asked[text]}
Like(text) == {m \in memories : <<Stored[m.text], Asked[text]>> \in PartOf}

\* Mutant: a text is only looked for to be forgotten.
MemoryHits_Forgotten(intent) ==
  IF intent.op = "SaveMemory" THEN {}
  ELSE IF SameText(intent.name) # {} THEN SameText(intent.name) ELSE Like(intent.name)

\* The rows among which the SELECT of save_memory_in_tx takes the newest; of
\* forget_memory_in_tx, those with the exact form, or else those that contain it.
\* created_at is when a transaction began, not when it inserted: which row counts
\* as the newest is left open.
MemoryHits(intent) ==
  IF SameText(intent.name) # {} \/ intent.op = "SaveMemory"
  THEN SameText(intent.name) ELSE Like(intent.name)

MemoryTargets(intent) ==
  IF MemoryHits(intent) = {} THEN {[id |-> 0, kind |-> "none"]}
  ELSE {[id |-> m.id, kind |-> m.kind] : m \in MemoryHits(intent)}

Select(f) ==
  LET i == flush[f].intent IN
  /\ flush[f].pc = "planned"
  /\ \/ /\ i.op \in {"EditRecurring", "RemoveRecurring"}
        /\ flush' = [flush EXCEPT ![f].pc = "selected",
                                  ![f].target = RecurringTarget(i.name),
                                  ![f].missing = i.name \notin Labels]
     \/ /\ i.op \in {"SaveMemory", "ForgetMemory"} /\ Asked[i.name] # NoForm
        /\ \E t \in MemoryTargets(i) :
             flush' = [flush EXCEPT ![f].pc = "selected", ![f].target = t.id, ![f].kind = t.kind]
  /\ UNCHANGED <<recurring, goals, memories, begun, nextId, doubled, aborts>>

-----------------------------------------------------------------------------
(***************************************************************************)
(* The flush, last statement and commit.                                   *)
(***************************************************************************)

\* Commits a change of the memories (or not): the turns beside it have read
\* memories that are no longer the ones there.
Commit(f, newMemories) ==
  /\ memories' = newMemories
  /\ flush' = [g \in Flushes |->
       IF g = f THEN Idle ELSE [flush[g] EXCEPT
         !.raced = @ \/ (flush[g].pc = "selected" /\ newMemories # memories)]]
  /\ UNCHANGED <<begun, aborts>>

\* A constraint of the table refuses the row: the whole turn is rolled back.
Abort(f) ==
  /\ aborts' = aborts \cup {flush[f].intent}
  /\ flush' = [flush EXCEPT ![f] = Idle]
  /\ UNCHANGED <<recurring, goals, memories, begun, nextId, doubled>>

\* day_of_month_range, day_of_week_range, cadence_day_consistency
Legal(item) ==
  /\ item.dom # "bad" /\ item.dow # "bad"
  /\ item.cadence = "monthly" => item.dom # "none"
  /\ item.cadence = "weekly" => item.dow # "none"

\* AddRecurring: an upsert on the label, which keeps the id.
FlushAddRecurring(f) ==
  LET i == flush[f].intent
      old == recurring[i.name]
      new == [id |-> IF old.id = 0 THEN nextId ELSE old.id,
              cadence |-> i.cadence, dom |-> i.dom, dow |-> i.dow] IN
  /\ flush[f].pc = "planned" /\ i.op = "AddRecurring"
  /\ IF Legal(new)
     THEN /\ recurring' = [recurring EXCEPT ![i.name] = new]
          /\ nextId' = IF old.id = 0 THEN nextId + 1 ELSE nextId
          /\ Commit(f, memories)
          /\ UNCHANGED <<goals, doubled>>
     ELSE Abort(f)

\* Mutant: what is not given is cleared.
Edited_Clears(item, i) ==
  [item EXCEPT !.cadence = IF i.cadence = "keep" THEN @ ELSE i.cadence,
               !.dom = i.dom, !.dow = i.dow]

\* EditRecurring: coalesce for what is not given.
Edited(item, i) ==
  [item EXCEPT !.cadence = IF i.cadence = "keep" THEN @ ELSE i.cadence,
               !.dom = IF i.dom = "none" THEN @ ELSE i.dom,
               !.dow = IF i.dow = "none" THEN @ ELSE i.dow]

FlushEditRecurring(f) ==
  LET i == flush[f].intent
      hit == {n \in Labels : recurring[n].id = flush[f].target} IN
  /\ flush[f].pc = "selected" /\ i.op = "EditRecurring"
  /\ IF \A n \in hit : Legal(Edited(recurring[n], i))
     THEN /\ recurring' = [n \in Names |->
                             IF n \in hit THEN Edited(recurring[n], i) ELSE recurring[n]]
          /\ Commit(f, memories)
          /\ UNCHANGED <<goals, nextId, doubled>>
     ELSE Abort(f)

FlushRemoveRecurring(f) ==
  /\ flush[f].pc = "selected" /\ flush[f].intent.op = "RemoveRecurring"
  /\ recurring' = [n \in Names |-> IF flush[f].target # 0 /\ recurring[n].id = flush[f].target
                                   THEN NoItem ELSE recurring[n]]
  /\ Commit(f, memories)
  /\ UNCHANGED <<goals, nextId, doubled>>

\* CreateGoal: on conflict (the name, whatever its case) do nothing.
FlushCreateGoal(f) ==
  LET name == flush[f].intent.name
      free == {g \in GoalIds : goals[g] = NoName} IN
  /\ flush[f].pc = "planned" /\ flush[f].intent.op = "CreateGoal"
  /\ IF name \in GoalNames THEN goals' = goals
     ELSE \E g \in free : goals' = [goals EXCEPT ![g] = name]
  /\ Commit(f, memories)
  /\ UNCHANGED <<recurring, nextId, doubled>>

\* EditGoal by id: a goal that is gone is not updated, a name that is taken is
\* refused by the unique index.
FlushEditGoal(f) ==
  LET i == flush[f].intent IN
  /\ flush[f].pc = "planned" /\ i.op = "EditGoal"
  /\ IF goals[i.goal] # NoName /\ \E g \in GoalIds \ {i.goal} : goals[g] = i.name
     THEN Abort(f)
     ELSE /\ goals' = [goals EXCEPT ![i.goal] = IF @ = NoName THEN @ ELSE i.name]
          /\ Commit(f, memories)
          /\ UNCHANGED <<recurring, nextId, doubled>>

FlushDeleteGoal(f) ==
  /\ flush[f].pc = "planned" /\ flush[f].intent.op = "DeleteGoal"
  /\ goals' = [goals EXCEPT ![flush[f].intent.goal] = NoName]
  /\ Commit(f, memories)
  /\ UNCHANGED <<recurring, nextId, doubled>>

\* Mutant: the kind that comes last is kept.
ShouldPromote_Always(current, next) == TRUE

\* should_promote_memory_kind
ShouldPromote(current, next) == Rank[next] < Rank[current]

\* save_memory_in_tx, after its SELECT: promote the row it found, or insert one.
FlushSaveMemory(f) ==
  LET i == flush[f].intent
      id == flush[f].target
      new == [id |-> nextId, text |-> i.name, kind |-> i.kind] IN
  /\ flush[f].pc = "selected" /\ i.op = "SaveMemory"
  /\ IF id = 0
     THEN /\ Commit(f, memories \cup {new})
          /\ nextId' = nextId + 1
          /\ doubled' = IF SameText(i.name) # {} /\ flush[f].raced
                        THEN doubled \cup {nextId} ELSE doubled
     ELSE /\ Commit(f, IF ShouldPromote(flush[f].kind, i.kind)
                       THEN {IF m.id = id THEN [m EXCEPT !.kind = i.kind] ELSE m : m \in memories}
                       ELSE memories)
          /\ UNCHANGED <<nextId, doubled>>
  /\ UNCHANGED <<recurring, goals>>

\* save_memory_in_tx, forget_memory_in_tx: nothing is left of the text to look for.
FlushEmptyMemory(f) ==
  /\ flush[f].pc = "planned" /\ flush[f].intent.op \in {"SaveMemory", "ForgetMemory"}
  /\ Asked[flush[f].intent.name] = NoForm
  /\ Commit(f, memories)
  /\ UNCHANGED <<recurring, goals, nextId, doubled>>

\* forget_memory_in_tx, after its SELECTs.
Forgotten(f) == {m \in memories : m.id = flush[f].target}

FlushForgetMemory(f) ==
  /\ flush[f].pc = "selected" /\ flush[f].intent.op = "ForgetMemory"
  /\ Commit(f, memories \ Forgotten(f))
  /\ UNCHANGED <<recurring, goals, nextId, doubled>>

Tools(f) ==
  \/ \E n \in Names, d, w \in Days :
       \/ \E c \in Cadences : AddRecurring(f, n, c, d, w)
       \/ \E c \in Cadences \cup {"keep"} : EditRecurring(f, n, c, d, w)
  \/ \E n \in Names : RemoveRecurring(f, n) \/ CreateGoal(f, n) \/ DeleteGoal(f, n)
  \/ \E n, m \in Names : EditGoal(f, n, m)
  \/ \E t \in Texts : Forget(f, t) \/ \E k \in Kinds : Remember(f, t, k)

Next ==
  \/ \E f \in Flushes :
       \/ Tools(f) \/ Select(f)
       \/ FlushAddRecurring(f) \/ FlushEditRecurring(f) \/ FlushRemoveRecurring(f)
       \/ FlushCreateGoal(f) \/ FlushEditGoal(f) \/ FlushDeleteGoal(f)
       \/ FlushSaveMemory(f) \/ FlushForgetMemory(f) \/ FlushEmptyMemory(f)

Spec == Init /\ [][Next]_vars

-----------------------------------------------------------------------------
(***************************************************************************)
(* Properties.                                                             *)
(***************************************************************************)
Changed == {n \in Names : recurring[n] # recurring'[n]}

\* The recurring item a flush edits or removes is the one the tool named to the
\* user, unless that one had been removed before the flush looked for it.
NamedItemChanged ==
  [][\A f \in Flushes :
       flush[f].pc = "selected" /\ flush'[f].pc = "idle" =>
         Changed \subseteq {flush[f].intent.name} \/ flush[f].missing]_vars

\* The text is looked for in the form its row has: it has no letter that only the
\* database keeps.
Plain(text) == Asked[text] = Stored[text]

\* A plain text is not stored beside a row of the same form, however that one was
\* written, unless another turn changed the memories between its SELECT and its
\* INSERT.  (A text that is not plain does not find the row it has.)
RememberedOnce ==
  \A a, b \in memories :
    a.id < b.id /\ Stored[a.text] = Stored[b.text] /\ Plain(b.text) => b.id \in doubled

\* What is remembered never becomes weaker, and a turn takes at most one memory
\* away, unless another turn changed the memories since this one read them.
MemoryKept ==
  [][/\ Cardinality(memories \ memories') <= 1
     /\ \A m \in memories, n \in memories' :
          m.id = n.id => Rank[n.kind] <= Rank[m.kind]
                           \/ \E f \in Flushes : flush[f].raced /\ flush'[f].pc = "idle"]_vars

\* The database refuses what the tools accepted in two cases only: a day that the
\* cadence at hand does not use or that was given without one, and a goal renamed
\* to the name of another.
AbortExplained ==
  \A i \in aborts :
    \/ i.op = "EditGoal"
    \/ i.op = "AddRecurring" /\ (IF i.cadence = "monthly" THEN i.dow ELSE i.dom) = "bad"
    \/ i.op = "EditRecurring" /\ "bad" \in {i.dom, i.dow}
         /\ (i.cadence = "monthly" => i.dom = "ok") /\ (i.cadence = "weekly" => i.dow = "ok")
=============================================================================
