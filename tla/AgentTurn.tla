------------------------------ MODULE AgentTurn ------------------------------
(***************************************************************************)
(* run_agent: one message answered by the model with tools.                *)
(*                                                                         *)
(* Up to Rounds calls of the model may ask for tools, one more may not.  A *)
(* call is tried MaxAttempts times.  A write tool buffers an intent, and   *)
(* nothing else happens until the caller flushes the buffer in order; an   *)
(* error of the model drops it.  Corrections name their target when they   *)
(* are buffered, and a row of their own turn has no id yet: they say "the  *)
(* last one of this turn", which the flush works out again.                *)
(*                                                                         *)
(* The tools' arguments are any; what the model says is any.               *)
(***************************************************************************)
EXTENDS WritePolicy

CONSTANTS
  Rounds,       \* calls of the model that may ask for tools: 4
  MaxAttempts,  \* MAX_ATTEMPTS of one call: 3
  MaxCalls      \* bound of the model: tool calls in the turn

ASSUME AgentAssumption ==
  /\ Rounds \in Nat /\ MaxAttempts \in Nat \ {0}
  /\ MaxCalls \in Nat

VARIABLES
  pc,        \* ask: calling the model; first, tools: executing its tool calls; done; failed
  round,     \* calls of the model answered with tool calls
  attempt,   \* of the call under way
  calls,     \* tool calls executed
  writes,    \* the buffer
  last,      \* snapshot.last_transaction; pinned: an income or a contribution
  meant      \* history: of each write, the buffered row a correction was about

vars == <<pc, round, attempt, calls, writes, last, meant>>

-----------------------------------------------------------------------------
TypeOK ==
  /\ pc \in {"ask", "first", "tools", "done", "failed"}
  /\ round \in 0..Rounds
  /\ attempt \in 1..MaxAttempts
  /\ calls \in 0..MaxCalls
  /\ writes \in Seq(Intent)
  /\ last \in {"none", "plain", "pinned"}
  /\ meant \in Seq(0..MaxCalls) /\ Len(meant) <= Len(writes)

Init ==
  /\ pc = "ask"
  /\ round = 0 /\ attempt = 1 /\ calls = 0
  /\ writes = <<>> /\ meant = <<>>
  /\ last \in {"none", "plain", "pinned"}

-----------------------------------------------------------------------------
(***************************************************************************)
(* Calls of the model: chat_turn, and what the loop does with its result.  *)
(***************************************************************************)

\* Mutant: a retryable error starts the count again.
NextAttempt_Restarts(retryable) == IF retryable THEN (attempt % MaxAttempts) + 1 ELSE 0

\* chat_turn tries again, or returns the error (0): is_retryable says no, or this
\* was the last attempt.
NextAttempt(retryable) == IF retryable /\ attempt < MaxAttempts THEN attempt + 1 ELSE 0

\* An attempt fails.  Transport errors (REQUEST_TIMEOUT is one), 429 and 5xx are
\* retryable.
AttemptFails(retryable) ==
  /\ pc = "ask"
  /\ IF NextAttempt(retryable) = 0
     THEN pc' = "failed" /\ attempt' = attempt
     ELSE pc' = "ask" /\ attempt' = NextAttempt(retryable)
  /\ UNCHANGED <<round, calls, writes, last, meant>>

\* Tool calls, which only a call that offers tools gets executed.
AnswersWithTools ==
  /\ pc = "ask" /\ round < Rounds /\ calls < MaxCalls
  /\ pc' = "first" /\ round' = round + 1 /\ attempt' = 1
  /\ UNCHANGED <<calls, writes, last, meant>>

\* A final reply: with_turn_writes adds the two sides of the conversation.
Replies ==
  /\ pc = "ask"
  /\ pc' = "done"
  /\ writes' = writes \o <<Write("SaveTurn", 0), Write("SaveTurn", 0)>>
  /\ UNCHANGED <<round, attempt, calls, last, meant>>

\* MissingFinalReply: no content where there are no tool calls, or none offered.
NoReply ==
  /\ pc = "ask"
  /\ pc' = "failed"
  /\ UNCHANGED <<round, attempt, calls, writes, last, meant>>

-----------------------------------------------------------------------------
(***************************************************************************)
(* Tools.  A round ends when its calls are executed.                       *)
(***************************************************************************)
Calling ==
  /\ pc \in {"first", "tools"} /\ calls < MaxCalls
  /\ pc' = "tools" /\ calls' = calls + 1
  /\ UNCHANGED <<round, attempt, last>>

Buffer(w, row) ==
  /\ Calling
  /\ writes' = Append(writes, w)
  /\ meant' = Append(meant, row)

Rows == {"Transaction", "GoalContribution"}

\* Mutant: a delete does not end the search.
LastBuffered_PastDelete ==
  LET hits == {n \in DOMAIN writes : writes[n].op \in Rows} IN
  IF hits = {} THEN 0 ELSE CHOOSE n \in hits : \A k \in hits : k <= n

\* last_buffered_transaction, as a position in the buffer, 0 for none: going
\* back, the first row, unless a delete of this turn comes before it.
LastBuffered ==
  LET stops == {n \in DOMAIN writes : writes[n].op \in Rows
                                        \/ (writes[n].op = "DeleteLast" /\ writes[n].sameTurn)} IN
  IF stops = {} THEN 0
  ELSE LET n == CHOOSE n \in stops : \A k \in stops : k <= n IN
       IF writes[n].op \in Rows THEN n ELSE 0

\* log_expense, log_income
LogTransaction(amount, income) ==
  Buffer([Write("Transaction", amount) EXCEPT !.income = income], 0)

\* contribute_to_goal and log_transfer, when the goal is found and an account given
ContributeToGoal(amount) == Buffer(Write("GoalContribution", amount), 0)
LogTransfer(amount) == Buffer(Write("Transfer", amount), 0)

\* A category is kept of an income or a contribution.
Pinned(n) ==
  IF n = 0 THEN last = "pinned"
  ELSE writes[n].op = "GoalContribution" \/ writes[n].income

\* edit_last: an amount (0 for none), a category, a note or none of them.
EditLast(amount, category, note) ==
  LET n == LastBuffered IN
  /\ n # 0 \/ last # "none"
  /\ category => ~Pinned(n)
  /\ amount # 0 \/ category \/ note
  /\ Buffer([Write("EditLast", amount) EXCEPT !.sameTurn = (n # 0)], n)

\* delete_last
DeleteLast ==
  LET n == LastBuffered IN
  /\ n # 0 \/ last # "none"
  /\ Buffer([Write("DeleteLast", 0) EXCEPT !.sameTurn = (n # 0)], n)

\* set_budget, create_goal
SetBudget(amount) == Buffer(Write("SetBudget", amount), 0)
CreateGoal(amount) == Buffer(Write("CreateGoal", amount), 0)

\* add_recurring, edit_goal, edit_recurring; the policy looks at no amount of theirs
Changes(op) ==
  /\ op \in {"AddRecurring", "EditGoal", "EditRecurring"}
  /\ Buffer(Write(op, 0), 0)

\* remove_budget, delete_goal, remove_recurring, forget_memory
Removes(op) ==
  /\ op \in {"RemoveBudget", "DeleteGoal", "RemoveRecurring", "ForgetMemory"}
  /\ Buffer(Write(op, 0), 0)

\* Mutant: a durable kind is enough.
ShouldSaveMemory_Kind(text, kindDurable) == kindDurable \/ text \in {"durable", "mixed"}

\* should_save_memory of a text that is long enough: a durable cue decides, then
\* a number with a spend verb, then the kind.
ShouldSaveMemory(text, kindDurable) ==
  text \in {"durable", "mixed"} \/ (text = "plain" /\ kindDurable)

\* remember
Remember(text, kindDurable) ==
  /\ ShouldSaveMemory(text, kindDurable)
  /\ Buffer([Write("SaveMemory", 0) EXCEPT !.text = text], 0)

\* The read tools, and listMemory.
ReadTool == Calling /\ UNCHANGED <<writes, meant>>

\* Every call a tool refuses: unusable arguments, nothing found, nothing to
\* change, a future date, an unknown tool.  The model gets the error.
Refused == Calling /\ UNCHANGED <<writes, meant>>

RoundEnds ==
  /\ pc = "tools"
  /\ pc' = "ask"
  /\ UNCHANGED <<round, attempt, calls, writes, last, meant>>

Model ==
  \/ \E r \in BOOLEAN : AttemptFails(r)
  \/ AnswersWithTools \/ Replies \/ NoReply

Tools ==
  \/ \E a \in Amounts : (\E i \in BOOLEAN : LogTransaction(a, i))
                          \/ ContributeToGoal(a) \/ LogTransfer(a)
                          \/ SetBudget(a) \/ CreateGoal(a)
  \/ \E a \in Amounts \cup {0}, c, n \in BOOLEAN : EditLast(a, c, n)
  \/ DeleteLast
  \/ \E op \in Constructive : Changes(op)
  \/ \E op \in Destructive : Removes(op)
  \/ \E t \in Texts, k \in BOOLEAN : Remember(t, k)
  \/ ReadTool \/ Refused \/ RoundEnds

Next == Model \/ Tools

Spec == Init /\ [][Next]_vars

\* The attempts of a model call end, by their timeout if nothing else, and tools
\* return: as long as the invocation lives the loop goes on.
FairSpec == Spec /\ WF_vars(Next)

-----------------------------------------------------------------------------
(***************************************************************************)
(* What the flush does with the rows of the turn: apply_write_intent over  *)
(* the buffer, in order, with last_inserted_tx_id (a position; 0 is None). *)
(***************************************************************************)

\* last_inserted_tx_id after the n-th write.
AfterWrite(lastId, n) ==
  CASE writes[n].op \in Rows -> n
    [] writes[n].op = "DeleteLast" /\ writes[n].sameTurn -> 0
    [] OTHER -> lastId

LastIdBefore[n \in 1..(Len(writes) + 1)] ==
  IF n = 1 THEN 0 ELSE AfterWrite(LastIdBefore[n - 1], n - 1)

\* The row whose amount the k-th write sets: its own, or the one an edit finds;
\* 0 is the row of an earlier turn.
RowSet(k) ==
  CASE writes[k].op \in Rows -> k
    [] writes[k].op = "EditLast" /\ writes[k].sameTurn -> LastIdBefore[k]
    [] OTHER -> 0

\* Amount the flush leaves in row n: the last write that sets it decides.
LeftIn(n) ==
  LET setting == {k \in DOMAIN writes :
        /\ writes[k].op \in Rows \/ (writes[k].op = "EditLast" /\ writes[k].amount # 0)
        /\ RowSet(k) = n} IN
  IF setting = {} THEN 0
  ELSE writes[CHOOSE k \in setting : \A j \in setting : j <= k].amount

-----------------------------------------------------------------------------
(***************************************************************************)
(* Properties.                                                             *)
(***************************************************************************)

\* A correction of this turn's own row reaches, at the flush, the very row the
\* tool looked at when it accepted it: never an older one, never none.
TargetAgrees ==
  \A n \in DOMAIN meant :
    writes[n].op \in {"EditLast", "DeleteLast"} /\ writes[n].sameTurn
      => LastIdBefore[n] = meant[n] /\ meant[n] # 0

\* A turn that commits without asking leaves less than the threshold in the rows
\* it creates and edits, all of them together.
SafeIsSmall ==
  ClassifyWrites(writes) = "safe" =>
    SumFunction([n \in 0..Len(writes) |-> LeftIn(n)]) < Threshold

\* The policy refuses a turn only for a memory that the tool took for a durable
\* cue in a text that also reads like a purchase; every other one-off text was
\* refused by the tool, which the model can still tell the user.
RejectExplained ==
  ClassifyWrites(writes) = "reject" =>
    \E n \in DOMAIN writes : writes[n].op = "SaveMemory" /\ writes[n].text = "mixed"

\* However the model answers and fails, the turn comes to an end.
TurnEnds == <>(pc \in {"done", "failed"})
=============================================================================
