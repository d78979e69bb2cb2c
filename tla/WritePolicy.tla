----------------------------- MODULE WritePolicy -----------------------------
(***************************************************************************)
(* classify_writes: what a turn may commit at once, what it must ask for   *)
(* first, what it may not do.                                              *)
(*                                                                         *)
(* A write intent keeps its variant, the amount that counts (0 for none),  *)
(* for a correction whether it targets a row of its own turn, and for a    *)
(* memory whether its text has a number and a spend verb.                  *)
(***************************************************************************)
EXTENDS Integers, FiniteSets, SequencesExt

CONSTANTS
  Threshold,         \* PolicySettings::confirm_threshold_centavos
  MaxWritesPerTurn,  \* MAX_WRITES_PER_TURN
  Amounts            \* amounts a tool may be given

\* from_threshold: an unset or non-positive setting becomes the default.
ASSUME PolicyAssumption ==
  /\ Threshold \in Nat \ {0}
  /\ MaxWritesPerTurn \in Nat
  /\ Amounts \subseteq Nat \ {0}

Destructive == {"DeleteLast", "DeleteGoal", "RemoveBudget", "RemoveRecurring", "ForgetMemory"}
Constructive == {"Transaction", "GoalContribution", "EditLast", "CreateGoal", "EditGoal",
                 "SetBudget", "AddRecurring", "EditRecurring", "Transfer"}
Bookkeeping == {"SaveTurn", "OutboundReply", "ConsumeConfirmation"}
Variants == Destructive \cup Constructive \cup {"SaveMemory"} \cup Bookkeeping

\* Words of a memory: durable has a cue of a lasting fact, oneOff a number and a
\* spend verb, mixed both, plain neither.
Texts == {"durable", "plain", "oneOff", "mixed"}

\* looks_like_one_off_transaction
LooksOneOff(w) == w.op = "SaveMemory" /\ w.text \in {"oneOff", "mixed"}

\* Of a Transaction, income: its kind; of a SaveMemory, text: what its words look
\* like.
Intent == [op: Variants, amount: Amounts \cup {0}, sameTurn: BOOLEAN, income: BOOLEAN,
           text: Texts \cup {"none"}]

Write(op, amount) ==
  [op |-> op, amount |-> amount, sameTurn |-> FALSE, income |-> FALSE,
   text |-> "none"]

\* Mutant: a new amount for the last entry is not an amount.
AmountBearing_NoEdit == {"Transaction", "GoalContribution", "Transfer", "SetBudget", "CreateGoal"}

\* Variants whose amount max_amount_centavos and total_amount_centavos look at.
AmountBearing ==
  {"Transaction", "GoalContribution", "Transfer", "EditLast", "SetBudget", "CreateGoal"}

AmountOf(w) == IF w.op \in AmountBearing THEN w.amount ELSE 0

\* max_amount_centavos, total_amount_centavos
MaxAmount(writes) == Max({0} \cup {AmountOf(writes[n]) : n \in DOMAIN writes})
TotalAmount(writes) == SumFunction([n \in DOMAIN writes |-> AmountOf(writes[n])])

\* What is left of the turn without its bookkeeping: positions in it.
LedgerWrites(writes) == {n \in DOMAIN writes : writes[n].op \notin Bookkeeping}

\* classify_writes
ClassifyWrites(writes) ==
  CASE \E n \in LedgerWrites(writes) : LooksOneOff(writes[n]) -> "reject"
    [] OTHER -> IF \/ \E n \in LedgerWrites(writes) : writes[n].op \in Destructive
                   \/ Cardinality(LedgerWrites(writes)) > MaxWritesPerTurn
                   \/ MaxAmount(writes) >= Threshold
                   \/ TotalAmount(writes) >= Threshold
                THEN "confirm" ELSE "safe"
=============================================================================
