----------------------------- MODULE GatedLedger -----------------------------
(***************************************************************************)
(* What the handling of inbound messages promises, seen from the ledger.   *)
(* The model proposes write sets; safe ones are logged, risky ones wait in *)
(* the open for an answer, and an answer either applies one of them, as it *)
(* was parked, or closes some for good.  There are no invocations, claims, *)
(* redeliveries or crashes here: Inbound implements this in spite of them. *)
(***************************************************************************)
EXTENDS Naturals

CONSTANTS
  Plans,  \* write sets the model may propose
  Risk    \* what the policy says of each

VARIABLES
  ledger,  \* the write sets that were applied, each with its place in the order
  open,    \* parked write sets that may still be applied
  parked   \* number of write sets ever parked

vars == <<ledger, open, parked>>

Init ==
  /\ ledger = {}
  /\ open = {}
  /\ parked = 0

\* One more write set is entered, after all others.
Enter(p) ==
  \E e \in ledger' \ ledger :
    /\ ledger' = ledger \cup {e}
    /\ e.plan = p
    /\ \A d \in ledger : d.place < e.place

\* A safe write set is logged at once.
Log(p) ==
  /\ Risk[p] = "Safe"
  /\ Enter(p)
  /\ UNCHANGED <<open, parked>>

\* A risky one is parked.
Park(p) ==
  /\ Risk[p] = "NeedsConfirmation"
  /\ parked' = parked + 1
  /\ open' = open \cup {[id |-> parked + 1, plan |-> p]}
  /\ UNCHANGED ledger

\* A "yes" applies a parked write set and takes it from the open in one step.
Apply(c) ==
  /\ c \in open
  /\ Enter(c.plan)
  /\ open' = open \ {c}
  /\ UNCHANGED parked

\* A "no", or the clean-up of what has expired.
Close(S) ==
  /\ open' = open \ S
  /\ UNCHANGED <<ledger, parked>>

Next ==
  \/ \E p \in Plans : Log(p) \/ Park(p)
  \/ \E c \in open : Apply(c)
  \/ \E S \in SUBSET open : Close(S)

Spec == Init /\ [][Next]_vars
=============================================================================
