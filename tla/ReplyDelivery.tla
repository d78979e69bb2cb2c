---------------------------- MODULE ReplyDelivery ----------------------------
(***************************************************************************)
(* What the reply queue promises: a queued reply is sent or given up, in   *)
(* the end one of the two, and what is sent stays sent.  A reply that was  *)
(* given up may be queued again by another flush under its key.  Claims,   *)
(* attempts, backoff and invocations that stop are not seen here:          *)
(* OutboundQueue implements this in spite of them.                         *)
(***************************************************************************)
CONSTANT Keys    \* dedup keys

VARIABLE reply   \* reply[k]: what has become of the reply under key k

Init == reply = [k \in Keys |-> "none"]

Queue(k) ==
  /\ reply[k] \in {"none", "failed"}
  /\ reply' = [reply EXCEPT ![k] = "queued"]

Settle(k) ==
  /\ reply[k] = "queued"
  /\ \E r \in {"sent", "failed"} : reply' = [reply EXCEPT ![k] = r]

\* The provider's late answer overtakes the decision to give up.
SentLate(k) ==
  /\ reply[k] = "failed"
  /\ reply' = [reply EXCEPT ![k] = "sent"]

Next == \E k \in Keys : Queue(k) \/ Settle(k) \/ SentLate(k)

Spec == Init /\ [][Next]_reply

FairSpec ==
  /\ Spec
  /\ \A k \in Keys : WF_reply(Settle(k))
=============================================================================
