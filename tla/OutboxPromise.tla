--------------------------- MODULE OutboxPromise ---------------------------
(***************************************************************************)
(* What the outbox promises a producer, with no table, relay or lease: an  *)
(* entry that is written is delivered at most MaxAttempts times, and its   *)
(* fate, once decided, is final; "published" is said only of an entry the  *)
(* broker has accepted.  A delivery may come after the fate is decided: a  *)
(* relay that lost its lease does not know it.                             *)
(***************************************************************************)
EXTENDS Naturals

CONSTANTS Entries, MaxAttempts

VARIABLES
    fate,   \* "unwritten", "open", "published" or "dead"
    sent    \* how often the broker has accepted the entry

vars == <<fate, sent>>

Init ==
    /\ fate = [e \in Entries |-> "unwritten"]
    /\ sent = [e \in Entries |-> 0]

Accept(e) ==
    /\ fate[e] = "unwritten"
    /\ fate' = [fate EXCEPT ![e] = "open"]
    /\ UNCHANGED sent

Deliver(e) ==
    /\ fate[e] # "unwritten"
    /\ sent[e] < MaxAttempts
    /\ sent' = [sent EXCEPT ![e] = @ + 1]
    /\ UNCHANGED fate

Settle(e) ==
    /\ fate[e] = "open"
    /\ sent[e] > 0
    /\ fate' = [fate EXCEPT ![e] = "published"]
    /\ UNCHANGED sent

\* One sweep of the reclaim loop may give up on several entries.
GiveUp(S) ==
    /\ \A e \in S : fate[e] = "open"
    /\ fate' = [e \in Entries |-> IF e \in S THEN "dead" ELSE fate[e]]
    /\ UNCHANGED sent

Next ==
    \/ \E e \in Entries : Accept(e) \/ Deliver(e) \/ Settle(e)
    \/ \E S \in SUBSET Entries : GiveUp(S)

Spec == Init /\ [][Next]_vars

\* Every accepted entry is decided in the end.
Decided == \A e \in Entries : (fate[e] = "open") ~> (fate[e] \in {"published", "dead"})
============================================================================
