------------------------------- MODULE MCSaga -------------------------------
(* Saga on small instances. *)
EXTENDS Saga

\* Behind the leader gate with a total timeout; without the gate, with step
\* timeouts, while deploys drop the definition.
Gated == [leaderElect |-> TRUE, timeout |-> TRUE, stepTimeout |-> FALSE, removable |-> FALSE]
Ungated == [leaderElect |-> FALSE, timeout |-> FALSE, stepTimeout |-> TRUE, removable |-> TRUE]
Both == {Gated, Ungated}

\* The definition is dropped behind the gate, and nothing times out.
Dropped == {[leaderElect |-> TRUE, timeout |-> FALSE, stepTimeout |-> FALSE, removable |-> TRUE]}
=============================================================================
