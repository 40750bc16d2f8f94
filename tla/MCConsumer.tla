----------------------------- MODULE MCConsumer ----------------------------
(* Consumer on small instances. *)
EXTENDS Consumer

CONSTANTS Event1, m1, m2

\* The relay has published the same event more than once.
OneEvent == [m \in Messages |-> Event1]

\* The Redis claimer, fail-closed; the in-memory claimer, fail-open; a message that
\* does not decode; and one message whose retries go through one delay tier.
MCDeployments ==
    {[lazy |-> FALSE, failOpen |-> FALSE, malformed |-> {}, sent |-> {m1, m2}, tiers |-> 0,
      maxFaults |-> 2],
     [lazy |-> TRUE, failOpen |-> TRUE, malformed |-> {}, sent |-> {m1, m2}, tiers |-> 0,
      maxFaults |-> 1],
     [lazy |-> FALSE, failOpen |-> FALSE, malformed |-> {m2}, sent |-> {m1, m2}, tiers |-> 0,
      maxFaults |-> 1],
     [lazy |-> FALSE, failOpen |-> FALSE, malformed |-> {}, sent |-> {m1}, tiers |-> 1,
      maxFaults |-> 1]}
============================================================================
