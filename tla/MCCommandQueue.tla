--------------------------- MODULE MCCommandQueue ---------------------------
(* Two commands, in three plans: for one device with room for one pending      *)
(* command; for one device with room for both; for two devices under one       *)
(* idempotency key with no quota.  Every kind of deadline occurs.              *)
EXTENDS CommandQueue

CONSTANTS c1, c2

Timeout(s, c, o) == [schedule |-> s, complete |-> c, overall |-> o]
Both(a, b) == [c \in Commands |-> IF c = c1 THEN a ELSE b]

MCPlans ==
    {[device |-> Both("d1", "d1"), key |-> Both(NoKey, NoKey), limit |-> 1,
      timeouts |-> Both(Timeout(0, 0, 1), Timeout(1, 0, 0))],
     [device |-> Both("d1", "d1"), key |-> Both("k1", "k2"), limit |-> 2,
      timeouts |-> Both(Timeout(0, 1, 0), Timeout(0, 0, 1))],
     [device |-> Both("d1", "d2"), key |-> Both("k1", "k1"), limit |-> 0,
      timeouts |-> Both(Timeout(0, 1, 0), Timeout(0, 0, 0))]}
=============================================================================
