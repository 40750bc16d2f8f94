----------------------------- MODULE MCDistLock -----------------------------
(* DistLock on a small instance: two acquisitions, of one key or of two in *)
(* one process, or of one key in two processes.                            *)
EXTENDS DistLock

CONSTANTS p1, p2, k1, k2, l1

Places(x, y) == [l \in Locks |-> IF l = l1 THEN x ELSE y]
At(p, k) == [proc |-> p, key |-> k]

MCPlacements ==
    {Places(At(p1, k1), At(p1, k1)), Places(At(p1, k1), At(p1, k2)), Places(At(p1, k1), At(p2, k1))}
=============================================================================
