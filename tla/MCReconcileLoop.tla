-------------------------- MODULE MCReconcileLoop --------------------------
(* Small deployments of ReconcileLoop: two replicas that take turns at one     *)
(* entity, and one replica whose two workers share the work.                   *)
EXTENDS ReconcileLoop

CONSTANTS r1, r2, w1, w2, e1, e2

MCReplicas == {r1, r2}
MCEntities == {e1, e2}

Two == [replicas |-> {r1, r2}, workers |-> {w1}, entities |-> {e1},
        results |-> {"transient", "permanent"}, requeue |-> FALSE, buffer |-> 1]
Shared == [replicas |-> {r1}, workers |-> {w1, w2}, entities |-> {e1, e2},
           results |-> {"success", "transient"}, requeue |-> FALSE, buffer |-> 5]
Periodic == [replicas |-> {r1}, workers |-> {w1, w2}, entities |-> {e1},
             results |-> {"success", "transient"}, requeue |-> TRUE, buffer |-> 5]
Failing == [replicas |-> {r1}, workers |-> {w1, w2}, entities |-> {e1},
            results |-> {"success", "transient", "permanent"}, requeue |-> FALSE, buffer |-> 5]

MCDeployments == {Two, Shared, Periodic}
MCFailing == {Failing}
=============================================================================
