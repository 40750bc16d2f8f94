----------------------------- MODULE ReadModels -----------------------------
(***************************************************************************)
(* The read models of the system: each has a journal, a checkpoint row and *)
(* one of the two drivers, the coordinator of a projection of business     *)
(* events or the tailer of the saga journal.                               *)
(***************************************************************************)
EXTENDS Projection, Tailer

vars == <<storeVars, projectionVars, tailerVars>>

Init == StoreInit /\ ProjectionInit /\ TailerInit

Next ==
    \/ ProjectionNext /\ UNCHANGED tailerVars
    \/ TailerNext /\ UNCHANGED projectionVars

ByCoordinator(A) == driver = "coordinator" /\ A /\ UNCHANGED tailerVars
ByTailer(A) == driver = "tailer" /\ A /\ UNCHANGED projectionVars

\* The bus and the rebuild goroutine go on, every tailer polls on its ticker and
\* gets the lock in the end if it is free again and again, and the lease of a dead
\* one runs out.
Fairness ==
    /\ WF_vars(ByCoordinator(Handler))
    /\ WF_vars(ByCoordinator(RebuildStep))
    /\ WF_vars(ByTailer(Expire))
    /\ \A t \in Tailers : WF_vars(ByTailer(Drain(t))) /\ SF_vars(ByTailer(Poll(t)))

Spec == Init /\ [][Next]_vars

FairSpec == Spec /\ Fairness
=============================================================================
