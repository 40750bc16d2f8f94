---------------------------- MODULE SagaPromise ----------------------------
(***************************************************************************)
(* What the engine promises to the one who enrolls a saga: its steps are   *)
(* committed one at a time and never taken back from the record; it either *)
(* commits all of them, or fails, or is rolled back after at least one, or *)
(* expires; and the end it comes to is final.                              *)
(***************************************************************************)
EXTENDS Naturals

CONSTANTS
    Instances,  \* sagas
    NSteps      \* number of steps of the definition

VARIABLES
    phase,  \* phase[i]: the status the producer sees
    done    \* done[i]: committed steps

Init ==
    /\ phase = [i \in Instances |-> "absent"]
    /\ done = [i \in Instances |-> 0]

Move(i, from, to) ==
    /\ phase[i] \in from
    /\ phase' = [phase EXCEPT ![i] = to]

Enroll(i) == Move(i, {"absent"}, "pending") /\ UNCHANGED done

\* The last step may carry the success with it.
Advance(i) ==
    /\ done[i] < NSteps
    /\ done' = [done EXCEPT ![i] = @ + 1]
    /\ \/ Move(i, {"pending", "running"}, "running")
       \/ done[i] + 1 = NSteps /\ Move(i, {"pending", "running"}, "succeeded")

Succeed(i) == done[i] = NSteps /\ Move(i, {"running"}, "succeeded") /\ UNCHANGED done

\* A failure may be on the record before the saga is declared failed.
Fail(i) ==
    /\ \E to \in {"running", "failed"} : Move(i, {"pending", "running"}, to)
    /\ UNCHANGED done

RollBack(i) == done[i] > 0 /\ Move(i, {"running"}, "compensating") /\ UNCHANGED done

EndRollback(i) ==
    /\ \E to \in {"compensated", "compensation_failed"} : Move(i, {"compensating"}, to)
    /\ UNCHANGED done

Expire(i) == Move(i, {"pending", "running", "compensating"}, "expired") /\ UNCHANGED done

Next ==
    \E i \in Instances :
        \/ Enroll(i) \/ Advance(i) \/ Succeed(i) \/ Fail(i)
        \/ RollBack(i) \/ EndRollback(i) \/ Expire(i)

Spec == Init /\ [][Next]_<<phase, done>>
=============================================================================
