---------------------------- MODULE SagaJournal ----------------------------
(***************************************************************************)
(* The saga journal: the append-only event log of every saga instance, the *)
(* projection of its status, and the lease that fences its writers         *)
(* (kernel/saga/journal, adapters/postgres/saga).                          *)
(*                                                                         *)
(* A lease is named after the coordinator that claimed it: a coordinator   *)
(* claims an instance again only when its drive of the earlier claim is    *)
(* over, so the name tells the claims of one instance apart.               *)
(***************************************************************************)
EXTENDS Naturals, Sequences, FiniteSets

CONSTANTS
    Instances,     \* saga instances
    Coordinators,  \* processes that run a coordinator
    Nobody,        \* no lease
    NSteps,        \* number of steps of the definition
    Compensable    \* the steps that have a Compensate function

Steps == 1 .. NSteps

ASSUME JournalAssumption ==
    /\ NSteps \in Nat \ {0}
    /\ Compensable \subseteq Steps
    /\ Nobody \notin Coordinators

VARIABLES
    status,  \* status[i]: the projection, "absent" before Enqueue
    log,     \* log[i]: the events of i in version order
    lease,   \* lease[i]: who holds the lease, or Nobody
    live     \* live[i]: the lease has not expired

journalVars == <<status, log, lease, live>>

statusTransitions ==
    [pending      |-> {"running", "failed", "expired"},
     running      |-> {"succeeded", "compensating", "failed", "expired"},
     compensating |-> {"compensated", "compensation_failed", "expired"}]

Open == {"pending", "running", "compensating"}
Terminal == {"succeeded", "failed", "compensated", "expired", "compensation_failed"}

CanTransitionTo(from, to) == from \in Open /\ to \in statusTransitions[from]

StepKinds == {"StepCompleted", "StepFailed", "StepCompensated", "StepCompensationFailed"}

\* A terminal event is named after the status it closes the instance with.
StepEvent(k, s) == [kind |-> k, step |-> s]
Event(k) == [kind |-> k, step |-> 0]

JournalInit ==
    /\ status = [i \in Instances |-> "absent"]
    /\ log = [i \in Instances |-> <<>>]
    /\ lease = [i \in Instances |-> Nobody]
    /\ live = [i \in Instances |-> FALSE]

----------------------------------------------------------------------------
Enqueue(i) ==
    /\ status[i] = "absent"
    /\ status' = [status EXCEPT ![i] = "pending"]
    /\ UNCHANGED <<log, lease, live>>

\* A bug: any lease will do.
FencedByAnyone(c, i) == live[i]

fenced(c, i) == lease[i] = c /\ live[i]

Claimable(i) == status[i] \in Open /\ (lease[i] = Nobody \/ ~live[i])

\* ClaimPending leases the instances of S, oldest first up to the batch size.
ClaimPending(c, S) ==
    /\ S # {}
    /\ \A i \in S : Claimable(i)
    /\ lease' = [i \in Instances |-> IF i \in S THEN c ELSE lease[i]]
    /\ live' = [i \in Instances |-> i \in S \/ live[i]]
    /\ UNCHANGED <<status, log>>

\* A bug: the start of a rollback does not show in the status.
ProjectedForward(st, k) == IF k \in {"StepCompleted", "StepFailed"} THEN "running" ELSE st

\* The status after an event of kind k, or the same status for the kinds that
\* only their phase admits.
Projected(st, k) ==
    CASE k \in {"StepCompleted", "StepFailed"} -> "running"
      [] k = "CompensationStarted"             -> "compensating"
      [] OTHER                                 -> st

InPhase(st, k) ==
    CASE k \in {"StepCompleted", "StepFailed"} -> st \in {"pending", "running"}
      [] k = "CompensationStarted"             -> CanTransitionTo(st, "compensating")
      [] OTHER                                 -> st = "compensating"

\* Append is an error, and records nothing, unless the lease is current and the
\* event fits the phase.
CanAppend(c, i, e) == fenced(c, i) /\ InPhase(status[i], e.kind)

Record(c, i, e) ==
    /\ CanAppend(c, i, e)
    /\ log' = [log EXCEPT ![i] = Append(@, e)]
    /\ status' = [status EXCEPT ![i] = Projected(@, e.kind)]
    /\ UNCHANGED <<lease, live>>

\* Append and MarkTerminal in one transaction.  If the lease expires between the
\* two, MarkTerminal reports ok = false and the event alone is committed.
AppendAndMark(c, i, e, final) ==
    /\ CanAppend(c, i, e)
    /\ CanTransitionTo(Projected(status[i], e.kind), final)
    /\ \/ /\ log' = [log EXCEPT ![i] = Append(Append(@, e), Event(final))]
          /\ status' = [status EXCEPT ![i] = final]
          /\ lease' = [lease EXCEPT ![i] = Nobody]
          /\ live' = [live EXCEPT ![i] = FALSE]
       \/ /\ log' = [log EXCEPT ![i] = Append(@, e)]
          /\ status' = [status EXCEPT ![i] = Projected(@, e.kind)]
          /\ live' = [live EXCEPT ![i] = FALSE]
          /\ UNCHANGED lease

\* MarkTerminal: nothing happens on a stale lease (ok = false) or an illegal
\* transition (an error).
MarkTerminal(c, i, final) ==
    IF fenced(c, i) /\ CanTransitionTo(status[i], final)
    THEN /\ status' = [status EXCEPT ![i] = final]
         /\ log' = [log EXCEPT ![i] = Append(@, Event(final))]
         /\ lease' = [lease EXCEPT ![i] = Nobody]
         /\ live' = [live EXCEPT ![i] = FALSE]
    ELSE UNCHANGED journalVars

\* Time passes lease_expires_at.
Expire(i) ==
    /\ live[i]
    /\ live' = [live EXCEPT ![i] = FALSE]
    /\ UNCHANGED <<status, log, lease>>

----------------------------------------------------------------------------
(* Replay of a log.                                                        *)

KindsOf(l) == {l[n].kind : n \in DOMAIN l}

PositionsOf(l, k) == {n \in DOMAIN l : l[n].kind = k}

StepsOf(l, k) == {l[n].step : n \in PositionsOf(l, k)}

\* foldEvents: the cursor, and the history it refuses.
cursor(l) == Cardinality(PositionsOf(l, "StepCompleted"))

FoldFails(l) == "StepFailed" \in KindsOf(l)
============================================================================
