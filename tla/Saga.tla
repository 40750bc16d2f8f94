-------------------------------- MODULE Saga --------------------------------
(***************************************************************************)
(* The saga coordinator (runtime/saga/coordinator.go, leader_elect.go and  *)
(* executor/): processes that claim instances from the journal, drive one  *)
(* step of each under a lease kept alive by a heartbeat, and roll back the *)
(* committed steps in reverse when a step fails for good.                  *)
(*                                                                         *)
(* A drive is a goroutine of tickOnce.  It works from what it read: the    *)
(* status at the claim and the log at Load.  In between it may stall past  *)
(* its lease, be canceled by Stop, or die with its process; these mishaps, *)
(* and the errors of the journal and of the lock, are counted per instance *)
(* and bounded.                                                            *)
(***************************************************************************)
EXTENDS SagaJournal

CONSTANTS
    ClaimBatchSize,  \* Config.ClaimBatchSize
    MaxAttempts,     \* RetryPolicy.MaxAttempts, resolved
    Deployments,     \* the configurations considered
    Orphan,          \* holder of a lock that nobody renews or releases
    MaxMishaps       \* bound: mishaps of an instance

ASSUME SagaAssumption ==
    /\ ClaimBatchSize \in Nat \ {0}
    /\ MaxAttempts \in Nat \ {0}
    /\ Deployments \subseteq
         [leaderElect : BOOLEAN,   \* WithLeaderElect is set
          timeout : BOOLEAN,       \* Definition.Timeout is positive
          stepTimeout : BOOLEAN,   \* Step.Timeout is positive
          removable : BOOLEAN]     \* a deploy may drop the definition
    /\ MaxMishaps \in Nat
    /\ IsFiniteSet(Coordinators)
    /\ Orphan \notin Coordinators \cup {Nobody}

VARIABLES
    drive,    \* drive[c][i]: the drive of i by c
    lock,     \* lock[i]: the holder of the distlock of i, or Nobody
    known,    \* known[c]: the registry of c has the definition
    late,     \* late[i]: Definition.Timeout has elapsed
    deploy,   \* the configuration, fixed for the behaviour
    mishaps,  \* mishaps[i]: stalls, crashes, cancellations and errors so far
    ran,      \* ran[i][s]: invocations of Run of step s
    undos,    \* undos[i][s]: invocations of Compensate of step s
    undone    \* undone[i]: steps whose Compensate has succeeded

runVars == <<ran, undos, undone>>
envVars == <<known, late, deploy>>
vars == <<journalVars, drive, lock, envVars, mishaps, runVars>>

Idle == [at |-> "idle", was |-> "absent", seen |-> 0, attempt |-> 0, want |-> "absent",
         todo |-> {}, step |-> 0, bad |-> FALSE, ok |-> FALSE]

Init ==
    /\ JournalInit
    /\ drive = [c \in Coordinators |-> [i \in Instances |-> Idle]]
    /\ lock = [i \in Instances |-> Nobody]
    /\ known = [c \in Coordinators |-> TRUE]
    /\ late = [i \in Instances |-> FALSE]
    /\ deploy \in Deployments
    /\ mishaps = [i \in Instances |-> 0]
    /\ ran = [i \in Instances |-> [s \in Steps |-> 0]]
    /\ undos = [i \in Instances |-> [s \in Steps |-> 0]]
    /\ undone = [i \in Instances |-> {}]

----------------------------------------------------------------------------
At(c, i, place) == drive[c][i].at = place

Set(c, i, d) == drive' = [drive EXCEPT ![c][i] = d]

Goto(c, i, place) == Set(c, i, [drive[c][i] EXCEPT !.at = place])

Mark(c, i, final) == [drive[c][i] EXCEPT !.at = "mark", !.want = final]

\* A bug: the release of the distlock is forgotten.
EndKeepsLock(c, i) == Set(c, i, Idle) /\ UNCHANGED lock

\* The drive returns, and the deferred release frees the distlock.
End(c, i) ==
    /\ Set(c, i, Idle)
    /\ lock' = [lock EXCEPT ![i] = IF @ = c THEN Nobody ELSE @]

Mishap(i) ==
    /\ mishaps[i] < MaxMishaps
    /\ mishaps' = [mishaps EXCEPT ![i] = @ + 1]

\* What Load returned, and the step that comes next in it.
History(c, i) == SubSeq(log[i], 1, drive[c][i].seen)

NextStep(c, i) == cursor(History(c, i)) + 1

----------------------------------------------------------------------------
(* The tick: claim a batch, pass the leader gate, load.                    *)

tickOnce(c) ==
    /\ \A i \in Instances : At(c, i, "idle")
    /\ \E S \in SUBSET Instances :
        /\ Cardinality(S) <= ClaimBatchSize
        /\ ClaimPending(c, S)
        /\ drive' = [drive EXCEPT ![c] = [i \in Instances |->
                        IF i \in S THEN [Idle EXCEPT !.at = "lead", !.was = status[i]] ELSE Idle]]
    /\ UNCHANGED <<lock, envVars, mishaps, runVars>>

\* acquireLead: an instance whose lock is taken is skipped, its lease left to
\* expire.
acquireLead(c, i) ==
    /\ At(c, i, "lead")
    /\ IF deploy.leaderElect /\ lock[i] # Nobody
       THEN Set(c, i, Idle) /\ UNCHANGED lock
       ELSE /\ Goto(c, i, "begin")
            /\ lock' = IF deploy.leaderElect THEN [lock EXCEPT ![i] = c] ELSE lock
    /\ UNCHANGED <<journalVars, envVars, mishaps, runVars>>

\* driveOne up to the call of the executor: the definition, the total timeout,
\* the log, the recovery branch and the fold, in this order.
driveOne(c, i) ==
    LET loaded == [drive[c][i] EXCEPT !.seen = Len(log[i])]
    IN  /\ At(c, i, "begin")
        /\ Set(c, i,
            CASE ~known[c]                            -> Mark(c, i, "failed")
              [] known[c] /\ late[i]                  -> Mark(c, i, "expired")
              [] OTHER ->
                 IF drive[c][i].was = "compensating"  THEN [loaded EXCEPT !.at = "rollback"]
                 ELSE IF FoldFails(log[i])            THEN Mark(c, i, "failed")
                 ELSE IF cursor(log[i]) >= NSteps     THEN Mark(c, i, "succeeded")
                 ELSE [loaded EXCEPT !.at = "preflight"])
        /\ UNCHANGED <<journalVars, lock, envVars, mishaps, runVars>>

markTerminal(c, i) ==
    /\ At(c, i, "mark")
    /\ MarkTerminal(c, i, drive[c][i].want)
    /\ End(c, i)
    /\ UNCHANGED <<envVars, mishaps, runVars>>

----------------------------------------------------------------------------
(* The executor.                                                           *)

Invoke(c, i, attempt) ==
    /\ Set(c, i, [drive[c][i] EXCEPT !.at = "run", !.attempt = attempt])
    /\ ran' = [ran EXCEPT ![i][NextStep(c, i)] = @ + 1]
    /\ UNCHANGED <<lock, undos, undone>>

\* The preflight heartbeat: a stale lease ends the drive before Run is called.
Execute(c, i) ==
    /\ At(c, i, "preflight")
    /\ IF fenced(c, i) THEN Invoke(c, i, 1) ELSE End(c, i) /\ UNCHANGED runVars
    /\ UNCHANGED <<journalVars, envVars, mishaps>>

\* The preflight heartbeat fails, and the step runs all the same.
HeartbeatError(c, i) ==
    /\ At(c, i, "preflight")
    /\ Mishap(i)
    /\ Invoke(c, i, 1)
    /\ UNCHANGED <<journalVars, envVars>>

RunSucceeds(c, i) ==
    /\ At(c, i, "run")
    /\ Goto(c, i, "commit")
    /\ UNCHANGED <<journalVars, lock, envVars, mishaps, runVars>>

\* A bug: one attempt too many.
RunFailsOnceMore(c, i) ==
    /\ At(c, i, "run")
    /\ IF drive[c][i].attempt <= MaxAttempts
       THEN Invoke(c, i, drive[c][i].attempt + 1)
       ELSE Goto(c, i, "failed") /\ UNCHANGED <<lock, runVars>>
    /\ UNCHANGED <<journalVars, envVars, mishaps>>

RunFails(c, i) ==
    /\ At(c, i, "run")
    /\ IF drive[c][i].attempt < MaxAttempts
       THEN Invoke(c, i, drive[c][i].attempt + 1)
       ELSE Goto(c, i, "failed") /\ UNCHANGED <<lock, runVars>>
    /\ UNCHANGED <<journalVars, envVars, mishaps>>

\* Step.Timeout or the deadline of the saga elapses during Run.
RunExpires(c, i) ==
    /\ At(c, i, "run")
    /\ deploy.stepTimeout \/ late[i]
    /\ Set(c, i, Mark(c, i, "expired"))
    /\ UNCHANGED <<journalVars, lock, envVars, mishaps, runVars>>

\* The heartbeat sees a stale lease and cancels Run or the reverse walk.
LeaseLost(c, i) ==
    /\ At(c, i, "run") \/ At(c, i, "walk")
    /\ ~fenced(c, i)
    /\ End(c, i)
    /\ UNCHANGED <<journalVars, envVars, mishaps, runVars>>

\* Stop orphans the lock and cancels the context: no terminal status, the
\* instance is left for another claim.
Canceled(c, i) ==
    /\ At(c, i, "run") \/ At(c, i, "walk")
    /\ Mishap(i)
    /\ Set(c, i, Idle)
    /\ lock' = [lock EXCEPT ![i] = IF @ = c THEN Orphan ELSE @]
    /\ UNCHANGED <<journalVars, envVars, runVars>>

----------------------------------------------------------------------------
(* routeOutcome.                                                           *)

\* commitStepInTx on success: the event and, after the last step, the terminal
\* status in one transaction; a refused Append rolls it back.
commitStepCompleted(c, i) ==
    LET s == NextStep(c, i)
        e == StepEvent("StepCompleted", s)
    IN  /\ At(c, i, "commit")
        /\ \/ ~CanAppend(c, i, e) /\ UNCHANGED journalVars
           \/ s < NSteps /\ Record(c, i, e)
           \/ s = NSteps /\ AppendAndMark(c, i, e, "succeeded")
        /\ End(c, i)
        /\ UNCHANGED <<envVars, mishaps, runVars>>

\* A bug: one step without Compensate and nothing is rolled back.
shouldCompensateAll(l) == Compensable = Steps /\ "StepCompleted" \in KindsOf(l)

shouldCompensate(l) == Compensable # {} /\ "StepCompleted" \in KindsOf(l)

commitStepFailed(c, i) ==
    LET e == StepEvent("StepFailed", NextStep(c, i))
    IN  /\ At(c, i, "failed")
        /\ ~shouldCompensate(History(c, i))
        /\ \/ ~CanAppend(c, i, e) /\ UNCHANGED journalVars
           \/ AppendAndMark(c, i, e, "failed")
        /\ End(c, i)
        /\ UNCHANGED <<envVars, mishaps, runVars>>

\* A bug: the rollback starts without saying so.
startCompensationSilently(c, i) ==
    /\ At(c, i, "failed")
    /\ shouldCompensate(History(c, i))
    /\ Goto(c, i, "rollback")
    /\ UNCHANGED <<journalVars, lock, envVars, mishaps, runVars>>

appendCompensationStarted(c, i) ==
    LET e == Event("CompensationStarted")
    IN  /\ At(c, i, "failed")
        /\ shouldCompensate(History(c, i))
        /\ IF CanAppend(c, i, e)
           THEN Record(c, i, e) /\ Goto(c, i, "rollback") /\ UNCHANGED lock
           ELSE UNCHANGED journalVars /\ End(c, i)
        /\ UNCHANGED <<envVars, mishaps, runVars>>

\* The journal fails an Append, a MarkTerminal, a Load or a transaction, or the
\* lock backend an Acquire: the drive returns its error.
DriveError(c, i) ==
    /\ drive[c][i].at \in {"lead", "begin", "mark", "commit", "failed"}
    /\ Mishap(i)
    /\ End(c, i)
    /\ UNCHANGED <<journalVars, envVars, runVars>>

----------------------------------------------------------------------------
(* runCompensation.                                                        *)

\* The steps whose compensation has an outcome, good or bad.
settled(l) == StepsOf(l, "StepCompensated") \cup StepsOf(l, "StepCompensationFailed")

\* The committed steps that have no compensation outcome, by the positions of their
\* events.
collectCommittedSteps(l) == {n \in PositionsOf(l, "StepCompleted") : l[n].step \notin settled(l)}

\* A bug: a failure before the handoff is forgotten.
WalkForgets(c, i) ==
    Set(c, i, [drive[c][i] EXCEPT !.at = "walk",
                                  !.todo = collectCommittedSteps(History(c, i)),
                                  !.bad = FALSE])

Walk(c, i) ==
    LET l == History(c, i)
    IN  Set(c, i, [drive[c][i] EXCEPT !.at = "walk",
                                      !.todo = collectCommittedSteps(l),
                                      !.bad = "StepCompensationFailed" \in KindsOf(l)])

\* The walk starts behind a preflight heartbeat of its own.
runCompensation(c, i) ==
    /\ At(c, i, "rollback")
    /\ IF fenced(c, i) THEN Walk(c, i) /\ UNCHANGED lock ELSE End(c, i)
    /\ UNCHANGED <<journalVars, envVars, mishaps, runVars>>

WalkHeartbeatError(c, i) ==
    /\ At(c, i, "rollback")
    /\ Mishap(i)
    /\ Walk(c, i)
    /\ UNCHANGED <<journalVars, lock, envVars, runVars>>

\* The walk takes the committed step at n off its list.
Take(c, i, n) == [drive[c][i] EXCEPT !.todo = @ \ {n}]

\* Compensate of the step at n is called, and succeeds or fails.
Undo(c, i, n) ==
    LET s == log[i][n].step
        taken == [Take(c, i, n) EXCEPT !.at = "record", !.step = s]
    IN  /\ undos' = [undos EXCEPT ![i][s] = @ + 1]
        /\ UNCHANGED ran
        /\ \/ /\ undone' = [undone EXCEPT ![i] = @ \cup {s}]
              /\ Set(c, i, [taken EXCEPT !.ok = TRUE])
           \/ /\ UNCHANGED undone
              /\ Set(c, i, [taken EXCEPT !.ok = FALSE, !.bad = TRUE])

\* The committed step that is last of those left: one without Compensate is passed
\* over.
compensateOneStep(c, i) ==
    /\ At(c, i, "walk")
    /\ \E n \in drive[c][i].todo :
        /\ \A m \in drive[c][i].todo : m <= n
        /\ IF log[i][n].step \in Compensable THEN Undo(c, i, n)
           ELSE Set(c, i, Take(c, i, n)) /\ UNCHANGED runVars
    /\ UNCHANGED <<journalVars, lock, envVars, mishaps>>

Outcome(c, i) ==
    StepEvent(IF drive[c][i].ok THEN "StepCompensated" ELSE "StepCompensationFailed",
              drive[c][i].step)

Proceed(c, i) == Set(c, i, [drive[c][i] EXCEPT !.at = "walk", !.step = 0, !.ok = FALSE])

\* The outcome is recorded; a refused Append is logged and the walk goes on.
RecordOutcome(c, i) ==
    /\ At(c, i, "record")
    /\ IF CanAppend(c, i, Outcome(c, i)) THEN Record(c, i, Outcome(c, i)) ELSE UNCHANGED journalVars
    /\ Proceed(c, i)
    /\ UNCHANGED <<lock, envVars, mishaps, runVars>>

RecordError(c, i) ==
    /\ At(c, i, "record")
    /\ Mishap(i)
    /\ Proceed(c, i)
    /\ UNCHANGED <<journalVars, lock, envVars, runVars>>

FinishWalk(c, i) ==
    /\ At(c, i, "walk")
    /\ drive[c][i].todo = {}
    /\ Set(c, i, Mark(c, i, IF drive[c][i].bad THEN "compensation_failed" ELSE "compensated"))
    /\ UNCHANGED <<journalVars, lock, envVars, mishaps, runVars>>

----------------------------------------------------------------------------
(* The environment.                                                        *)

Driving(c) == {i \in Instances : ~At(c, i, "idle")}

\* The process dies, and comes back with a registry that may have lost the
\* definition.  Its leases and locks stay until they expire.
Crash(c) ==
    /\ \A i \in Driving(c) : mishaps[i] < MaxMishaps
    /\ drive' = [drive EXCEPT ![c] = [i \in Instances |-> Idle]]
    /\ mishaps' = [i \in Instances |-> mishaps[i] + IF i \in Driving(c) THEN 1 ELSE 0]
    /\ \/ Driving(c) # {} /\ UNCHANGED known
       \/ deploy.removable /\ known[c] /\ known' = [known EXCEPT ![c] = FALSE]
    /\ lock' = [i \in Instances |-> IF lock[i] = c THEN Orphan ELSE lock[i]]
    /\ UNCHANGED <<journalVars, late, deploy, runVars>>

\* The lease expires under a drive that stalls, or whose clock is behind.
Stall(i) ==
    /\ lease[i] # Nobody /\ ~At(lease[i], i, "idle")
    /\ Mishap(i)
    /\ Expire(i)
    /\ UNCHANGED <<drive, lock, envVars, runVars>>

\* The lease of a drive that is over expires.
LeaseExpires(i) ==
    /\ lease[i] # Nobody /\ At(lease[i], i, "idle")
    /\ Expire(i)
    /\ UNCHANGED <<drive, lock, envVars, mishaps, runVars>>

\* An orphaned lock expires.
LockExpires(i) ==
    /\ lock[i] = Orphan
    /\ lock' = [lock EXCEPT ![i] = Nobody]
    /\ UNCHANGED <<journalVars, drive, envVars, mishaps, runVars>>

\* The renewal of a lock fails, and the drive behind it goes on.
LockLost(i) ==
    /\ lock[i] \in Coordinators
    /\ Mishap(i)
    /\ lock' = [lock EXCEPT ![i] = Nobody]
    /\ UNCHANGED <<journalVars, drive, envVars, runVars>>

Overdue(i) ==
    /\ deploy.timeout
    /\ status[i] \in Open
    /\ ~late[i]
    /\ late' = [late EXCEPT ![i] = TRUE]
    /\ UNCHANGED <<journalVars, drive, lock, known, deploy, mishaps, runVars>>

Start(i) == Enqueue(i) /\ UNCHANGED <<drive, lock, envVars, mishaps, runVars>>

Quiescent ==
    /\ \A i \in Instances : status[i] \in Terminal
    /\ \A c \in Coordinators : Driving(c) = {}
    /\ UNCHANGED vars

\* A step of a drive that goes ahead.
DriveStep(c, i) ==
    \/ acquireLead(c, i) \/ driveOne(c, i) \/ markTerminal(c, i)
    \/ Execute(c, i) \/ RunSucceeds(c, i) \/ RunFails(c, i) \/ RunExpires(c, i) \/ LeaseLost(c, i)
    \/ commitStepCompleted(c, i) \/ commitStepFailed(c, i) \/ appendCompensationStarted(c, i)
    \/ runCompensation(c, i) \/ compensateOneStep(c, i) \/ RecordOutcome(c, i) \/ FinishWalk(c, i)

DriveMishap(c, i) ==
    \/ HeartbeatError(c, i) \/ WalkHeartbeatError(c, i) \/ Canceled(c, i)
    \/ DriveError(c, i) \/ RecordError(c, i)

Next ==
    \/ \E c \in Coordinators : tickOnce(c) \/ Crash(c)
    \/ \E c \in Coordinators, i \in Instances : DriveStep(c, i) \/ DriveMishap(c, i)
    \/ \E i \in Instances : Start(i) \/ Stall(i) \/ LeaseExpires(i) \/ LockExpires(i)
                          \/ LockLost(i) \/ Overdue(i)
    \/ Quiescent

Spec == Init /\ [][Next]_vars

\* The tick loop keeps ticking, a drive keeps going (a Run that ignores its
\* context is outside the contract of StepFunc), and what expires expires.
Fairness ==
    /\ \A c \in Coordinators : WF_vars(tickOnce(c))
    /\ \A c \in Coordinators, i \in Instances : WF_vars(DriveStep(c, i))
    /\ \A i \in Instances : WF_vars(LeaseExpires(i)) /\ WF_vars(LockExpires(i))

FairSpec == Spec /\ Fairness

----------------------------------------------------------------------------
(* Properties.                                                             *)

Forward == {"StepCompleted", "StepFailed"}
Backward == {"StepCompensated", "StepCompensationFailed"}

\* However claims, stalls and restarts interleave, the log of an instance reads
\* as one run of the saga: the steps complete in order and once each, nothing
\* goes forward after a failure or a rollback, a step is given one compensation
\* outcome and only if it was committed, and a terminal event is the last.
LogIsOneRun ==
    \A i \in Instances :
        LET l == log[i] IN
        /\ \A n \in DOMAIN l : l[n].kind = "StepCompleted" => l[n].step = n
        /\ \A m, n \in DOMAIN l : m < n =>
            /\ l[m].kind \notin Terminal
            /\ l[n].kind \in Forward => l[m].kind = "StepCompleted"
            /\ l[m].kind \in Backward /\ l[n].kind \in Backward => l[m].step # l[n].step
            /\ l[n].kind = "CompensationStarted" => l[m].kind = "StepCompleted"
        /\ \A n \in DOMAIN l : l[n].kind \in Backward =>
            l[n].step \in Compensable \cap StepsOf(l, "StepCompleted")

\* The status a log alone replays to.
Folded(l) ==
    CASE l = <<>>                                -> "pending"
      [] l # <<>> /\ l[Len(l)].kind \in Terminal -> l[Len(l)].kind
      [] OTHER -> IF "CompensationStarted" \in KindsOf(l) THEN "compensating" ELSE "running"

\* "The log alone replays the final state" (journal/event.go): the projected status
\* that ClaimPending and the transition gate read is the fold of the log, whatever
\* Append, MarkTerminal and half-committed transactions came before.
StatusIsFold == \A i \in Instances : status[i] # "absent" => status[i] = Folded(log[i])

\* A saga reported as compensated has undone every committed step that can be
\* undone, whichever coordinators walked which part of the rollback.
RollbackComplete ==
    \A i \in Instances : status[i] = "compensated" =>
        StepsOf(log[i], "StepCompleted") \cap Compensable \subseteq undone[i]

\* No step is undone unless a rollback was declared on the log first; a saga that
\* succeeded has all its steps committed and none undone.
NothingUndoneInSecret ==
    \A i \in Instances :
        /\ \A s \in Steps : undos[i][s] > 0 => "CompensationStarted" \in KindsOf(log[i])
        /\ status[i] = "succeeded" => /\ StepsOf(log[i], "StepCompleted") = Steps
                                     /\ \A s \in Steps : undos[i][s] = 0

\* Running -> Failed: "failed before any step committed (nothing to undo)"; that
\* is, while its definition stays registered, no committed step of a failed saga
\* has a Compensate function to call.
FailedHasNothingToUndo ==
    \A i \in Instances :
        status[i] = "failed" /\ ~deploy.removable => StepsOf(log[i], "StepCompleted") = {} \/ Compensable = {}

\* Run and Compensate are at-least-once, and each extra round is owed to a mishap:
\* while nothing goes wrong a step is tried MaxAttempts times and undone once.
InvocationsBounded ==
    \A i \in Instances, s \in Steps :
        /\ ran[i][s] <= MaxAttempts * (1 + mishaps[i])
        /\ undos[i][s] <= 1 + mishaps[i]

Promise == INSTANCE SagaPromise WITH
            phase <- status,
            done <- [i \in Instances |-> cursor(log[i])]

\* Every step of the coordinators and the journal is a step that SagaPromise, the
\* promise made to the one who enrolls a saga, allows.
KeepsPromise == Promise!Spec

\* Every enrolled saga whose definition stays registered comes to an end.
EventuallyTerminal ==
    \A i \in Instances :
        (status[i] # "absent" /\ ~deploy.removable) ~> (status[i] \in Terminal)

\* "Returns ok=false when the DefinitionID isn't registered (Coordinator treats
\* this as terminal-Failed)" (kernel/saga/definition.go): a saga whose definition
\* no coordinator knows any more is ended.
MissingDefinitionFails ==
    \A i \in Instances :
        (status[i] \in Open /\ \A c \in Coordinators : ~known[c]) ~> (status[i] \in Terminal)
=============================================================================
