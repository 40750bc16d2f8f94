# GoCell: TLA+ verification project

GoCell is a Go framework for services built from *cells*: units that own their
data, talk to each other by contracts and events, and promise a consistency
level. This directory models the parts of the framework whose correctness depends
on the order in which processes, goroutines, databases and brokers take their
steps. TLC checks the models on small instances; TLAPS proves their safety for every
instance.

Paths are relative to the repository root (`src/` in `PROJECT.json`).

## The system

| Part | Code | State | Operations |
|---|---|---|---|
| Outbox store | `adapters/postgres/outbox_store.go`, `outbox_writer.go` | rows: status, attempts, lease, deadlines | Write, ClaimPending, MarkPublished, MarkRetry, MarkDead, ReclaimStale, Cleanup* |
| Outbox relay | `framework/runtime/outbox/relay.go` | the claimed batch and its results | pollOnce, reclaimStale, cleanup |
| Idempotency claimer | `framework/kernel/idempotency`, `adapters/redis/idempotency.go` | a key: free, leased under a token, done | Claim, Commit, Release, Extend |
| Event consumer | `framework/kernel/outbox/consumer_base.go`, `adapters/rabbitmq/subscriber.go` | delivery, claim, retries, settlement, delay tiers | Wrap, retryLoop, leaseRenewalLoop, dispatchDisposition, dispatchDelayedRequeue |
| Saga journal | `framework/kernel/saga/journal`, `adapters/postgres/saga` | event log, status, lease | Enqueue, ClaimPending, Append, Load, Heartbeat, MarkTerminal |
| Saga coordinator, executor | `framework/runtime/saga` | drives in flight | tickOnce, driveOne, Execute, routeOutcome, runCompensation |
| Distributed lock | `framework/runtime/distlock`, `adapters/redis/distlock.go` | held locks, manager goroutine, renewal heap | Acquire, renew, Release, Orphan |
| Relay and coordinator lifecycle | `relay.go`, `coordinator.go` | atomic state, cancel, done, readyCh | Start, Stop, Ready |
| Projection coordinator | `framework/kernel/projection` | gate, phase, checkpoint | live handler, rebuild, Close |
| Saga journal tailer | `framework/runtime/saga/tailer` | poll, owner token, checkpoint | pollOnce, drain, poison skip |
| Leader election | `adapters/redis`, `adapters/postgres` `reconcile_leader.go` | holder, epoch | acquire, renew, release, fenced write |
| Reconcile loop | `framework/kernel/reconcile/loop.go` | term, work queue, delaying queue | runLeaseTerm, process, dispatch, waitingLoop |
| Device command queue | `framework/kernel/command`, `adapters/postgres/command_queue_store.go` | command status, deadlines, row locks | Enqueue, Dequeue, Report, Ack, Cancel, sweep |

A producer writes its data and an outbox row in one transaction. Relays move
committed rows to the broker, at least once. Consumers make the delivery
effectively once with the claimer. Sagas are driven by coordinators over the
journal; the distributed lock is an optimisation in front of the journal's
lease, which is the real fence. Read models are fed by the event bus (through the
projection coordinator) or from the saga journal (by the tailer). Reconcile loops
run under a leader lease whose epoch fences their writes; one of them sweeps the
device command queue. The relay, the coordinator, the tailer and the reconcile loop
share one lifecycle design.

What makes it hard:

- every lease (outbox row, claimer key, saga instance, distlock, leader) can expire
  under a holder that does not know it;
- work happens outside transactions, between a claim and a write-back, and a
  process can die at any point in between;
- the broker, Redis and PostgreSQL can report an error for an operation that took
  effect;
- messages are duplicated by relays, redelivered by the broker and copied into delay
  tiers;
- goroutines hand work to each other through several channels whose order is not
  defined;
- Start, Stop and cancellation race over a few shared fields.

`PROJECT.json` lists these hazards at the lines where they bite, with the properties
that cover them.

## The modules

| Module | Models |
|---|---|
| `OutboxStore` | the `outbox_entries` table; one operator for each Store method |
| `OutboxRelay` | several relays over one table: poll, reclaim and cleanup loops, crashes |
| `OutboxPromise` | abstract: what the outbox promises a producer |
| `Claimer` | the two-phase idempotency keys, Redis and in memory |
| `Consumer` | the broker's queue and delay tiers, the delivery goroutines, `ConsumerBase`, settlement; composed with `Claimer` |
| `SagaJournal` | the event log, the status projection, the lease |
| `Saga` | coordinators, the leader gate, the executor, rollback and recovery; composed with `SagaJournal` |
| `SagaPromise` | abstract: what the engine promises to the one who enrolls a saga |
| `DistLock` | callers, the manager goroutine, the renewal and release goroutines, Redis |
| `Lifecycle` | Start, Stop and Ready at the grain of mutex, atomic and channels |
| `ReadModelStore` | a journal, a checkpoint row with its owner column, a read model |
| `Projection` | the live handler behind its gate and the rebuild, over `ReadModelStore` |
| `Tailer` | the processes that drain the saga journal, over `ReadModelStore` |
| `ReadModels` | the composition: a read model with either driver |
| `LeaderElection` | lease, epochs and fenced writes; also the abstract specification of `ReconcileLoop` |
| `ReconcileLoop` | terms, source, workers, delaying queue; composed with `LeaderElection` |
| `CommandQueue` | the device command table, its transactions step by step, the sweeper |
| `MC*` | deployments and constants for TLC |
| `*Proofs` | the theorems about a module and their proofs; `ReconcileLoopProofs` has those about `LeaderElection` too |

A model that has several configurations chooses one in Init and never changes it
(`deploy`, `plan`, `place`, `driver`), so that one run covers them all.

Definitions commented "Mutant of ..." are wrong on purpose: each stands for a
plausible mistake in the definition that follows it and shows that a property
notices it. No specification uses them.

### Outbox

Each Store method is one short transaction, hence one atomic operator. A row is
kept column by column. Time is one flag per row, `elapsed`: the deadline that
matters to the row in its status has passed (`next_retry_at`, the claim TTL or the
retention). `TimePasses` may set it at any moment, so a relay can always have
been too slow. `ClaimPending` takes any batch of eligible rows, as SKIP LOCKED
does, and mints a lease; `Fenced` is the compare-and-swap of every Mark statement.

A relay keeps a batch, the lease, the attempt counts it read and the results.
`Publish` succeeds only if the broker took the message and may fail although it
did. `WriteBack` is `writeBackOne` with `handleFailedEntry`; a store error or a
crash drops the rest of the batch, which stays claiming until `Reclaim`. The
history variable `verdict` outlives the row that cleanup deletes.

### Claimer and consumer

A token is known only to the receipt that was given it, so a lease is named after
the goroutine that holds the receipt; `Nobody` is the owner of a lease whose token
was lost. `Lazy` selects the in-memory claimer, which keeps an expired entry
until the next Claim, and lets a receipt still use it.

A delivery goes through claim, handler, commit, delay, broker and release, in the
order of `dispatchAck` and `dispatchDisposition`: commit before Ack, Nack before
release, but release before Nack when the commit failed. Claim, Commit and Release
may fail with or without effect; leases lapse; connections drop; the context is
canceled; the process dies. These are counted per event (`faults`) or in all
(`drops`) and bounded by the `maxFaults` of the deployment and `MaxDrops`.

Where the broker owns the retries (`Tiers` > 0), the handler runs once per delivery
and a requeue goes through `dispatchDelayedRequeue`: the message is published to the
tier of its next attempt, and acknowledged once that copy is confirmed; after the
last tier it is rejected (`exhaustDelayBudget`); when the copy is not confirmed, it is
sent to the dead letters although it had an attempt left, and the copy may exist all
the same (`failClosedDelayPublish`, the state "stranded"). A copy is a further
message of the same event that the broker delivers when its delay expires.

### Saga

A lease is named after its coordinator. A drive (a goroutine of `tickOnce`) works
from the status at its claim and the log at its Load, `History`. The executor is
`Execute`, `RunSucceeds`, `RunFails`, `RunExpires`, `LeaseLost` and `Canceled`;
the routing of outcomes is `commitStepCompleted`, `commitStepFailed` and
`appendCompensationStarted`; the rollback is `runCompensation`,
`compensateOneStep`, `RecordOutcome` and `FinishWalk`. What a rollback has still to
undo is the set `todo` of the positions of committed steps; the reverse walk takes the
last of them. `AppendAndMark` is one
transaction in which the lease may expire between the two calls: the event is
then committed without the terminal status. Stalls, crashes, cancellations and
errors are mishaps, at most `MaxMishaps` for an instance. The lock of the leader
gate is external here: acquired, released, orphaned, expired, lost.

### Distributed lock

A member of `Locks` is one call of Acquire and stands for its token. The caller's
side is `call`; the manager goroutine of a process is `mgr` with its channel
`events`, its map `locks`, its heap `due` and its count `pending`. The two critical
sections of `decPendingAndMaybeDrain` are two steps. A renewal and a release are
goroutines of their own that may be overtaken. A release after the loss of the lock
through renewal errors returns nil without a call to the driver, as in the code: the
key is left to its TTL.

### Lifecycle

Start and Stop are cut where the code takes or leaves the mutex or touches an
atomic or a channel. Runs are numbered, and the fields cancel, done and readyCh
hold run numbers.

### Read models

`ReadModelStore` counts how often the read model reflects each position. A driver
reads the checkpoint in one step and commits the application with the new checkpoint
in a later one. The bus of `Projection` delivers in order, retries, drops on a full
buffer and dead-letters; the rebuild shuts the gate, resets, replays up to
a head, catches up and hands over, and may fail or be canceled at each point. The reset
is two steps, the deletion of `OnReset` and the commit of its transaction: an entry that
a handler past the gate commits in between outlives the reset (`kept`).
`clean` records whether anything has happened since the last reset that may leave a
hole: a lost or dead-lettered event, an abandoned rebuild, a reset that met a handler
past the gate.

The tailer's lock may lapse at any moment (`DistLock` shows how), so any number of
tailers may drain at once. `applyEvent` is the call of Apply, `commitEvent` and
`skipPoisonEvent` are the ends of the transactions: `ran` counts the calls, `applied` and
`dead` what is committed. The two differ on purpose. `tailer.go:78` to `:87`,
`TestTailer_LeaderHandoffBoundedDuplicateApply` (`tailer_test.go:989`) and
`docs/ops/saga-runbook.md:213` speak of bounded duplicate apply in a handover and call
delivery at-least-once; that is what `ran` shows, and `DuplicateApplyBounded` is the
bound. `tailer.go:82` adds that a deposed leader that is ahead can re-claim. It can, but
then it is at the checkpoint and commits the next entry, so that no repeated call
commits: that is `CommittedOnce`. It holds of an Apply that writes in the
transaction it is given, with a `TxRunner` that rolls back; an Apply with effects of any
other kind, or a `TxRunner` that does not roll back, sees the repetitions, and the
requirement that Apply be idempotent stands.

Out-of-order publication is excluded: `kernel/projection/doc.go` states ordering as a
precondition, and the saga journal appends under an advisory lock.

### Leader election and reconcile loop

Both stores keep a holder and an epoch that outlives it. `AcquireLease` and the renewal
may succeed with their answer lost. `Write` is the fenced write of a reconciler with
the epoch of its term. `ReconcileLoop` adds what happens inside a term: the feeder
moves requests from `source` to `queue`; a worker takes an entity, coalesces a request
for one that is being processed (`dirty`), runs it and dispatches the outcome to
`addCh` or `cancelCh`; `waitingLoop` receives from the two channels in any order and
pushes what is due. `owed` records the entities that must run again. Late answers to
a release are covered by `Expire`, a late trigger by a request left in `source`.

### Device command queue

Enqueue is three steps (advisory lock and insert, count, commit), Ack and Cancel two
(SELECT FOR UPDATE, write), Dequeue and Report one statement each; row locks, the
unique index on active keys and rollbacks are modelled. The sweeper works from a
snapshot that may be stale when it acts. A clock of `MaxTime` ticks makes deadlines
comparable.

## What the runs check

| Run | Instance | Shows |
|---|---|---|
| `outbox_relay` | 2 entries (1 unencodable), 2 relays, 2 attempts | the lease fence keeps attempt counts current, a claim costs an attempt, deliveries stay in budget, verdicts are true, the promise is kept, every committed entry is settled |
| `consumer` | 2 goroutines, 2 messages of one event; 4 deployments: Redis fail-closed, in memory fail-open, with a malformed message, with a delay tier | an acknowledged event was handled or copied; each repeated success is owed to a fault; only hopeless messages are dead-lettered; a done mark is earned; every message is settled |
| `saga` | 1 saga of 3 steps (1 without Compensate), 2 coordinators, 2 mishaps; with the leader gate, and without it with step timeouts and dropped definitions | the log reads as one run, the status is its fold, rollbacks are complete and declared, invocations are bounded, the promise is kept, every saga ends |
| `saga_missing_definition` | 1 saga of 2 steps | a divergence, see below |
| `distlock` | 2 acquisitions: of one key or two in a process, or of one key in two processes | the manager leaves nothing unrenewed behind, a disposed lock is renewed at most once more, a release frees nobody else's key, a holder whose key is gone is told |
| `distlock_drain` | the same | a divergence, see below |
| `lifecycle` | 2 callers of Start, 2 of Stop, 3 runs | one run at a time, no double close, a taken run is canceled, a Stop that saw its run ready returns |
| `lifecycle_restart` | 1 and 1 | a divergence, see below |
| `read_models` | a journal of 3 entries (1 foreign), 2 tailers or one coordinator, 2 faults, 2 mishaps | no hole below the checkpoint of a clean projection, the tailers commit every entry once and call Apply for it at most once more for each mishap, a parked delivery resumes, every entry is projected |
| `reconcile` | 2 replicas of 1 worker with 1 entity; 1 replica of 2 workers with 2 entities, or with periodic requeue | an entity runs once at a time, a handover raises the epoch of accepted writes, what is owed runs |
| `reconcile_dropped` | 1 replica of 2 workers, 1 entity, permanent outcomes | a divergence, see below |
| `command_queue` | 2 commands, 2 handlers, a sweeper; 3 plans of devices, keys, quotas and deadlines | quota and key uniqueness, one outcome, an overdue command ends |

Deadlock is checked in the outbox, consumer, saga and lifecycle runs; there a disjunct
(`Drained`, `Quiescent`) lets a system that has nothing left to do stutter. The
other systems really stop once their bounded inputs are used up, so their runs do not
check it; what must go on is stated as liveness instead.

### Bounds

Two actors are what every interleaving hazard above takes: one that lost its lease
and one that took it. Two entries let a batch be written back in part, and an
unencodable one exercises the permanent failure. A budget of two attempts has a
first and a last one. Two messages of one event are a duplicate, and two
faults (with the Redis claimer; one in the other deployments) a fault in the recovery
from a fault; the delay deployment
starts with one message and has two spare ones, so that an attempt through the tier
and an unconfirmed copy both occur. Three saga steps with one that cannot be undone
have a first, a middle and a last step in the reverse walk, and two mishaps allow a
crash during the recovery from a crash. Three runs let a Stop of one run meet the Start
of the next but one. Three journal positions let a rebuild replay, catch up and hand
over with something left to do. An epoch bound of three allows a replica to lose the
lease and regain it. Two commands are enough for every conflict over quota, key and
row. `MaxFaults`, `MaxDrops`, `MaxMishaps`, `MaxRuns`, `MaxTriggers`, `MaxEpoch`,
`MaxTime` and `MaxJournal` are named in the guards of the actions they limit. No
symmetry is used, since most runs check liveness too.

### Fairness

- `outbox_relay`: a relay keeps polling and finishes the batches it does not
  abandon (`pollLoop`), some reclaim loop runs (`reclaimLoop`), the clock advances.
  Crashes and broker refusals stay possible for ever.
- `consumer`: goroutines run, a lease whose token nobody has expires, the broker
  returns what is in a delay tier. A lease under a holder need not lapse.
- `saga`: the tick loop ticks, a drive takes its next step (a Run that ignores
  its context is outside the contract of `StepFunc`), leases and locks that nobody
  renews expire.
- `distlock`: the manager handles its events and renewals, the goroutines of a
  renewal or a release finish, an Acquire that has its key registers it. Nobody has
  to release.
- `lifecycle`: a goroutine inside a call takes its next step; nobody has to call.
- `read_models`: the bus delivers, the rebuild goroutine goes on, a tailer that polls
  drains, the lock of a dead one expires. Strong fairness of `Poll`: every tailer
  polls on a ticker, so one that finds the lock free again and again gets it.
- `reconcile`: a lost lease ends its term, `waitingLoop` and the workers run.
- `command_queue`: an open transaction ends and the sweeper ticks. Strong fairness of
  `SweepAck`: PostgreSQL queues the waiters of a row lock, so a sweeper whose command
  is locked again and again gets its turn.

Everything else is weak fairness.

## Divergences found

1. `lifecycle_restart`. Stop reads the state, waits for ready, and then stores
   `stopping` unconditionally (`relay.go:378`, `coordinator.go:441`). If the run ended
   through its own context in the meantime, the state stays `stopping` and every later
   Start is refused, where `TestRelay_CanRestartAfterStop` wants a restart.
2. `saga_missing_definition`. An instance whose definition is gone while it is
   Compensating cannot be marked Failed (the transition table forbids it), so it is
   claimed and refused for ever, where `definition.go:248` says terminal-Failed.
3. `distlock_drain`. An Acquire between the two critical sections of
   `decPendingAndMaybeDrain` (`manager.go:360`) hands its lock to a manager that is
   leaving. Nobody renews it, and its Release waits until a later Acquire starts
   another manager, where `lock.go:150` promises a bounded wait.
4. `reconcile_dropped`. The cancellation that follows a permanent outcome travels in
   another channel than the requeue of the entity's next run (`loop.go:1063`); received
   in the other order, it removes that requeue, where `reconciler.go:12` promises a
   retry.

Seen while modelling and not checked by a run of their own:

- `idempotency.go:138` describes broker Ack, then Commit; `subscriber.go` commits first,
  which is the safer order (a refused commit can still become a requeue).
- A context canceled during a delayed requeue makes `confirmPublishToDelay` fail, and
  the message goes to the dead letters with attempts left, possibly with a copy in
  the tier. `subscription.go` says that it is dead-lettered "once the attempt count
  exceeds len(delays)". A busy claim uses up a delay attempt like a failed handler.
- Compensate is at least once: a crash after it returned makes recovery call it
  again, where `coordinator.go:986` and `:1104` say that it does not.
  `InvocationsBounded` is the bound that holds.
- A step timeout closes the saga as Expired (`RunExpires`), where
  `framework/runtime/saga/doc.go:88` speaks of the overall timeout only.
- A handler that was admitted before the gate shut may still commit during the reset or
  after it, with the checkpoint it read before, while the comment at `rebuild.go:223` calls the
  rebuild the sole applier. `NoHole` says nothing of such a reset. The proof of `NoHole`
  met a finer case, which `clean` now names: an event that is lost between the first
  head of a rebuild and its reset stays missing if the rebuild gets no second head (it
  is degraded then, not failed).
- `checkExpiry` compares the ScheduleToSend deadline whatever the status
  (`sweeper.go:68`), so a command that was sent in time expires by it while it is Sent or
  Delivered, where `entry.go:16` and `doc.go:30` say "max duration from creation (Pending)
  to Sent". The model does as the code does: with a schedule deadline of 1, a command is
  sent at 1 and expired at 2. No property says when a command may expire for that reason;
  the theorem `QueueExpiresNothingEarly` is only about the deadlines as the code compares
  them.
- The lease of a Sent or Delivered command is never recovered, which a comment in
  migration 030 leaves to the sweeper.
- A waiting item of the reconcile loop can fire between a permanent outcome and its
  cancellation, so a dead-lettered entity may run once more. The feeder loses at most
  one request when a term ends.

## What is proved

Every theorem holds for all values of the constants that satisfy the named
assumptions: nonempty bounds, finite sets where something is counted, distinct special
values. The bounds on faults and time are constants too, so the theorems hold for any
number of faults.

| Module | Theorem | Statement |
|---|---|---|
| `OutboxRelayProofs` | `TypeCorrect`, `Invariance` | `[]TypeOK`, `[]Inv` |
| | `Fencing` | `[]SnapshotCurrent` |
| | `Budgets` | `[](AttemptBudget /\ DeliveryBudget)` |
| | `PublishedIsTrue`, `DeadIsTrue` | `[]PublishedWasSent`, `[]DeadWasHopeless` |
| | `ClaimsArePaid`, `TerminalStays` | `ClaimCostsAttempt`, `TerminalIsFinal` |
| | `Refinement` | `KeepsPromise` (implements `OutboxPromise`) |
| `ConsumerProofs` | `ConsumerInvariant` | `[]IInv` |
| | `NothingLost` | `[]AckedWasHandled` |
| | `DeadLettersEarned` | `[]DeadLetterEarned` |
| | `SuccessesBounded` | `[]EffectsBounded` |
| | `DoneUnderLease` | `DoneIsEarned` |
| `SagaProofs` | `SagaInvariant` | `[]SagaInv` |
| | `LogsAreOneRun`, `StatusReplays` | `[]LogIsOneRun`, `[]StatusIsFold` |
| | `RollbacksAreComplete`, `RollbacksAreDeclared` | `[]RollbackComplete`, `[]NothingUndoneInSecret` |
| | `FailuresLeaveNothing` | `[]FailedHasNothingToUndo` |
| | `InvocationsAreBounded` | `[]InvocationsBounded` |
| | `SagasKeepPromise` | `KeepsPromise` (implements `SagaPromise`) |
| `DistLockProofs` | `DistLockInvariant` | `[]IInv` |
| | `LeavingLosesNothing`, `LateRenewalIsOne` | `[]ManagerLeavesNothing`, `[]OneLateRenewal` |
| | `FreedByItsHolder` | `OnlyHolderFrees` |
| `LifecycleProofs` | `LifecycleInvariant` | `[]IInv` |
| | `OneRunAtATime`, `ReadyNeverPanics`, `CancelIsNeverDropped` | `[]OneRun`, `[]ReadyClosedOnce`, `[]TakenRunIsCanceled` |
| `ReadModelsProofs` | `ReadModelsInvariant` | `[]ReadModelsInv` |
| | `ProjectionHasNoHole` | `[]NoHole` |
| | `TailerCommitsOnce`, `TailerDuplicatesBounded` | `[]CommittedOnce`, `[]DuplicateApplyBounded` |
| | `TailerInOrder` | the checkpoint of the tailers moves by one |
| `ReconcileLoopProofs` | `ElectionInvariant`, `ElectionRaisesEpoch` | `[]ElectionInv`, `HandoverRaisesEpoch` of `ElectionSpec` |
| | `LoopInvariant`, `LoopRunsEntityOnce` | `[]LoopInv`, `[]OneRunPerEntity` |
| | `LoopImplementsElection`, `LoopRaisesEpoch` | `ElectionSpec`, hence `HandoverRaisesEpoch` |
| `CommandQueueProofs` | `QueueInvariant` | `[]IInv` |
| | `QueueKeepsQuota`, `QueueKeepsKeysUnique` | `[]PendingCap`, `[]OneActivePerKey` |
| | `QueueHasOneOutcome`, `QueueExpiresNothingEarly` | `[]OneOutcome`, what has expired was past one of the deadlines that `checkExpiry` compares |

**Outbox.** `DeliveryBudget` is not inductive: a relay that has lost its lease
can still publish. What is inductive is an account, `DeliveriesPaid`: the
deliveries of an entry so far, plus the relays that still owe it one, are at most
the claims of the entry so far. A claim is counted by the attempt it has cost, or
is the present one, or is the one that published the row. This needs that a claim
always costs an attempt, although the relay writes the count it read at its claim
and the reclaim sweep counts from the row; that is `SnapshotCurrent`: a relay that
passes the fence has the row's own count. It holds because leases are minted in
order (`LeasesMinted`), so no two claims share one.

**Consumer.** `EffectsBounded` is not inductive either: what matters is who may still
succeed. `Account` says that the successes of an event, plus the goroutines that run
its handler without an unexpired lease (`Loose`), are at most its faults, plus one if
there is a `Rightful` success: the one behind an unexpired done mark, or of a holder
that is about to commit. Each way to become loose (a lapse, a claim or a commit in
doubt, a crash) pays with a fault; a success of the holder uses the one right, which a
claim can only find unused. This rests on `OwnerWorks` (an owner works on its event
and was not told that it lost the lease) and on `WorkerOK` and `BrokerOK`, which say
that what a goroutine believes of its message, and what the broker concluded from it,
is true; the latter two give `AckedWasHandled` and `DeadLetterEarned`, since the
evidence for them only grows (`Grows`).

**Saga.** `SagaInv` has four parts. `LogOK`: the log is one run, its completed steps
are its beginning, and outcomes of a rollback are behind the start of one. `StatusOK`:
the status is what the log replays to, and says what it should of the steps undone.
`DriveOK` holds of a drive whether or not it still has its lease, so it may only speak
of what no other writer can take back: logs grow, steps stay undone. `HolderOK` holds of
the drive that has the lease, and says that nobody has written since its claim; it is
what lets the drive write from the log it loaded. A late writer is stopped by `fenced`,
and `HolderOK` is claimed for nobody when the lease changes hands. The invariants of the
run, and the refinement of `SagaPromise` (a step is done when its event is written), follow
from the four. The log is never folded by recursion: the cursor is a number of
positions, and `LogOK` says which, so that no induction over the log is needed.

`InvocationsBounded` needs another account, `Accounts`, over the calls that can still
come. For a step, the calls so far plus the calls that every drive may still make
(`RunsLeft`, `UndosLeft`) are at most a round for each mishap, and one more round if the
step is engaged: it needs no further call, or the holder of the lease is in its round
(`RunEngaged`, `UndoEngaged`). A call moves from what is left to what was made. A claim
finds the step not engaged, since the holder before it is gone, and brings one whole
round. A drive that breaks off gives its round back whole if it called nothing, and has
a mishap to its account if it did; a drive that has lost its lease keeps what it had
left, for the mishap that cost it the lease paid for that. A write by the holder can
only shorten what the others may still do (`LessOn`). The sizes of the sets involved come
from the library's theorems on finite sets, for which the coordinators must be finitely
many.

**Distributed lock.** `CountIsOwing`: `pending` is the number of locks whose caller has
been counted by add and not yet disposed of, so at zero the map is empty, which is
`ManagerLeavesNothing`. It needs `MapIsOwed`, and the order of the events of one lock in
the channel (`EventsOK`, `InOrder`): a lock is added before it is disposed of, and a
renewal has one result. `WorkerOK` follows a renewal in flight: it is canceled once its
lock is detached, so it sends nothing more after the one that was on its way.

**Lifecycle.** `GuardedByState`: only the state keeps a second Start out, and no Stop
stores "stopped". `ReadyFollowsRuns` ties the ready channel to the run it belongs to,
`CancelIsSomewhere` follows the cancel function of a run from the field to the Stop that
takes it.

**Read models.** The tailers: `FenceInv`, a tailer that drains is never ahead of the
checkpoint, and exactly at it as long as the row has its token. A write that the fence
accepts is therefore the one of the next position. The proof of `CommittedOnce` uses
nothing of the lock; the one of `DuplicateApplyBounded` rests on it. `Runners` of an entry
are those who may still call Apply for it: a tailer that has yet to read the checkpoint or
has it before the entry, and, for whoever gets the lock next, `Nobody`. `Paid`: the calls
so far and the runners are at most one more than the mishaps. A call uses a runner up. A
holder that releases or is fenced passes its right on, and a poll takes it over. A new
runner appears only when a lease is lost under its holder, or a drain fails after its
call, which is a mishap. The tailers must be finitely many, since they are counted.
The coordinator: whatever the bus has delivered beyond the checkpoint is the event at
hand (`LiveOK`), or is covered by what the rebuild has still to replay (`ResetOK`,
`ReplayOK`), and after a clean reset the rebuild is the only one to apply.

**Command queue.** The quota is counted in one step and relied on in another. `Apart`
(two open Enqueues differ in command, key and, under a quota, device; two open Acks in
command) makes `Fresh`, `CountStands` and `ReadStands` stable: what a transaction has
read under its locks is still true when it acts on it. `SweepIsRight` says that what the
sweeper's snapshot calls overdue still is, although no lock protects it: the clock only
goes forward and the times of a stored command stay (`TimesStay`).

**Election and loop.** `EpochIsNewest` and `EpochIsOnes`: the store's epoch is the newest
there is, and no epoch is two replicas', whether they are in a term or have written
under it. The loop implements the election, with the same variables as the mapping;
its own invariant ties each run to the epoch of its term and to `processing`.

Only model-checked: the liveness properties of the runs (the prover has no rules for
fairness and ENABLED). Every safety property of a passing run is a theorem.

## What is not modelled

Payloads, envelopes, row decoding, tenant scope, metrics, tracing and logging.
Delays and backoff are nondeterministic time. Moreover:

- relay: entries dispatched to an in-process command handler (`dispatchCommand`);
- consumer: the sequence of StopIntake and Close (only the canceled context of a
  delivery), topology, reconnection;
- saga: step state and outbox emission;
- projections: cancellation of a parked handler's context;
- reconcile: Start and Stop of the loop (as in `Lifecycle`), the eviction of the Redis
  epoch key, which its documentation names as a residual risk, and what happens when the
  work queue (1024) and the requeue channel (256) are both full: the run that checks
  `OwedRuns` has room in its buffers;
- command queue: ExtendLease and the columns attempt, lease_expiry, delivered_at and
  completed_at, which no other statement reads; ResetForRetry and AdvanceCommand, which
  have no caller in the store.

The event router, circuit breaker, refresh tokens and sessions, audit ledger, HTTP
idempotency, websocket hub, bootstrap, webhooks, adapters and cells have no module;
`PROJECT.json` lists each with the reason. Most of the repository's lines are of this
kind, or tools, generated code and request handlers without concurrent state.

## Plan

1. `CommandRelay`: `dispatchCommand` and its settlement over `OutboxStore` and
   `Claimer`: a command's handler succeeds once unless a lease lapsed or a commit was
   in doubt; a dead-lettered command holds no receipt.
2. `Breaker`, `Refresh`, `AuditLedger`, `HTTPIdempotency`, and `ExponentialDelay`
   with machine integers against its reference definition.
3. Shutdown in `Consumer`; bootstrap phases over `Lifecycle`; a composition of
   `OutboxRelay` and `Consumer`, with the relay's duplicates as the messages of the queue.
4. `Tailer` over `SagaJournal` instead of a journal of its own, so that the order of its
   entries is proved and not assumed.
