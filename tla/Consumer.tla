------------------------------ MODULE Consumer -----------------------------
(***************************************************************************)
(* Event consumption: the broker's queue of one consumer group, the        *)
(* delivery goroutines of adapters/rabbitmq/subscriber.go and, inside      *)
(* them, ConsumerBase.Wrap of kernel/outbox/consumer_base.go, which runs   *)
(* the business handler under an idempotency claim.                        *)
(*                                                                         *)
(* The outbox delivers at least once, so several messages may carry the    *)
(* same event.  A connection may drop while a goroutine works: the broker  *)
(* then redelivers the message, and the goroutine's Ack or Nack fails.  A  *)
(* claimer call may fail, with or without having taken effect.             *)
(*                                                                         *)
(* A subscription with a BrokerDelaySchedule leaves retries to the broker: *)
(* the message to retry is copied to a delay tier and then acknowledged.   *)
(* The copy is a message of its own, from a stock of spare ones.           *)
(***************************************************************************)
EXTENDS Claimer

CONSTANTS
    Messages,         \* messages published to the queue, and spare ones for copies
    EventOf,          \* EventOf[m]: the event (idempotency key) m carries
    RetryCount,       \* ConsumerBaseConfig.RetryCount
    ClaimRetryCount,  \* ConsumerBaseConfig.ClaimRetryCount
    Deployments,      \* the configurations considered
    MaxDrops          \* bound: connection drops and context cancellations

Workers == Claimants

\* SetDefaults replaces a non-positive retry count.
ASSUME ConsumerAssumption ==
    /\ EventOf \in [Messages -> Keys]
    /\ RetryCount \in Nat \ {0} /\ ClaimRetryCount \in Nat \ {0}
    /\ Deployments \subseteq
         [lazy : BOOLEAN,                 \* the claimer is InMemClaimer
          failOpen : BOOLEAN,             \* ClaimPolicy is ClaimPolicyFailOpen
          malformed : SUBSET Messages,    \* what processDelivery cannot decode or validate
          sent : SUBSET Messages,         \* what the relay has published
          tiers : Nat,                    \* len(BrokerDelaySchedule), 0 for none
          maxFaults : Nat]                \* bound: see MaxFaults
    /\ MaxDrops \in Nat

VARIABLES
    queue,    \* queue[m]: where the broker has m
    attempt,  \* attempt[m]: its x-webhook-attempt, believed only after a delay tier
    carrier,  \* carrier[m]: the goroutine whose delivery tag of m is still valid
    pc,       \* pc[w]: what the goroutine is about to do
    job,      \* job[w]: the message it works on, Nobody for none
    tries,    \* tries[w]: attempts made in the present retry loop
    receipt,  \* receipt[w]: it holds a Settlement (a live receipt)
    ctx,      \* ctx[w]: its context: live, canceled, or canceled by leaseLost
    result,   \* result[w]: Disposition of the DeliveryOutcome
    acks,     \* history: acks[k] handler runs of event k that returned Ack
    fails,    \* history: fails[k] handler runs of event k that returned a transient error
    refused,  \* history: events some handler run has rejected
    faults,   \* history: faults[k] claimer errors, lapses and crashes that hit event k
    drops     \* connection drops and cancellations so far

FailOpen == deploy.failOpen
Malformed == deploy.malformed
Tiers == deploy.tiers

\* Bound: claimer errors, lapses under a live holder and crashes for each event.
MaxFaults == deploy.maxFaults

brokerVars == <<queue, attempt, carrier>>
history == <<acks, fails, refused, faults, drops>>
vars == <<claimerVars, brokerVars, pc, job, tries, receipt, ctx, result, history>>

Init ==
    /\ ClaimerInit
    /\ deploy \in Deployments
    /\ queue = [m \in Messages |-> IF m \in deploy.sent THEN "ready" ELSE "absent"]
    /\ attempt = [m \in Messages |-> 1]
    /\ carrier = [m \in Messages |-> Nobody]
    /\ pc = [w \in Workers |-> "idle"]
    /\ job = [w \in Workers |-> Nobody]
    /\ tries = [w \in Workers |-> 0]
    /\ receipt = [w \in Workers |-> FALSE]
    /\ ctx = [w \in Workers |-> "live"]
    /\ result = [w \in Workers |-> "none"]
    /\ acks = [k \in Keys |-> 0] /\ fails = [k \in Keys |-> 0]
    /\ refused = {}
    /\ faults = [k \in Keys |-> 0] /\ drops = 0

----------------------------------------------------------------------------
Event(w) == EventOf[job[w]]

Goto(w, label) == pc' = [pc EXCEPT ![w] = label]

\* The goroutine is done with the delivery; everything it knew was local to it.
Idle(w) ==
    /\ Goto(w, "idle")
    /\ job' = [job EXCEPT ![w] = Nobody]
    /\ tries' = [tries EXCEPT ![w] = 0]
    /\ receipt' = [receipt EXCEPT ![w] = FALSE]
    /\ ctx' = [ctx EXCEPT ![w] = "live"]
    /\ result' = [result EXCEPT ![w] = "none"]

\* Wrap returns and dispatchDisposition takes over: an Ack with a Settlement is
\* committed before the broker is told, a requeue goes to the delay tiers if any.
Return(w, r) ==
    /\ result' = [result EXCEPT ![w] = r]
    /\ tries' = [tries EXCEPT ![w] = 0]
    /\ Goto(w, CASE r = "ack" /\ receipt[w] -> "commit"
                 [] r = "requeue" /\ Tiers > 0 -> "delay"
                 [] OTHER -> "broker")

Fault(k) ==
    /\ faults[k] < MaxFaults
    /\ faults' = [faults EXCEPT ![k] = @ + 1]

\* consumeLoop hands a delivery to a goroutine of its own; processDelivery gives
\* a malformed one to the DLX without claiming it.
Deliver(w, m) ==
    /\ pc[w] = "idle"
    /\ queue[m] = "ready"
    /\ queue' = [queue EXCEPT ![m] = "unacked"]
    /\ carrier' = [carrier EXCEPT ![m] = w]
    /\ job' = [job EXCEPT ![w] = m]
    /\ \/ /\ m \notin Malformed
          /\ Goto(w, "claim")
          /\ UNCHANGED result
       \/ /\ m \in Malformed
          /\ Goto(w, "broker")
          /\ result' = [result EXCEPT ![w] = "reject"]
    /\ UNCHANGED <<claimerVars, attempt, tries, receipt, ctx, history>>

\* handleClaimState on the three answers of the claimer.
Claim(w) ==
    /\ pc[w] = "claim"
    /\ \/ /\ ClaimDone(Event(w))
          /\ Return(w, "ack")
          /\ UNCHANGED <<claimerVars, receipt>>
       \/ /\ ClaimBusy(Event(w))
          /\ Return(w, "requeue")
          /\ UNCHANGED <<claimerVars, receipt>>
       \/ /\ Acquire(Event(w), w)
          /\ receipt' = [receipt EXCEPT ![w] = TRUE]
          /\ tries' = [tries EXCEPT ![w] = 0]
          /\ Goto(w, "handle")
          /\ UNCHANGED result
    /\ UNCHANGED <<brokerVars, job, ctx, history>>

\* Claim fails.  On Redis the lease may have been taken all the same, under a
\* token nobody has.  Fail-open runs the handler without a receipt; fail-closed
\* is claimWithRetry.
ClaimError(w) ==
    /\ pc[w] = "claim"
    /\ Fault(Event(w))
    /\ \/ UNCHANGED claimerVars
       \/ ~Lazy /\ Acquire(Event(w), Nobody)
    /\ \/ /\ FailOpen
          /\ Goto(w, "handle")
          /\ UNCHANGED <<tries, result>>
       \/ /\ ~FailOpen
          /\ tries[w] + 1 < ClaimRetryCount
          /\ ctx[w] = "live"
          /\ tries' = [tries EXCEPT ![w] = @ + 1]
          /\ UNCHANGED <<pc, result>>
       \/ /\ ~FailOpen
          /\ tries[w] + 1 >= ClaimRetryCount \/ ctx[w] # "live"
          /\ Return(w, "requeue")
    /\ UNCHANGED <<brokerVars, job, receipt, ctx, acks, fails, refused, drops>>

\* The context is canceled during a backoff of claimWithRetry or of retryLoop.
BackoffAborted(w) ==
    /\ pc[w] \in {"claim", "handle"}
    /\ tries[w] > 0
    /\ ctx[w] # "live"
    /\ Return(w, "requeue")
    /\ UNCHANGED <<claimerVars, brokerVars, job, receipt, ctx, history>>

\* One run of the handler inside retryLoop, with the hard fence of runWithRenewal
\* on an Ack that comes after the lease was lost.
HandlerAcks(w) ==
    /\ pc[w] = "handle"
    /\ Return(w, IF ctx[w] = "leaseLost" THEN "requeue" ELSE "ack")
    /\ acks' = [acks EXCEPT ![Event(w)] = @ + 1]
    /\ UNCHANGED <<claimerVars, brokerVars, job, receipt, ctx, fails, refused, faults, drops>>

HandlerRejects(w) ==
    /\ pc[w] = "handle"
    /\ Return(w, "reject")
    /\ refused' = refused \cup {Event(w)}
    /\ UNCHANGED <<claimerVars, brokerVars, job, receipt, ctx, acks, fails, faults, drops>>

\* Mutant of HandlerFails: a run cut short by cancellation counts as exhausted.
HandlerFailsHard(w) ==
    /\ pc[w] = "handle"
    /\ \/ /\ tries[w] + 1 < RetryCount
          /\ ctx[w] = "live"
          /\ tries' = [tries EXCEPT ![w] = @ + 1]
          /\ UNCHANGED <<pc, result>>
       \/ /\ tries[w] + 1 = RetryCount \/ ctx[w] # "live"
          /\ Return(w, "reject")
    /\ fails' = [fails EXCEPT ![Event(w)] = @ + 1]
    /\ UNCHANGED <<claimerVars, brokerVars, job, receipt, ctx, acks, refused, faults, drops>>

\* With delay tiers the handler runs once and the broker owns the retries.
HandlerFails(w) ==
    /\ pc[w] = "handle"
    /\ \/ /\ Tiers = 0
          /\ tries[w] + 1 < RetryCount
          /\ ctx[w] = "live"
          /\ tries' = [tries EXCEPT ![w] = @ + 1]
          /\ UNCHANGED <<pc, result>>
       \/ /\ Tiers > 0 \/ ctx[w] # "live"
          /\ Return(w, "requeue")
       \/ /\ Tiers = 0
          /\ tries[w] + 1 = RetryCount
          /\ ctx[w] = "live"
          /\ Return(w, "reject")
    /\ fails' = [fails EXCEPT ![Event(w)] = @ + 1]
    /\ UNCHANGED <<claimerVars, brokerVars, job, receipt, ctx, acks, refused, faults, drops>>

\* A tick of leaseRenewalLoop.
Renew(w) ==
    /\ pc[w] = "handle"
    /\ receipt[w]
    /\ ctx[w] # "leaseLost"
    /\ Extend(Event(w), w)
    /\ ctx' = [ctx EXCEPT ![w] = IF Holds(Event(w), w) THEN @ ELSE "leaseLost"]
    /\ UNCHANGED <<brokerVars, pc, job, tries, receipt, result, history>>

\* dispatchAck: Settlement.Commit.  A stale receipt, or (on Redis) an error with
\* or without effect, turns the Ack into a requeue that skips the delay tiers.
CommitFails(w) ==
    /\ Goto(w, "commitFailed")
    /\ result' = [result EXCEPT ![w] = "nack"]
    /\ UNCHANGED receipt

CommitSettlement(w) ==
    /\ pc[w] = "commit"
    /\ Commit(Event(w), w)
    /\ \/ /\ Holds(Event(w), w)
          /\ Goto(w, "broker")
          /\ receipt' = [receipt EXCEPT ![w] = FALSE]
          /\ UNCHANGED result
       \/ /\ ~Holds(Event(w), w)
          /\ CommitFails(w)
    /\ UNCHANGED <<brokerVars, job, tries, ctx, history>>

CommitError(w) ==
    /\ pc[w] = "commit"
    /\ ~Lazy
    /\ Fault(Event(w))
    /\ Commit(Event(w), w) \/ UNCHANGED claimerVars
    /\ CommitFails(w)
    /\ UNCHANGED <<brokerVars, job, tries, ctx, acks, fails, refused, drops>>

\* releaseSettlement, before the Nack after a failed Commit and after the Nack
\* otherwise.  On Redis it may fail and leave the lease to expire.
AfterRelease(w) ==
    \/ /\ pc[w] = "commitFailed"
       /\ Goto(w, "broker")
       /\ receipt' = [receipt EXCEPT ![w] = FALSE]
       /\ UNCHANGED <<job, tries, ctx, result>>
    \/ /\ pc[w] = "release"
       /\ Idle(w)

ReleaseSettlement(w) ==
    /\ pc[w] \in {"commitFailed", "release"}
    /\ Release(Event(w), w)
    /\ AfterRelease(w)
    /\ UNCHANGED <<brokerVars, history>>

ReleaseError(w) ==
    /\ pc[w] \in {"commitFailed", "release"}
    /\ ~Lazy
    /\ Fault(Event(w))
    /\ Forsake(Event(w), w)
    /\ AfterRelease(w)
    /\ UNCHANGED <<brokerVars, acks, fails, refused, drops>>

\* confirmPublishToDelay: the broker has a copy in the tier of this attempt.
PublishCopy(m) ==
    LET spare == {c \in Messages : queue[c] = "absent" /\ EventOf[c] = EventOf[m]}
        copy == CHOOSE c \in spare : TRUE
    IN  /\ spare # {}
        /\ queue' = [queue EXCEPT ![copy] = "delayed"]
        /\ attempt' = [attempt EXCEPT ![copy] = attempt[m] + 1]

\* Past the last tier the message goes to the DLX.
exhaustDelayBudget(w) ==
    /\ attempt[job[w]] > Tiers
    /\ result' = [result EXCEPT ![w] = "reject"]
    /\ UNCHANGED <<queue, attempt>>

\* The copy is confirmed before the original is acknowledged.
republishToDelayTier(w) ==
    /\ attempt[job[w]] <= Tiers
    /\ PublishCopy(job[w])
    /\ result' = [result EXCEPT ![w] = "move"]

\* The confirmation does not come, which says nothing about the copy: the original
\* goes to the DLX.
failClosedDelayPublish(w) ==
    /\ attempt[job[w]] <= Tiers
    /\ PublishCopy(job[w]) \/ UNCHANGED <<queue, attempt>>
    /\ result' = [result EXCEPT ![w] = "strand"]

dispatchDelayedRequeue(w) ==
    /\ pc[w] = "delay"
    /\ exhaustDelayBudget(w) \/ republishToDelayTier(w) \/ failClosedDelayPublish(w)
    /\ Goto(w, "broker")
    /\ UNCHANGED <<claimerVars, carrier, job, tries, receipt, ctx, history>>

\* The TTL of a delay tier runs out: the broker routes the copy to the queue.
DelayExpires(m) ==
    /\ queue[m] = "delayed"
    /\ queue' = [queue EXCEPT ![m] = "ready"]
    /\ UNCHANGED <<claimerVars, attempt, carrier, pc, job, tries, receipt, ctx, result, history>>

\* Where the verdict puts the message: moved is acknowledged in favour of its copy,
\* stranded is dead-lettered for want of one.
Place(r) ==
    CASE r = "ack" -> "acked" [] r = "move" -> "moved"
      [] r = "reject" -> "dead" [] r = "strand" -> "stranded"
      [] r \in {"requeue", "nack"} -> "ready"

Settled == {"acked", "moved", "dead", "stranded"}

\* Mutant of TellBroker: a requeue is left to the broker.
TellBrokerSilent(w) ==
    /\ pc[w] = "broker"
    /\ IF carrier[job[w]] = w /\ result[w] \notin {"requeue", "nack"}
       THEN /\ queue' = [queue EXCEPT ![job[w]] = Place(result[w])]
            /\ carrier' = [carrier EXCEPT ![job[w]] = Nobody]
       ELSE UNCHANGED <<queue, carrier>>
    /\ \/ /\ receipt[w]
          /\ Goto(w, "release")
          /\ UNCHANGED <<job, tries, receipt, ctx, result>>
       \/ /\ ~receipt[w]
          /\ Idle(w)
    /\ UNCHANGED <<claimerVars, attempt, history>>

\* ch.Ack or ch.Nack, which fails if the delivery is no longer this channel's.
TellBroker(w) ==
    /\ pc[w] = "broker"
    /\ IF carrier[job[w]] = w
       THEN /\ queue' = [queue EXCEPT ![job[w]] = Place(result[w])]
            /\ carrier' = [carrier EXCEPT ![job[w]] = Nobody]
       ELSE UNCHANGED <<queue, carrier>>
    /\ \/ /\ receipt[w]
          /\ Goto(w, "release")
          /\ UNCHANGED <<job, tries, receipt, ctx, result>>
       \/ /\ ~receipt[w]
          /\ Idle(w)
    /\ UNCHANGED <<claimerVars, attempt, history>>

\* The connection that carries m drops; the broker queues m again.
Drop(m) ==
    /\ carrier[m] # Nobody
    /\ drops < MaxDrops
    /\ drops' = drops + 1
    /\ queue' = [queue EXCEPT ![m] = "ready"]
    /\ carrier' = [carrier EXCEPT ![m] = Nobody]
    /\ UNCHANGED <<claimerVars, attempt, pc, job, tries, receipt, ctx, result, acks, fails, refused, faults>>

\* Shutdown cancels the subscription's context.
Cancel(w) ==
    /\ pc[w] \in {"claim", "handle"}
    /\ ctx[w] = "live"
    /\ drops < MaxDrops
    /\ drops' = drops + 1
    /\ ctx' = [ctx EXCEPT ![w] = "canceled"]
    /\ UNCHANGED <<claimerVars, brokerVars, pc, job, tries, receipt, result, acks, fails, refused, faults>>

\* The consumer process dies: its delivery is requeued and its lease orphaned.
Crash(w) ==
    /\ pc[w] # "idle"
    /\ Fault(Event(w))
    /\ Forsake(Event(w), w)
    /\ queue' = [queue EXCEPT ![job[w]] = IF carrier[job[w]] = w THEN "ready" ELSE @]
    /\ carrier' = [carrier EXCEPT ![job[w]] = IF @ = w THEN Nobody ELSE @]
    /\ Idle(w)
    /\ UNCHANGED <<attempt, acks, fails, refused, drops>>

\* A TTL runs out: that of an orphaned lease, or one somebody relies on.
LeaseLapses(k) ==
    /\ Lapse(k)
    /\ \/ /\ mark[k] = "leased" /\ owner[k] = Nobody
          /\ UNCHANGED faults
       \/ /\ mark[k] = "done" \/ owner[k] # Nobody
          /\ Fault(k)
    /\ UNCHANGED <<brokerVars, pc, job, tries, receipt, ctx, result, acks, fails, refused, drops>>

\* The queue is empty.
Quiescent ==
    /\ \A m \in Messages : queue[m] \in Settled \cup {"absent"}
    /\ \A w \in Workers : pc[w] = "idle"
    /\ UNCHANGED vars

WorkerStep(w) ==
    \/ \E m \in Messages : Deliver(w, m)
    \/ Claim(w)
    \/ HandlerAcks(w)
    \/ HandlerRejects(w)
    \/ HandlerFails(w)
    \/ CommitSettlement(w)
    \/ ReleaseSettlement(w)
    \/ dispatchDelayedRequeue(w)
    \/ TellBroker(w)

Next ==
    \/ \E w \in Workers : \/ WorkerStep(w)
                          \/ ClaimError(w)
                          \/ BackoffAborted(w)
                          \/ Renew(w)
                          \/ CommitError(w)
                          \/ ReleaseError(w)
                          \/ Cancel(w)
                          \/ Crash(w)
    \/ \E m \in Messages : Drop(m) \/ DelayExpires(m)
    \/ \E k \in Keys : LeaseLapses(k)
    \/ Quiescent

Spec == Init /\ [][Next]_vars

\* Goroutines run, and a lease whose token nobody has and a delay expire.  A lapse
\* under a holder, faults and drops are under no obligation to happen.
Fairness ==
    /\ \A w \in Workers : WF_vars(WorkerStep(w))
    /\ \A k \in Keys : WF_vars(owner[k] = Nobody /\ mark[k] = "leased" /\ LeaseLapses(k))
    /\ \A m \in Messages : WF_vars(DelayExpires(m))

FairSpec == Spec /\ Fairness

----------------------------------------------------------------------------
\* The broker has a copy of m for the attempt after the one m was for.
HasCopy(m) ==
    \E c \in Messages : /\ queue[c] # "absent"
                        /\ EventOf[c] = EventOf[m] /\ attempt[c] = attempt[m] + 1

\* No event is lost by acknowledging it: the broker drops a message as consumed
\* only after some handler run of its event returned Ack, also when the Ack came
\* from a goroutine that never ran the handler (ClaimDone), or when the broker has a
\* copy of it for the next attempt (republishToDelayTier).
AckedWasHandled ==
    /\ \A k \in Keys : mark[k] = "done" => acks[k] > 0
    /\ \A m \in Messages :
          /\ queue[m] = "acked" => acks[EventOf[m]] > 0 /\ m \notin Malformed
          /\ queue[m] = "moved" => HasCopy(m)

\* The handler succeeds at most once for an event unless a lease or a done mark
\* ran out, the claimer failed or a consumer died, and at most once more for each:
\* duplicates, redeliveries, dropped connections and shutdowns alone never repeat
\* a success.
EffectsBounded == \A k \in Keys : acks[k] <= 1 + faults[k]

\* What justifies giving m up: it is malformed, a handler rejected its event,
\* RetryCount runs failed or, when the broker owns the retries, it has been through
\* every delay tier.
Hopeless(m) ==
    \/ m \in Malformed
    \/ EventOf[m] \in refused
    \/ Tiers = 0 /\ fails[EventOf[m]] >= RetryCount
    \/ Tiers > 0 /\ attempt[m] = Tiers + 1

\* A message is dead-lettered only if it is hopeless: trouble with the claimer, the
\* connection or the process never sends it to the DLX, except that a message with
\* a tier left is given up when its copy is not confirmed (failClosedDelayPublish).
DeadLetterEarned ==
    \A m \in Messages : /\ queue[m] = "dead" => Hopeless(m)
                        /\ queue[m] = "stranded" => attempt[m] <= Tiers

\* A done mark is set only by the holder of the current lease, for a handler run
\* that acked under that lease and did not know it lost.
DoneIsEarned ==
    [][\A k \in Keys :
        mark[k] # "done" /\ mark'[k] = "done"
            => \E w \in Workers : /\ owner[k] = w
                                  /\ pc[w] = "commit" /\ pc'[w] # "commit"
                                  /\ Event(w) = k /\ result[w] = "ack"]_vars

\* Every message is acknowledged or dead-lettered in the end, and so is the last of
\* its copies.
EventuallySettled ==
    \A m \in Messages : (queue[m] # "absent") ~> (queue[m] \in Settled)
============================================================================
