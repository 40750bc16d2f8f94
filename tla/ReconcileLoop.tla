--------------------------- MODULE ReconcileLoop ---------------------------
(* One term of a reconcile loop after another: kernel/reconcile/loop.go        *)
(* (spawnActive, feedFromSource, runWorker, process, dispatch, waitingLoop),   *)
(* under the lease of LeaderElection.                                          *)
(*                                                                             *)
(* The delaying queue is a set: at most one item waits per entity, and its     *)
(* delay (interval, backoff or none) may run out at any time.                  *)
EXTENDS LeaderElection, Sequences, SequencesExt

CONSTANTS
    Deployments,   \* what may be deployed: see deploy
    None,          \* an empty hand
    MaxTriggers    \* bound on the requests the source emits

ASSUME LoopAssumption ==
    /\ None \notin Entities
    /\ \A d \in Deployments : d.replicas \subseteq Replicas /\ d.entities \subseteq Entities

VARIABLES
    deploy,        \* [replicas, workers, entities : sets, results : outcomes of a
                   \* Reconcile, requeue : the default requeue is on, buffer : capacity
                   \* of the work queue, of addCh and of cancelCh]; never changes
    source,        \* triggerCh, one per replica, kept from term to term
    queue, addCh, cancelCh,
    waiting,       \* the delaying queue's heap
    hand,          \* the item waitingLoop is pushing into the queue
    processing, dirty,
    wk,            \* each worker: what it does, for which entity
    owed,          \* entities to be reconciled again in this term
    triggers

loopVars == <<source, queue, addCh, cancelCh, waiting, hand, processing, dirty, wk,
              owed, triggers>>
vars == <<electionVars, deploy, loopVars>>

Idle == [at |-> "idle"]
Workers == deploy.workers
Running(r) == mgr[r] \in {"active", "draining"}

(* ------------------------------ The source --------------------------------- *)

\* The Trigger, started under the lease, emits a request.
Trigger(r, e) ==
    /\ Running(r)
    /\ triggers < MaxTriggers
    /\ triggers' = triggers + 1
    /\ source' = [source EXCEPT ![r] = Append(@, e)]
    /\ UNCHANGED <<electionVars, deploy, queue, addCh, cancelCh, waiting, hand,
                   processing, dirty, wk, owed>>

feedFromSource(r) ==
    /\ Running(r)
    /\ source[r] # << >>
    /\ Len(queue[r]) < deploy.buffer
    /\ source' = [source EXCEPT ![r] = Tail(@)]
    /\ queue' = [queue EXCEPT ![r] = Append(@, Head(source[r]))]
    /\ owed' = [owed EXCEPT ![r] = @ \cup {Head(source[r])}]
    /\ UNCHANGED <<electionVars, deploy, addCh, cancelCh, waiting, hand, processing,
                   dirty, wk, triggers>>

(* ------------------------------ The workers -------------------------------- *)

\* Mutant of coalesce: a request for an entity in flight is skipped.
coalesceNot(r, e) == dirty' = dirty

coalesce(r, e) == dirty' = [dirty EXCEPT ![r] = @ \cup {e}]

\* The head of process: one run per entity, the rest coalesced.
Take(r, w) ==
    LET e == Head(queue[r])
    IN  /\ Running(r)
        /\ wk[r][w] = Idle
        /\ queue[r] # << >>
        /\ queue' = [queue EXCEPT ![r] = Tail(@)]
        /\ IF e \in processing[r]
           THEN /\ coalesce(r, e)
                /\ UNCHANGED <<processing, wk, owed>>
           ELSE /\ processing' = [processing EXCEPT ![r] = @ \cup {e}]
                /\ wk' = [wk EXCEPT ![r][w] = [at |-> "run", e |-> e, fence |-> lease[r]]]
                /\ owed' = [owed EXCEPT ![r] = @ \ {e}]
                /\ UNCHANGED dirty
        /\ UNCHANGED <<electionVars, deploy, source, addCh, cancelCh, waiting, hand,
                       triggers>>

Returned(e, res) == [at |-> "returned", e |-> e, res |-> res]

\* Reconcile writes through its FencedWriter, and gives up when the write is stale.
Write(r, w) ==
    /\ wk[r][w].at = "run"
    /\ \/ ApplyFenced(r, wk[r][w].e, wk[r][w].fence) /\ UNCHANGED wk
       \/ /\ ~Accepted(wk[r][w].e, wk[r][w].fence)
          /\ wk' = [wk EXCEPT ![r][w] = Returned(@.e, "permanent")]
          /\ UNCHANGED electionVars
    /\ UNCHANGED <<deploy, source, queue, addCh, cancelCh, waiting, hand, processing,
                   dirty, owed, triggers>>

\* Reconcile returns, by itself or because its context was canceled.
Reconcile(r, w, res) ==
    /\ wk[r][w].at = "run"
    /\ wk' = [wk EXCEPT ![r][w] = Returned(@.e, res)]
    /\ UNCHANGED <<electionVars, deploy, source, queue, addCh, cancelCh, waiting, hand,
                   processing, dirty, owed, triggers>>

\* A send to addCh or cancelCh waits for room; it may be given up once the term is over.
enqueueDelayed(r, e) ==
    \/ /\ Len(addCh[r]) < deploy.buffer
       /\ addCh' = [addCh EXCEPT ![r] = Append(@, e)]
       /\ owed' = [owed EXCEPT ![r] = @ \cup {e}]
    \/ mgr[r] = "draining" /\ UNCHANGED <<addCh, owed>>

enqueueCancel(r, e) ==
    \/ /\ Len(cancelCh[r]) < deploy.buffer
       /\ cancelCh' = [cancelCh EXCEPT ![r] = Append(@, e)]
    \/ mgr[r] = "draining" /\ UNCHANGED cancelCh

\* A success without default requeue schedules nothing.
dispatch(r, w) ==
    LET e == wk[r][w].e
        res == wk[r][w].res
    IN  /\ wk[r][w].at = "returned"
        /\ wk' = [wk EXCEPT ![r][w] = [at |-> "dispatched", e |-> e, res |-> res]]
        /\ \/ /\ res = "permanent"
              /\ enqueueCancel(r, e)
              /\ UNCHANGED <<addCh, owed>>
           \/ /\ res = "transient" \/ (res = "success" /\ deploy.requeue)
              /\ enqueueDelayed(r, e)
              /\ UNCHANGED cancelCh
           \/ /\ res = "success" /\ ~deploy.requeue
              /\ UNCHANGED <<addCh, cancelCh, owed>>
        /\ UNCHANGED <<electionVars, deploy, source, queue, waiting, hand, processing,
                       dirty, triggers>>

\* The tail of process: processing and dirty are cleared together; a coalesced
\* request is run again unless the outcome was permanent.
finish(r, w) ==
    LET e == wk[r][w].e
        rerun == e \in dirty[r] /\ wk[r][w].res # "permanent"
    IN  /\ wk[r][w].at = "dispatched"
        /\ processing' = [processing EXCEPT ![r] = @ \ {e}]
        /\ dirty' = [dirty EXCEPT ![r] = @ \ {e}]
        /\ wk' = [wk EXCEPT ![r][w] = IF rerun THEN [at |-> "rerun", e |-> e] ELSE Idle]
        /\ owed' = IF e \in dirty[r] /\ ~rerun THEN [owed EXCEPT ![r] = @ \ {e}] ELSE owed
        /\ UNCHANGED <<electionVars, deploy, source, queue, addCh, cancelCh, waiting, hand,
                       triggers>>

rerunDirty(r, w) ==
    /\ wk[r][w].at = "rerun"
    /\ enqueueDelayed(r, wk[r][w].e)
    /\ wk' = [wk EXCEPT ![r][w] = Idle]
    /\ UNCHANGED <<electionVars, deploy, source, queue, cancelCh, waiting, hand,
                   processing, dirty, triggers>>

(* --------------------------- The delaying queue ---------------------------- *)

\* waitingLoop receives an item and merges it with one already waiting.
addOrMergeWaiting(r) ==
    /\ Running(r)
    /\ hand[r] = None
    /\ addCh[r] # << >>
    /\ waiting' = [waiting EXCEPT ![r] = @ \cup {Head(addCh[r])}]
    /\ addCh' = [addCh EXCEPT ![r] = Tail(@)]
    /\ UNCHANGED <<electionVars, deploy, source, queue, cancelCh, hand, processing, dirty,
                   wk, owed, triggers>>

cancelPending(r) ==
    /\ Running(r)
    /\ hand[r] = None
    /\ cancelCh[r] # << >>
    /\ waiting' = [waiting EXCEPT ![r] = @ \ {Head(cancelCh[r])}]
    /\ cancelCh' = [cancelCh EXCEPT ![r] = Tail(@)]
    /\ UNCHANGED <<electionVars, deploy, source, queue, addCh, hand, processing, dirty, wk,
                   owed, triggers>>

\* drainReadyItems pops an item whose time has come and pushes it into the work queue;
\* if there is no room, waitingLoop waits with the item in its hand.
popReady(r, e) ==
    /\ Running(r)
    /\ hand[r] = None
    /\ e \in waiting[r]
    /\ waiting' = [waiting EXCEPT ![r] = @ \ {e}]
    /\ IF Len(queue[r]) < deploy.buffer
       THEN queue' = [queue EXCEPT ![r] = Append(@, e)] /\ UNCHANGED hand
       ELSE hand' = [hand EXCEPT ![r] = e] /\ UNCHANGED queue
    /\ UNCHANGED <<electionVars, deploy, source, addCh, cancelCh, processing, dirty, wk,
                   owed, triggers>>

pushReady(r) ==
    /\ Running(r)
    /\ hand[r] # None
    /\ Len(queue[r]) < deploy.buffer
    /\ queue' = [queue EXCEPT ![r] = Append(@, hand[r])]
    /\ hand' = [hand EXCEPT ![r] = None]
    /\ UNCHANGED <<electionVars, deploy, source, addCh, cancelCh, waiting, processing,
                   dirty, wk, owed, triggers>>

(* ------------------------------- The terms --------------------------------- *)

\* spawnActive: fresh channels and a clean entity state.
StartTerm(r) ==
    /\ AcquireLease(r)
    /\ processing' = [processing EXCEPT ![r] = {}]
    /\ dirty' = [dirty EXCEPT ![r] = {}]
    /\ queue' = [queue EXCEPT ![r] = << >>]
    /\ addCh' = [addCh EXCEPT ![r] = << >>]
    /\ cancelCh' = [cancelCh EXCEPT ![r] = << >>]
    /\ waiting' = [waiting EXCEPT ![r] = {}]
    /\ hand' = [hand EXCEPT ![r] = None]
    /\ UNCHANGED <<deploy, source, wk, owed, triggers>>

\* Mutant of Quiet: the term ends without waiting for its workers.
QuietAtOnce(r) == TRUE

Quiet(r) == \A w \in Workers : wk[r][w] = Idle

\* leaseWG.Wait: the workers have left, and with them the delaying queue and the
\* feeder, which loses a request it had in its hands.
EndTerm(r) ==
    /\ Quiet(r)
    /\ endTerm(r)
    /\ \/ UNCHANGED source
       \/ source[r] # << >> /\ source' = [source EXCEPT ![r] = Tail(@)]
    /\ owed' = [owed EXCEPT ![r] = {}]
    /\ UNCHANGED <<deploy, queue, addCh, cancelCh, waiting, hand, processing, dirty, wk,
                   triggers>>

Elect(r) ==
    /\ \/ AcquireError(r)
       \/ LeaseLost(r)
       \/ RenewError(r)
       \/ ReleaseLease(r)
       \/ ReleaseError(r)
    /\ UNCHANGED <<deploy, loopVars>>

Init ==
    /\ ElectionInit
    /\ deploy \in Deployments
    /\ source = [r \in Replicas |-> << >>]
    /\ queue = [r \in Replicas |-> << >>]
    /\ addCh = [r \in Replicas |-> << >>]
    /\ cancelCh = [r \in Replicas |-> << >>]
    /\ waiting = [r \in Replicas |-> {}]
    /\ hand = [r \in Replicas |-> None]
    /\ processing = [r \in Replicas |-> {}]
    /\ dirty = [r \in Replicas |-> {}]
    /\ wk = [r \in Replicas |-> [w \in Workers |-> Idle]]
    /\ owed = [r \in Replicas |-> {}]
    /\ triggers = 0

Work(r, w) ==
    \/ Take(r, w)
    \/ \E res \in deploy.results : Reconcile(r, w, res)
    \/ dispatch(r, w)
    \/ finish(r, w)
    \/ rerunDirty(r, w)

Wait(r) ==
    \/ addOrMergeWaiting(r)
    \/ cancelPending(r)
    \/ \E e \in deploy.entities : popReady(r, e)
    \/ pushReady(r)

Next ==
    \/ Expire /\ UNCHANGED <<deploy, loopVars>>
    \/ \E r \in deploy.replicas :
          \/ StartTerm(r)
          \/ EndTerm(r)
          \/ Elect(r)
          \/ \E e \in deploy.entities : Trigger(r, e)
          \/ feedFromSource(r)
          \/ Wait(r)
          \/ \E w \in Workers : Work(r, w) \/ Write(r, w)

Spec == Init /\ [][Next]_vars

\* Goroutines that can run do, a Reconcile returns, delays run out, renewals are tried.
Fairness ==
    \A r \in Replicas :
        /\ WF_vars(LeaseLost(r) /\ UNCHANGED <<deploy, loopVars>>)
        /\ WF_vars(addOrMergeWaiting(r))
        /\ WF_vars(pushReady(r))
        /\ \A e \in Entities : WF_vars(popReady(r, e))
        /\ \A w \in UNION {d.workers : d \in Deployments} : WF_vars(w \in Workers /\ Work(r, w))

FairSpec == Spec /\ Fairness

(* ------------------------------- Properties -------------------------------- *)

\* No entity is reconciled by two workers of a replica at once, not even across a
\* change of terms, when the processing map is replaced (process, runLeaseTerm).
OneRunPerEntity ==
    \A r \in Replicas : \A v, w \in Workers :
        /\ wk[r][v].at \in {"run", "returned", "dispatched"}
        /\ wk[r][w].at \in {"run", "returned", "dispatched"}
        /\ wk[r][v].e = wk[r][w].e
        => v = w

\* An entity that is owed a run (a request came in, its last run failed transiently or
\* is to be repeated) starts one, unless the term ends first.  Where outcomes can be
\* permanent this may fail: see OwedIsScheduled.
OwedRuns ==
    \A r \in Replicas, e \in Entities :
        e \in owed[r] /\ "permanent" \notin deploy.results
            ~> e \notin owed[r] \/ mgr[r] = "draining"

\* Where a run the loop owes an entity may be.
Scheduled(r, e) ==
    \/ e \in ToSet(queue[r]) \cup ToSet(addCh[r]) \cup waiting[r] \cup {hand[r]}
    \/ e \in dirty[r] /\ e \in processing[r]
    \/ \E w \in Workers : wk[r][w].at = "rerun" /\ wk[r][w].e = e

\* "Return (Result{}, err) with a transient err to have the Loop back off and retry"
\* (Reconciler), and a trigger is "never silently dropped" (process): as long as the
\* term runs, an entity that is owed a run has one scheduled.  A cancellation sent for
\* an earlier, permanent outcome may be received after the request of a later run.
OwedIsScheduled ==
    \A r \in Replicas, e \in Entities :
        mgr[r] = "active" /\ e \in owed[r] => Scheduled(r, e)
=============================================================================
