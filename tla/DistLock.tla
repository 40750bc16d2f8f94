------------------------------ MODULE DistLock ------------------------------
(***************************************************************************)
(* The distributed lock: Locker.Acquire and the shared manager goroutine   *)
(* of runtime/distlock, over the Redis driver of adapters/redis.           *)
(*                                                                         *)
(* Every process has one Manager.  It is started by the first add, renews  *)
(* all locks of the process, takes its orders from a channel, and leaves   *)
(* when the last lock is disposed of.  Renew and Release are calls to      *)
(* Redis made by goroutines of their own.  A member of Locks is one        *)
(* successful or failed Acquire and stands for its token as well.  Time is *)
(* abstracted: a key may expire at any moment, a renewal falls due at any  *)
(* moment.                                                                 *)
(***************************************************************************)
EXTENDS Naturals, Sequences, FiniteSets

CONSTANTS
    Procs,             \* processes
    Locks,             \* acquisitions
    Keys,              \* keys in Redis
    Placements,        \* the ways the acquisitions are spread over processes and keys
    Nobody,            \* holder of a free key
    MaxRenewAttempts,  \* WithMaxRenewAttempts
    MaxFaults          \* bound: driver errors

ASSUME DistLockAssumption ==
    /\ IsFiniteSet(Locks)
    /\ Placements \subseteq [Locks -> [proc : Procs, key : Keys]]
    /\ Nobody \notin Locks
    /\ MaxRenewAttempts \in Nat \ {0}
    /\ MaxFaults \in Nat

VARIABLES
    key,      \* key[k]: the lock whose token Redis has under k, or Nobody
    running,  \* running[p]: Manager.running
    mgr,      \* mgr[p]: its goroutine: "none", "loop", or "drain" between the two
              \* critical sections of decPendingAndMaybeDrain
    pending,  \* pending[p]: Manager.pendingDispositions
    events,   \* events[p]: Manager.events
    locks,    \* locks[p]: the locks map of run
    due,      \* due[p]: the locks with an item in the renewal heap
    call,     \* call[l]: how far the caller is with l
    place,    \* place[l]: the process that makes the acquisition, and the key it asks for
    cause,    \* cause[l]: Lock.Cause
    worker,   \* worker[l]: the renewWorker of l
    late,     \* history: renewals of l that took effect after it was detached
    faults    \* driver errors so far

redisVars == <<key, faults>>
mgrVars == <<running, mgr, pending, locks, due>>
vars == <<redisVars, mgrVars, place, events, call, cause, worker, late>>

NoWorker == [at |-> "none", tries |-> 0, canceled |-> FALSE, left |-> FALSE, res |-> "none"]

Init ==
    /\ key = [k \in Keys |-> Nobody]
    /\ running = [p \in Procs |-> FALSE]
    /\ mgr = [p \in Procs |-> "none"]
    /\ pending = [p \in Procs |-> 0]
    /\ events = [p \in Procs |-> <<>>]
    /\ locks = [p \in Procs |-> {}]
    /\ due = [p \in Procs |-> {}]
    /\ call = [l \in Locks |-> "new"]
    /\ place \in Placements
    /\ cause = [l \in Locks |-> "none"]
    /\ worker = [l \in Locks |-> NoWorker]
    /\ late = [l \in Locks |-> 0]
    /\ faults = 0

----------------------------------------------------------------------------
procOf(l) == place[l].proc
keyOf(l) == place[l].key

Goto(l, c) == call' = [call EXCEPT ![l] = c]

Send(l, kind, res) ==
    events' = [events EXCEPT ![procOf(l)] = Append(@, [kind |-> kind, lock |-> l, res |-> res])]

Fault == faults < MaxFaults /\ faults' = faults + 1

\* The driver: SET NX, and the token guard of the two scripts.
SetNX(l) == key[keyOf(l)] = Nobody /\ key' = [key EXCEPT ![keyOf(l)] = l]

Owns(l) == key[keyOf(l)] = l

\* Mutant of Delete: the token is not compared.
DeleteAny(l) == key' = [key EXCEPT ![keyOf(l)] = Nobody]

Delete(l) == key' = IF Owns(l) THEN [key EXCEPT ![keyOf(l)] = Nobody] ELSE key

Expire(k) ==
    /\ key[k] # Nobody
    /\ key' = [key EXCEPT ![k] = Nobody]
    /\ UNCHANGED <<place, faults, mgrVars, events, call, cause, worker, late>>

----------------------------------------------------------------------------
(* The callers.                                                            *)

\* Acquire takes the key; a key that is held is an error that changes nothing.
Acquire(l) ==
    /\ call[l] = "new"
    /\ SetNX(l)
    /\ Goto(l, "won")
    /\ UNCHANGED <<faults, place, mgrVars, events, cause, worker, late>>

\* SET NX fails, with or without effect; nobody renews or releases the key.
AcquireError(l) ==
    /\ call[l] = "new"
    /\ Fault
    /\ SetNX(l) \/ UNCHANGED key
    /\ Goto(l, "failed")
    /\ UNCHANGED <<place, mgrVars, events, cause, worker, late>>

\* Manager.add: the critical section, and then the send.
add(l) ==
    LET p == procOf(l) IN
    /\ call[l] = "won"
    /\ Goto(l, "added")
    /\ pending' = [pending EXCEPT ![p] = @ + 1]
    /\ running' = [running EXCEPT ![p] = TRUE]
    /\ mgr' = [mgr EXCEPT ![p] = IF running[p] THEN @ ELSE "loop"]
    /\ UNCHANGED <<place, redisVars, locks, due, events, cause, worker, late>>

sendAdd(l) ==
    /\ call[l] = "added"
    /\ Goto(l, "held")
    /\ Send(l, "add", "none")
    /\ UNCHANGED <<place, redisVars, mgrVars, cause, worker, late>>

\* Lock.Release and Lock.Orphan share one sync.Once; both wait for an answer.
remove(l) ==
    /\ call[l] = "held"
    /\ Goto(l, "releasing")
    /\ Send(l, "remove", "none")
    /\ UNCHANGED <<place, redisVars, mgrVars, cause, worker, late>>

orphan(l) ==
    /\ call[l] = "held"
    /\ Goto(l, "orphaning")
    /\ Send(l, "orphan", "none")
    /\ UNCHANGED <<place, redisVars, mgrVars, cause, worker, late>>

----------------------------------------------------------------------------
(* The manager goroutine.                                                  *)

Ev(p) == Head(events[p])

\* runOnce takes an event of the kind from the channel.
Receive(p, kind) ==
    /\ mgr[p] = "loop"
    /\ events[p] # <<>>
    /\ Ev(p).kind = kind
    /\ events' = [events EXCEPT ![p] = Tail(@)]

\* The first critical section of decPendingAndMaybeDrain.
decPending(p) ==
    /\ pending' = [pending EXCEPT ![p] = @ - 1]
    /\ mgr' = [mgr EXCEPT ![p] = IF pending[p] = 1 THEN "drain" ELSE @]
    /\ UNCHANGED running

\* The second one: the manager leaves, whatever has been added since.
drain(p) ==
    /\ mgr[p] = "drain"
    /\ mgr' = [mgr EXCEPT ![p] = "none"]
    /\ running' = [running EXCEPT ![p] = FALSE]
    /\ worker' = [l \in Locks |-> IF procOf(l) = p /\ worker[l].at # "none"
                                  THEN [worker[l] EXCEPT !.left = TRUE] ELSE worker[l]]
    /\ UNCHANGED <<place, redisVars, pending, locks, due, events, call, cause, late>>

handleAdd(p) ==
    /\ Receive(p, "add")
    /\ locks' = [locks EXCEPT ![p] = @ \cup {Ev(p).lock}]
    /\ due' = [due EXCEPT ![p] = @ \cup {Ev(p).lock}]
    /\ UNCHANGED <<place, redisVars, running, mgr, pending, call, cause, worker, late>>

\* Mutant of detachLock: a renewal in flight is not canceled.
detachLockOnly(p, l, why) ==
    IF l \in locks[p]
    THEN /\ locks' = [locks EXCEPT ![p] = @ \ {l}]
         /\ due' = [due EXCEPT ![p] = @ \ {l}]
         /\ cause' = [cause EXCEPT ![l] = why]
         /\ UNCHANGED worker
    ELSE UNCHANGED <<locks, due, worker, cause>>

\* The lock leaves map and heap, and a renewal in flight is canceled.
detachLock(p, l, why) ==
    IF l \in locks[p]
    THEN /\ locks' = [locks EXCEPT ![p] = @ \ {l}]
         /\ due' = [due EXCEPT ![p] = @ \ {l}]
         /\ worker' = [worker EXCEPT ![l].canceled = worker[l].at # "none"]
         /\ cause' = [cause EXCEPT ![l] = why]
    ELSE UNCHANGED <<locks, due, worker, cause>>

\* Driver.Release is left to a goroutine; a lock that is lost is answered at once.
handleRemove(p) ==
    LET l == Ev(p).lock IN
    /\ Receive(p, "remove")
    /\ detachLock(p, l, "released")
    /\ Goto(l, IF l \in locks[p] THEN "io" ELSE "returned")
    /\ decPending(p)
    /\ UNCHANGED <<place, redisVars, late>>

handleOrphan(p) ==
    LET l == Ev(p).lock IN
    /\ Receive(p, "orphan")
    /\ detachLock(p, l, "orphaned")
    /\ Goto(l, "returned")
    /\ decPending(p)
    /\ UNCHANGED <<place, redisVars, late>>

\* The heap's timer fires for l.
handleRenew(p, l) ==
    /\ mgr[p] = "loop"
    /\ l \in due[p]
    /\ due' = [due EXCEPT ![p] = @ \ {l}]
    /\ worker' = [worker EXCEPT ![l].at = IF l \in locks[p] THEN "ready" ELSE @]
    /\ UNCHANGED <<place, redisVars, running, mgr, pending, locks, events, call, cause, late>>

\* Mutants of lose: the lock gives up its pending slot; the holder is not told.
loseAndDrain(p, l) ==
    /\ locks' = [locks EXCEPT ![p] = @ \ {l}]
    /\ cause' = [cause EXCEPT ![l] = "lost"]
    /\ decPending(p)

loseInSilence(p, l) ==
    /\ locks' = [locks EXCEPT ![p] = @ \ {l}]
    /\ UNCHANGED <<cause, pending, mgr, running>>

\* markCause(ErrLockLost); the caller still owes a Release or an Orphan.
lose(p, l) ==
    /\ locks' = [locks EXCEPT ![p] = @ \ {l}]
    /\ cause' = [cause EXCEPT ![l] = "lost"]
    /\ UNCHANGED <<pending, mgr, running>>

\* A late result is ignored; an error or a lost key ends the lock; a renewal is
\* queued again.
handleRenewResult(p) ==
    LET l == Ev(p).lock IN
    /\ Receive(p, "renewResult")
    /\ \/ /\ l \notin locks[p]
          /\ UNCHANGED <<locks, due, cause, pending, mgr, running>>
       \/ /\ l \in locks[p]
          /\ Ev(p).res = "held"
          /\ due' = [due EXCEPT ![p] = @ \cup {l}]
          /\ UNCHANGED <<locks, cause, pending, mgr, running>>
       \/ /\ l \in locks[p]
          /\ Ev(p).res # "held"
          /\ lose(p, l)
          /\ UNCHANGED due
    /\ UNCHANGED <<place, redisVars, call, worker, late>>

----------------------------------------------------------------------------
(* The goroutines that talk to Redis.                                      *)

Working(l, w) == worker' = [worker EXCEPT ![l] = w]

\* A renewal reaches Redis.
Landed(l) == late' = [late EXCEPT ![l] = @ + IF Owns(l) /\ cause[l] # "none" THEN 1 ELSE 0]

\* runRenewAttempts: the next attempt is sent, unless the context is canceled.
Renew(l) ==
    /\ worker[l].at = "ready"
    /\ Working(l, IF worker[l].canceled
                  THEN [worker[l] EXCEPT !.at = "post", !.res = "error"]
                  ELSE [worker[l] EXCEPT !.at = "sent"])
    /\ UNCHANGED <<place, redisVars, mgrVars, events, call, cause, late>>

RenewAnswered(l) ==
    /\ worker[l].at = "sent"
    /\ Landed(l)
    /\ Working(l, [worker[l] EXCEPT !.at = "post", !.res = IF Owns(l) THEN "held" ELSE "lost"])
    /\ UNCHANGED <<place, redisVars, mgrVars, events, call, cause>>

\* The attempt fails, with or without effect, or is abandoned by a cancellation.
RenewError(l) ==
    /\ worker[l].at = "sent"
    /\ Landed(l) \/ UNCHANGED late
    /\ \/ worker[l].canceled /\ UNCHANGED faults
       \/ ~worker[l].canceled /\ Fault
    /\ Working(l, IF worker[l].tries + 1 < MaxRenewAttempts
                  THEN [worker[l] EXCEPT !.at = "ready", !.tries = @ + 1]
                  ELSE [worker[l] EXCEPT !.at = "post", !.res = "error"])
    /\ UNCHANGED <<place, key, mgrVars, events, call, cause>>

\* renewWorker posts the result, or finds that its manager has left.
Post(l) ==
    /\ worker[l].at = "post"
    /\ \/ Send(l, "renewResult", worker[l].res)
       \/ worker[l].left /\ UNCHANGED events
    /\ Working(l, NoWorker)
    /\ UNCHANGED <<place, redisVars, mgrVars, call, cause, late>>

\* Driver.Release, and the answer to the caller.
Release(l) ==
    /\ call[l] = "io"
    /\ Delete(l)
    /\ Goto(l, "returned")
    /\ UNCHANGED <<place, faults, mgrVars, events, cause, worker, late>>

ReleaseError(l) ==
    /\ call[l] = "io"
    /\ Fault
    /\ Delete(l) \/ UNCHANGED key
    /\ Goto(l, "returned")
    /\ UNCHANGED <<place, mgrVars, events, cause, worker, late>>

----------------------------------------------------------------------------
Handle(p) == handleAdd(p) \/ handleRemove(p) \/ handleOrphan(p) \/ handleRenewResult(p) \/ drain(p)

Work(l) == Renew(l) \/ RenewAnswered(l) \/ Post(l) \/ Release(l)

Next ==
    \/ \E k \in Keys : Expire(k)
    \/ \E l \in Locks : \/ Acquire(l) \/ AcquireError(l) \/ add(l) \/ sendAdd(l)
                        \/ remove(l) \/ orphan(l)
                        \/ Work(l) \/ RenewError(l) \/ ReleaseError(l)
    \/ \E p \in Procs : Handle(p) \/ \E l \in Locks : handleRenew(p, l)

Spec == Init /\ [][Next]_vars

\* The manager and the goroutines run, a select with two ready cases takes each in
\* the end, and calls to Redis are bounded by their timeouts.  Callers may hold a
\* lock as long as they like, and no key has to expire.
Fairness ==
    /\ \A p \in Procs : WF_vars(Handle(p))
    /\ \A p \in Procs, l \in Locks : WF_vars(handleRenew(p, l))
    /\ \A l \in Locks : WF_vars(Work(l)) /\ WF_vars(sendAdd(l))

FairSpec == Spec /\ Fairness

----------------------------------------------------------------------------
\* The maps of run are local to the goroutine, so whatever it still manages when it
\* leaves is never renewed again: the manager leaves only when its map and its heap
\* are empty, however adds, losses and disposals interleave with the count.
ManagerLeavesNothing == \A p \in Procs : mgr[p] # "loop" => locks[p] = {} /\ due[p] = {}

\* "a renewal whose write already reached the backend at Orphan time may extend the
\* lease one more TTL window" (Lock.Orphan): one, whatever is retried.
OneLateRenewal == \A l \in Locks : late[l] <= 1

\* A key that some lock has is freed by its expiry or by the Release of that very
\* lock, never by a Release that comes after the key has changed hands.
OnlyHolderFrees ==
    [][\A k \in Keys :
        key[k] # Nobody /\ key'[k] # key[k]
            => key'[k] = Nobody /\ (call' = call \/ call[key[k]] = "io")]_vars

\* A lock the manager knows of and whose key is gone is ended, so that its holder
\* sees Done.
HolderIsTold ==
    \A l \in Locks :
        (l \in locks[procOf(l)] /\ key[keyOf(l)] # l) ~> (cause[l] # "none")

\* "ev.resultCh is always signaled ... so the caller never blocks indefinitely"
\* (handleRemove) and "Release blocks until Driver.Release completes (bounded by
\* WithReleaseTimeout, default 5s)" (Lock.Release).
ReleaseReturns == \A l \in Locks : (call[l] = "releasing") ~> (call[l] = "returned")
=============================================================================
