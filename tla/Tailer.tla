------------------------------- MODULE Tailer -------------------------------
(***************************************************************************)
(* The saga journal tailer (runtime/saga/tailer): every process polls, the *)
(* one that gets the distributed lock drains the journal into the read     *)
(* model, event by event.  The lock may lapse under its holder at any      *)
(* moment (DistLock), so several may drain at once; a token minted for     *)
(* every poll and the fenced checkpoint have to keep them apart.           *)
(***************************************************************************)
EXTENDS ReadModelStore, FiniteSets

CONSTANT MaxMishaps  \* bound: crashes, lost leases, errors and cancellations

ASSUME TailerAssumption == MaxMishaps \in Nat /\ IsFiniteSet(Tailers)

VARIABLES
    lock,     \* the tailer that has the lock of the projection
    at,       \* at[t]: where the poll of t is
    through,  \* through[t]: the head its drain is bounded by
    pos,      \* pos[t]: the last position it is done with
    ran,      \* ran[n]: how often Apply has been called with entry n, whatever became of
              \* its transaction
    dead,     \* dead[n]: how often entry n has been dead-lettered
    mishaps   \* mishaps so far

tailerVars == <<lock, at, through, pos, ran, dead, mishaps>>
tailerAll == <<storeVars, tailerVars>>

\* In "applied" and "poison" the tailer has called Apply for the entry after pos.
Steps == {"idle", "head", "load", "drain", "applied", "poison", "release"}

TailerInit ==
    /\ lock = Nobody
    /\ at = [t \in Tailers |-> "idle"]
    /\ through = [t \in Tailers |-> 0]
    /\ pos = [t \in Tailers |-> 0]
    /\ ran = [n \in Positions |-> 0]
    /\ dead = [n \in Positions |-> 0]
    /\ mishaps = 0

Mishap == mishaps < MaxMishaps /\ mishaps' = mishaps + 1

Step(t, from, to) == at[t] = from /\ at' = [at EXCEPT ![t] = to]

TailerAppend == JournalGrows /\ UNCHANGED tailerVars

\* Mutant of Poll: no lock is waited for.
PollUnlocked(t) ==
    /\ Step(t, "idle", "head")
    /\ lock' = t
    /\ owner' = IF owner = t THEN Nobody ELSE owner
    /\ UNCHANGED <<driver, head, offset, applied, through, pos, ran, dead, mishaps>>

\* pollOnce: the lock, and a new owner token; the old one is no one's now.
Poll(t) ==
    /\ lock = Nobody
    /\ Step(t, "idle", "head")
    /\ lock' = t
    /\ owner' = IF owner = t THEN Nobody ELSE owner
    /\ UNCHANGED <<driver, head, offset, applied, through, pos, ran, dead, mishaps>>

\* drain reads the head, then the checkpoint: no common snapshot.
ReadHead(t) ==
    /\ Step(t, "head", "load")
    /\ through' = [through EXCEPT ![t] = head]
    /\ UNCHANGED <<storeVars, lock, pos, ran, dead, mishaps>>

LoadOffset(t) ==
    /\ Step(t, "load", "drain")
    /\ pos' = [pos EXCEPT ![t] = offset]
    /\ UNCHANGED <<storeVars, lock, through, ran, dead, mishaps>>

\* Mutant of Pending: the head itself is left out.
PendingShort(t) == pos[t] + 1 < through[t]
Pending(t) == pos[t] < through[t]

\* The transaction of commitEvent, up to what Apply says: done, or failed for good, and
\* then it is rolled back and another one follows.
applyEvent(t) ==
    /\ at[t] = "drain"
    /\ Pending(t)
    /\ ran' = [ran EXCEPT ![pos[t] + 1] = @ + 1]
    /\ \E to \in {"applied", "poison"} : at' = [at EXCEPT ![t] = to]
    /\ UNCHANGED <<storeVars, lock, through, pos, dead, mishaps>>

\* The rest of it: what Apply wrote and the new checkpoint are committed together; a
\* stale owner's transaction is rolled back and ends its drain.
commitEvent(t) ==
    LET n == pos[t] + 1 IN
    /\ at[t] = "applied"
    /\ \/ /\ AdvanceIfOwner(t, n)
          /\ Apply(n)
          /\ pos' = [pos EXCEPT ![t] = n]
          /\ at' = [at EXCEPT ![t] = "drain"]
       \/ /\ ~Accepts(t, n)
          /\ at' = [at EXCEPT ![t] = "release"]
          /\ UNCHANGED <<offset, owner, applied, pos>>
    /\ UNCHANGED <<driver, head, lock, through, ran, dead, mishaps>>

\* skipPoisonEvent: dead letter and advance in one transaction.
skipPoisonEvent(t) ==
    LET n == pos[t] + 1 IN
    /\ at[t] = "poison"
    /\ \/ /\ AdvanceIfOwner(t, n)
          /\ dead' = [dead EXCEPT ![n] = @ + 1]
          /\ pos' = [pos EXCEPT ![t] = n]
          /\ at' = [at EXCEPT ![t] = "drain"]
       \/ /\ ~Accepts(t, n)
          /\ at' = [at EXCEPT ![t] = "release"]
          /\ UNCHANGED <<offset, owner, pos, dead>>
    /\ UNCHANGED <<driver, head, applied, lock, through, ran, mishaps>>

\* The drain has come to the head it read.
stopAtHead(t) ==
    /\ ~Pending(t)
    /\ Step(t, "drain", "release")
    /\ UNCHANGED <<storeVars, lock, through, pos, ran, dead, mishaps>>

\* The drain ends early: watchLock sees that the lock is gone, or a read, Apply,
\* Record or a transaction fails, or Stop cancels.
Abort(t) ==
    /\ at[t] \in Steps \ {"idle", "release"}
    /\ \/ lock # t /\ UNCHANGED mishaps
       \/ Mishap
    /\ at' = [at EXCEPT ![t] = "release"]
    /\ UNCHANGED <<storeVars, lock, through, pos, ran, dead>>

\* What the drain knew is gone with it.
Forget(t) ==
    /\ through' = [through EXCEPT ![t] = 0]
    /\ pos' = [pos EXCEPT ![t] = 0]

\* Lock.Release, which frees nobody else's lock.
Release(t) ==
    /\ Step(t, "release", "idle")
    /\ lock' = IF lock = t THEN Nobody ELSE lock
    /\ Forget(t)
    /\ UNCHANGED <<storeVars, ran, dead, mishaps>>

\* The process dies; what it has committed stays, its lock lapses later.
Crash(t) ==
    /\ at[t] # "idle"
    /\ Mishap
    /\ at' = [at EXCEPT ![t] = "idle"]
    /\ Forget(t)
    /\ UNCHANGED <<storeVars, lock, ran, dead>>

\* The lease of a tailer that is gone runs out.
Expire ==
    /\ lock # Nobody
    /\ at[lock] = "idle"
    /\ lock' = Nobody
    /\ UNCHANGED <<storeVars, at, through, pos, ran, dead, mishaps>>

\* The lease of a tailer that is still at it runs out: a renewal has failed.
LoseLock ==
    /\ lock # Nobody
    /\ Mishap
    /\ lock' = Nobody
    /\ UNCHANGED <<storeVars, at, through, pos, ran, dead>>

Drain(t) ==
    \/ ReadHead(t) \/ LoadOffset(t) \/ applyEvent(t) \/ commitEvent(t) \/ skipPoisonEvent(t)
    \/ stopAtHead(t) \/ Release(t)

TailerNext ==
    /\ driver = "tailer"
    /\ \/ TailerAppend
       \/ Expire
       \/ LoseLock
       \/ \E t \in Tailers : Poll(t) \/ Drain(t) \/ Abort(t) \/ Crash(t)

----------------------------------------------------------------------------
\* What is committed: the entries up to the checkpoint have been applied or dead-lettered,
\* each once, and none beyond it, however many tailers drain at once.  This is about an
\* Apply that writes in the transaction it is called in; Apply itself may be called again
\* (DuplicateApplyBounded).
CommittedOnce ==
    driver = "tailer" => \A n \in Positions : applied[n] + dead[n] = IF n <= offset THEN 1 ELSE 0

\* "BOUNDED duplicate apply": delivery to Apply is at least once, and every call for an
\* entry after the first is owed to a mishap (a lease lost while its holder drained, a
\* crash, an error), whoever is leader, deposed or fenced at the time.
DuplicateApplyBounded == driver = "tailer" => \A n \in Positions : ran[n] <= 1 + mishaps

\* No entry is left behind: what has been appended is applied or dead-lettered.
EventuallyProjected == \A n \in Positions : (driver = "tailer" /\ head >= n) ~> (offset >= n)
=============================================================================
