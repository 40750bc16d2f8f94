--------------------------- MODULE LeaderElection ---------------------------
(* The lease of a reconcile loop and the epochs that fence its writes:         *)
(* kernel/reconcile/loop.go (leaderManage, runLeaseTerm, renewLoop,            *)
(* releaseLease) over adapters/redis and adapters/postgres reconcile_leader.go.*)
(* Both stores keep one holder with a time to live and an epoch that outlives  *)
(* it; "Nobody" stands for a free, released or expired lease.                  *)
EXTENDS Integers

CONSTANTS
    Replicas,   \* one elector, hence one holder id, each
    Nobody,
    Entities,
    MaxEpoch,   \* bound on holder changes
    MaxFaults   \* bound on failed calls to the lease store

ASSUME ElectionAssumption ==
    /\ Nobody \notin Replicas
    /\ MaxEpoch \in Nat
    /\ MaxFaults \in Nat

VARIABLES
    holder,     \* the store's holder
    epoch,      \* the store's epoch
    mgr,        \* where each replica's leaderManage is
    lease,      \* currentLease: the epoch of the running term, 0 for nil
    last,       \* the highest epoch each entity's row has accepted
    writer,     \* the replica of the last accepted write
    faults

electionVars == <<holder, epoch, mgr, lease, last, writer, faults>>

Fault == faults < MaxFaults /\ faults' = faults + 1

\* Mutant of Granted: the epoch moves only when another replica had the lease.
GrantedSame(r) == IF holder \in {r, Nobody} /\ epoch > 0 THEN epoch ELSE epoch + 1

\* The epoch AcquireLease gives replica r: a new one unless r still holds the lease.
Granted(r) == IF holder = r THEN epoch ELSE epoch + 1

\* The acquire script or statement succeeds; the answer may be lost, and leaderManage
\* then tries again.
AcquireLease(r) ==
    /\ mgr[r] = "contend"
    /\ holder \in {r, Nobody}
    /\ Granted(r) <= MaxEpoch
    /\ holder' = r
    /\ epoch' = Granted(r)
    /\ mgr' = [mgr EXCEPT ![r] = "active"]
    /\ lease' = [lease EXCEPT ![r] = Granted(r)]
    /\ UNCHANGED <<last, writer, faults>>

AcquireError(r) ==
    /\ mgr[r] = "contend"
    /\ holder \in {r, Nobody}
    /\ Granted(r) <= MaxEpoch
    /\ Fault
    /\ holder' = r
    /\ epoch' = Granted(r)
    /\ UNCHANGED <<mgr, lease, last, writer>>

\* The lease's time runs out, on a replica that stalls or cannot reach the store.
Expire ==
    /\ holder # Nobody
    /\ holder' = Nobody
    /\ UNCHANGED <<epoch, mgr, lease, last, writer, faults>>

\* renewLoop: RenewLease finds another holder or none, and the term is canceled.
LeaseLost(r) ==
    /\ mgr[r] = "active"
    /\ holder # r
    /\ mgr' = [mgr EXCEPT ![r] = "draining"]
    /\ UNCHANGED <<holder, epoch, lease, last, writer, faults>>

\* RenewLease, or the start of the trigger, fails with an error: the same.
RenewError(r) ==
    /\ mgr[r] = "active"
    /\ Fault
    /\ mgr' = [mgr EXCEPT ![r] = "draining"]
    /\ UNCHANGED <<holder, epoch, lease, last, writer>>

\* leaseWG.Wait has returned.
endTerm(r) ==
    /\ mgr[r] = "draining"
    /\ mgr' = [mgr EXCEPT ![r] = "releasing"]
    /\ lease' = [lease EXCEPT ![r] = 0]
    /\ UNCHANGED <<holder, epoch, last, writer, faults>>

\* Deletes the holder if it is still r; the epoch stays.
ReleaseLease(r) ==
    /\ mgr[r] = "releasing"
    /\ holder' = IF holder = r THEN Nobody ELSE holder
    /\ mgr' = [mgr EXCEPT ![r] = "contend"]
    /\ UNCHANGED <<epoch, lease, last, writer, faults>>

ReleaseError(r) ==
    /\ mgr[r] = "releasing"
    /\ Fault
    /\ mgr' = [mgr EXCEPT ![r] = "contend"]
    /\ UNCHANGED <<holder, epoch, lease, last, writer>>

\* FencedRepository.ApplyFenced as its contract asks: accept what is not older than
\* the row has seen.
Accepted(e, n) == n >= last[e]

ApplyFenced(r, e, n) ==
    /\ Accepted(e, n)
    /\ last' = [last EXCEPT ![e] = n]
    /\ writer' = [writer EXCEPT ![e] = r]
    /\ UNCHANGED <<holder, epoch, mgr, lease, faults>>

ElectionInit ==
    /\ holder = Nobody
    /\ epoch = 0
    /\ mgr = [r \in Replicas |-> "contend"]
    /\ lease = [r \in Replicas |-> 0]
    /\ last = [e \in Entities |-> 0]
    /\ writer = [e \in Entities |-> Nobody]
    /\ faults = 0

Manage(r) ==
    \/ AcquireLease(r)
    \/ AcquireError(r)
    \/ LeaseLost(r)
    \/ RenewError(r)
    \/ endTerm(r)
    \/ ReleaseLease(r)
    \/ ReleaseError(r)

\* A term writes under the epoch of its lease, which the writer is given when a
\* Reconcile starts and which changes only after the term's workers have ended.
ElectionNext ==
    \/ Expire
    \/ \E r \in Replicas :
          \/ Manage(r)
          \/ \E e \in Entities : lease[r] # 0 /\ ApplyFenced(r, e, lease[r])

ElectionSpec == ElectionInit /\ [][ElectionNext]_electionVars

\* When the writes of one replica follow those of another on an entity, they carry a
\* strictly higher epoch: a leader that lost its lease and has not noticed can not
\* overwrite its successor, however the terms interleave (LeaseToken.Epoch,
\* FencedWriter.Write).
HandoverRaisesEpoch ==
    [][\A e \in Entities :
          writer[e] # Nobody /\ writer'[e] # writer[e] => last'[e] > last[e]]_electionVars
=============================================================================
