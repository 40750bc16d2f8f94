----------------------- MODULE ReconcileLoopProofs -----------------------
(* A handover of a lease raises the epoch (LeaderElection); the terms of a     *)
(* reconcile loop implement LeaderElection, so it raises the epoch of their    *)
(* writes too; and no entity is reconciled twice at once: for any replicas,    *)
(* entities, deployments and bounds.                                           *)
EXTENDS ReconcileLoop, TLAPS

(* LeaderElection by itself.                                                   *)

ElectionTypeOK ==
    /\ holder \in Replicas \cup {Nobody}
    /\ epoch \in Nat
    /\ mgr \in [Replicas -> {"contend", "active", "draining", "releasing"}]
    /\ lease \in [Replicas -> Nat]
    /\ last \in [Entities -> Nat]
    /\ writer \in [Entities -> Replicas \cup {Nobody}]

\* The epoch is the newest there is, and while the lease is held it is the holder's.
EpochIsNewest ==
    /\ \A r \in Replicas : lease[r] <= epoch
    /\ \A e \in Entities : last[e] <= epoch
    /\ holder # Nobody =>
          /\ \A s \in Replicas : s # holder => lease[s] < epoch
          /\ \A e \in Entities : writer[e] # holder => last[e] < epoch

\* No epoch is two replicas', whether they are in a term or have written under it.
EpochIsOnes ==
    /\ \A r, s \in Replicas : r # s /\ lease[r] # 0 => lease[r] # lease[s]
    /\ \A e \in Entities : \A s \in Replicas :
          s # writer[e] /\ lease[s] # 0 => last[e] # lease[s]

\* A lease that is held has an epoch.
HeldIsGranted == holder # Nobody => epoch > 0

ElectionInv == ElectionTypeOK /\ EpochIsNewest /\ EpochIsOnes /\ HeldIsGranted

\* No replica has led before the first acquires the lease.
LEMMA ElectionInitInv == ElectionInit => ElectionInv
  BY ElectionAssumption DEF ElectionInit, ElectionInv, ElectionTypeOK, EpochIsNewest,
     EpochIsOnes, HeldIsGranted

\* The store's side of an acquisition, whether or not its answer arrives.
LEMMA AcquireKeeps ==
  ASSUME ElectionInv, NEW r \in Replicas, holder \in {r, Nobody},
         holder' = r, epoch' = Granted(r), last' = last, writer' = writer,
         mgr' \in [Replicas -> {"contend", "active", "draining", "releasing"}],
         lease' = lease \/ lease' = [lease EXCEPT ![r] = Granted(r)]
  PROVE  ElectionInv'
<1>1. /\ Granted(r) \in Nat
      /\ epoch <= Granted(r)
      /\ \A s \in Replicas : s # r => lease[s] < Granted(r)
      /\ \A e \in Entities : writer[e] # r => last[e] < Granted(r)
  BY ElectionAssumption DEF ElectionInv, ElectionTypeOK, EpochIsNewest, Granted
<1>2. ElectionTypeOK'
  BY <1>1, Zenon DEF ElectionInv, ElectionTypeOK
<1>3. \A s \in Replicas : lease'[s] = lease[s] \/ (s = r /\ lease'[s] = Granted(r))
  BY Zenon DEF ElectionInv, ElectionTypeOK
<1>4. EpochIsNewest'
  BY <1>1, <1>2, <1>3, SMTT(30) DEF ElectionInv, ElectionTypeOK, EpochIsNewest
<1>5. EpochIsOnes'
  BY <1>1, <1>2, <1>3, SMTT(30) DEF ElectionInv, ElectionTypeOK, EpochIsOnes
<1>6. HeldIsGranted'
  BY DEF ElectionInv, ElectionTypeOK, Granted, HeldIsGranted
<1> QED
  BY <1>2, <1>4, <1>5, <1>6, Zenon DEF ElectionInv

\* Every step of the election keeps the invariant.
LEMMA ElectionNextInv == ElectionInv /\ [ElectionNext]_electionVars => ElectionInv'
<1> SUFFICES ASSUME ElectionInv, [ElectionNext]_electionVars
             PROVE  ElectionInv'
  OBVIOUS
<1> USE ElectionAssumption
<1>1. CASE Expire
  BY <1>1, Zenon DEF Expire, ElectionInv, ElectionTypeOK, EpochIsNewest, EpochIsOnes,
     HeldIsGranted
<1>2. ASSUME NEW r \in Replicas, AcquireLease(r)
      PROVE  ElectionInv'
  BY <1>2, AcquireKeeps, Zenon DEF AcquireLease, ElectionInv, ElectionTypeOK
<1>3. ASSUME NEW r \in Replicas, AcquireError(r)
      PROVE  ElectionInv'
  BY <1>3, AcquireKeeps, Zenon DEF AcquireError, ElectionInv, ElectionTypeOK
<1>4. ASSUME NEW r \in Replicas, LeaseLost(r) \/ RenewError(r) \/ ReleaseError(r)
      PROVE  ElectionInv'
  BY <1>4 DEF LeaseLost, RenewError, ReleaseError, ElectionInv, ElectionTypeOK,
     EpochIsNewest, EpochIsOnes, HeldIsGranted
<1>5. ASSUME NEW r \in Replicas, endTerm(r)
      PROVE  ElectionInv'
  <2>1. ElectionTypeOK' /\ \A s \in Replicas : lease'[s] = IF s = r THEN 0 ELSE lease[s]
    BY <1>5, Zenon DEF endTerm, ElectionInv, ElectionTypeOK
  <2>2. epoch > 0 \/ \A s \in Replicas : lease[s] = 0
    BY DEF ElectionInv, ElectionTypeOK, EpochIsNewest
  <2>3. EpochIsNewest'
    BY <1>5, <2>1, <2>2, SMTT(30) DEF endTerm, ElectionInv, ElectionTypeOK, EpochIsNewest
  <2>4. EpochIsOnes'
    BY <1>5, <2>1, SMTT(30) DEF endTerm, ElectionInv, ElectionTypeOK, EpochIsOnes
  <2> QED
    BY <1>5, <2>1, <2>3, <2>4, Zenon DEF ElectionInv, HeldIsGranted, endTerm
<1>6. ASSUME NEW r \in Replicas, ReleaseLease(r)
      PROVE  ElectionInv'
  BY <1>6, Zenon DEF ReleaseLease, ElectionInv, ElectionTypeOK, EpochIsNewest, EpochIsOnes,
     HeldIsGranted
<1>7. ASSUME NEW r \in Replicas, NEW e \in Entities, lease[r] # 0,
             ApplyFenced(r, e, lease[r])
      PROVE  ElectionInv'
  <2>1. ElectionTypeOK'
    BY <1>7, Zenon DEF ApplyFenced, ElectionInv, ElectionTypeOK
  <2>2. \A f \in Entities : \/ f = e /\ last'[f] = lease[r] /\ writer'[f] = r
                            \/ last'[f] = last[f] /\ writer'[f] = writer[f]
    BY <1>7, Zenon DEF ApplyFenced, ElectionInv, ElectionTypeOK
  <2>3. EpochIsNewest'
    BY <1>7, <2>1, <2>2, Zenon DEF ApplyFenced, ElectionInv, ElectionTypeOK, EpochIsNewest
  <2>4. EpochIsOnes'
    BY <1>7, <2>1, <2>2, SMTT(30) DEF ApplyFenced, ElectionInv, ElectionTypeOK, EpochIsOnes
  <2> QED
    BY <1>7, <2>1, <2>3, <2>4, Zenon DEF ElectionInv, HeldIsGranted, ApplyFenced
<1>8. CASE UNCHANGED electionVars
  BY <1>8, Zenon DEF electionVars, ElectionInv, ElectionTypeOK, EpochIsNewest, EpochIsOnes,
     HeldIsGranted
<1> QED
  BY <1>1, <1>2, <1>3, <1>4, <1>5, <1>6, <1>7, <1>8, Zenon DEF ElectionNext, Manage

\* Epochs are never shared and never behind what has been written.
THEOREM ElectionInvariant == ElectionSpec => []ElectionInv
  BY ElectionInitInv, ElectionNextInv, PTL DEF ElectionSpec

\* A write by another replica than the last one carries a higher epoch: of two leaders
\* of an entity the later is never overwritten by the earlier.
THEOREM ElectionRaisesEpoch == ElectionSpec => HandoverRaisesEpoch
<1>1. ElectionInv /\ [ElectionNext]_electionVars =>
        [\A e \in Entities :
            writer[e] # Nobody /\ writer'[e] # writer[e] => last'[e] > last[e]]_electionVars
  <2> SUFFICES ASSUME ElectionInv, ElectionNext, NEW e \in Entities,
                      writer[e] # Nobody, writer'[e] # writer[e]
               PROVE  last'[e] > last[e]
    OBVIOUS
  <2>1. PICK r \in Replicas, f \in Entities : lease[r] # 0 /\ ApplyFenced(r, f, lease[r])
    BY Zenon DEF ElectionNext, Manage, Expire, AcquireLease, AcquireError, LeaseLost, RenewError,
       endTerm, ReleaseLease, ReleaseError
  <2>2. f = e /\ writer'[e] = r /\ last'[e] = lease[r] /\ lease[r] >= last[e]
    BY <2>1, Zenon DEF ApplyFenced, Accepted, ElectionInv, ElectionTypeOK
  <2> QED
    BY <2>1, <2>2 DEF ElectionInv, ElectionTypeOK, EpochIsOnes
<1> QED
  BY <1>1, ElectionInvariant, PTL DEF ElectionSpec, HandoverRaisesEpoch

----------------------------------------------------------------------------
(* The terms of a loop.                                                        *)

\* A worker's record differs with what the worker does: only the shape of wk is fixed.
WkShape == wk = [r \in Replicas |-> [w \in Workers |-> wk[r][w]]]

LoopTypeOK ==
    /\ deploy \in Deployments
    /\ source \in [Replicas -> Seq(Entities)]
    /\ queue \in [Replicas -> Seq(Entities)]
    /\ addCh \in [Replicas -> Seq(Entities)]
    /\ waiting \in [Replicas -> SUBSET Entities]
    /\ hand \in [Replicas -> Entities \cup {None}]
    /\ processing \in [Replicas -> SUBSET Entities]

BusyStates == {"run", "returned", "dispatched"}

\* What may be said of worker w of r by itself: it works inside a term only, a run has
\* the epoch of its term, and the entity it is busy with is being processed.
WorkerOK(r, w) ==
    /\ ~Running(r) => wk[r][w] = Idle
    /\ wk[r][w].at = "run" => wk[r][w].fence = lease[r]
    /\ wk[r][w].at \in BusyStates => wk[r][w].e \in processing[r]
    /\ wk[r][w].at = "rerun" => wk[r][w].e \in Entities

RunsInTerm ==
    \A r \in Replicas :
        /\ Running(r) => lease[r] # 0
        /\ \A w \in Workers : WorkerOK(r, w)

LoopInv == ElectionInv /\ WkShape /\ LoopTypeOK /\ RunsInTerm /\ OneRunPerEntity

\* The first term has not begun.
LEMMA LoopInitInv == Init => LoopInv
<1> SUFFICES ASSUME Init PROVE LoopInv
  OBVIOUS
<1>1. ElectionInv
  BY ElectionInitInv, Zenon DEF Init
<1>2. WkShape /\ \A r \in Replicas : \A w \in Workers : wk[r][w] = Idle
  BY Zenon DEF Init, WkShape
<1>3. LoopTypeOK
  BY DEF Init, LoopTypeOK
<1>4. RunsInTerm
  BY <1>2, Zenon DEF Init, ElectionInit, RunsInTerm, WorkerOK, Running, Idle, BusyStates
<1>5. OneRunPerEntity
  BY <1>2 DEF OneRunPerEntity, Idle
<1> QED
  BY <1>1, <1>2, <1>3, <1>4, <1>5, Zenon DEF LoopInv

\* Worker w of r goes on to x, and the election and the deployment stay as they are.
Becomes(r, w, x) == wk' = [wk EXCEPT ![r][w] = x] /\ UNCHANGED <<deploy, mgr, lease>>

\* A step of a worker that the election does not see keeps what is said of the workers
\* if it does so for that worker, and if that worker starts no second run.
LEMMA WorkerKeeps ==
  ASSUME LoopInv, NEW r \in Replicas, NEW w \in Workers, NEW x,
         Becomes(r, w, x), Running(r),
         x.at = "run" => x.fence = lease[r],
         x.at \in BusyStates => x.e \in processing'[r],
         x.at = "rerun" => x.e \in Entities,
         \A s \in Replicas : \A v \in Workers :
            (s # r \/ v # w) /\ wk[s][v].at \in BusyStates =>
               /\ wk[s][v].e \in processing'[s]
               /\ s = r /\ x.at \in BusyStates => wk[s][v].e # x.e
  PROVE  WkShape' /\ RunsInTerm' /\ OneRunPerEntity'
<1>1. WkShape' /\ \A s \in Replicas : \A v \in Workers' :
         wk'[s][v] = IF s = r /\ v = w THEN x ELSE wk[s][v]
  <2>1. \A s \in Replicas : wk[s] = [v \in Workers |-> wk[s][v]]
    BY Zenon DEF LoopInv, WkShape
  <2>2. wk' = [s \in Replicas |-> IF s = r THEN [wk[r] EXCEPT ![w] = x] ELSE wk[s]]
    BY Zenon DEF LoopInv, WkShape, Becomes
  <2>3. [wk[r] EXCEPT ![w] = x] = [v \in Workers |-> IF v = w THEN x ELSE wk[r][v]]
    BY <2>1, Zenon
  <2>4. wk' = [s \in Replicas |->
                  [v \in Workers |-> IF s = r /\ v = w THEN x ELSE wk[s][v]]]
    <3>1. \A s \in Replicas :
             (IF s = r THEN [wk[r] EXCEPT ![w] = x] ELSE wk[s])
               = [v \in Workers |-> IF s = r /\ v = w THEN x ELSE wk[s][v]]
      BY <2>1, <2>3, Zenon
    <3> QED
      BY <2>2, <3>1, Zenon
  <2>5. Workers' = Workers
    BY Zenon DEF Workers, Becomes
  <2>6. \A s \in Replicas : \A v \in Workers' :
           wk'[s][v] = IF s = r /\ v = w THEN x ELSE wk[s][v]
    BY <2>4, <2>5, SMTT(30)
  <2> QED
    BY <2>4, <2>5, <2>6, SMTT(30) DEF WkShape
<1>2. Workers' = Workers /\ lease' = lease /\ \A s \in Replicas : Running(s)' = Running(s)
  BY Zenon DEF Workers, Running, Becomes
<1>3. ASSUME NEW s \in Replicas, NEW v \in Workers
      PROVE  WorkerOK(s, v)'
  <2>1. CASE s = r /\ v = w
    BY <1>1, <1>2, <2>1, SMTT(30) DEF WorkerOK
  <2>2. CASE s # r \/ v # w
    BY <1>1, <1>2, <2>2, SMTT(30) DEF LoopInv, RunsInTerm, WorkerOK
  <2> QED
    BY <2>1, <2>2, SMTT(30)
<1>4. RunsInTerm'
  BY <1>2, <1>3, SMTT(30) DEF LoopInv, RunsInTerm
<1>5. OneRunPerEntity'
  BY <1>1, <1>2, SMTT(30) DEF LoopInv, OneRunPerEntity, BusyStates
<1> QED
  BY <1>1, <1>4, <1>5, SMTT(30)

\* A step that no worker takes part in and that begins and ends no term.
LEMMA IdleKeeps ==
  ASSUME LoopInv, UNCHANGED <<deploy, lease, wk, processing>>,
         \A r \in Replicas : Running(r)' = Running(r)
  PROVE  WkShape' /\ RunsInTerm' /\ OneRunPerEntity'
<1>1. Workers' = Workers
  BY Zenon DEF Workers
<1> QED
  BY <1>1, SMTT(30) DEF LoopInv, WkShape, RunsInTerm, WorkerOK, OneRunPerEntity

\* Heads and tails of the channels are entities and channels.
LEMMA ChannelType ==
  ASSUME NEW s \in Seq(Entities)
  PROVE  /\ \A e \in Entities : Append(s, e) \in Seq(Entities)
         /\ s # << >> => Head(s) \in Entities /\ Tail(s) \in Seq(Entities)
  OBVIOUS

\* A send to the delaying queue leaves addCh a channel of entities.
LEMMA DelayedType ==
  ASSUME LoopInv, NEW r \in Replicas, NEW e \in Entities, enqueueDelayed(r, e)
  PROVE  addCh' \in [Replicas -> Seq(Entities)]
<1>1. CASE UNCHANGED addCh
  BY <1>1, Zenon DEF LoopInv, LoopTypeOK
<1>2. CASE addCh' = [addCh EXCEPT ![r] = Append(@, e)]
  BY <1>2, ChannelType, SMTT(30) DEF LoopInv, LoopTypeOK
<1> QED
  BY <1>1, <1>2, SMTT(30) DEF enqueueDelayed

\* Where each step of the loop leaves the lease and the epochs.
LEMMA ElectionStep ==
  ASSUME LoopInv, [Next]_vars
  PROVE  [ElectionNext]_electionVars
<1>1. CASE UNCHANGED vars
  BY <1>1, Zenon DEF vars
<1>2. CASE Expire /\ UNCHANGED <<deploy, loopVars>>
  BY <1>2, Zenon DEF ElectionNext
<1>3. ASSUME NEW r \in Replicas, NEW w \in Workers, Write(r, w)
      PROVE  [ElectionNext]_electionVars
  <2>1. wk[r][w].at = "run" /\ Running(r)
    BY <1>3, SMTT(30) DEF Write, LoopInv, RunsInTerm, WorkerOK, Idle
  <2>2. wk[r][w].e \in Entities /\ wk[r][w].fence = lease[r] /\ lease[r] # 0
    BY <2>1, Zenon DEF LoopInv, LoopTypeOK, RunsInTerm, WorkerOK, BusyStates
  <2>3. CASE ApplyFenced(r, wk[r][w].e, wk[r][w].fence)
    BY <2>2, <2>3, Zenon DEF ElectionNext
  <2>4. CASE UNCHANGED electionVars
    BY <2>4, Zenon
  <2> QED
    BY <1>3, <2>3, <2>4, SMTT(30) DEF Write
<1>4. ASSUME NEW r \in Replicas,
             StartTerm(r) \/ EndTerm(r) \/ Elect(r)
      PROVE  [ElectionNext]_electionVars
  BY <1>4, Zenon DEF StartTerm, EndTerm, Elect, ElectionNext, Manage
<1>5. ASSUME NEW r \in Replicas,
             \/ \E e \in deploy.entities : Trigger(r, e)
             \/ feedFromSource(r)
             \/ Wait(r)
             \/ \E w \in Workers : Work(r, w)
      PROVE  UNCHANGED electionVars
  BY <1>5, Zenon DEF Trigger, feedFromSource, Wait, addOrMergeWaiting, cancelPending, popReady,
     pushReady, Work, Take, Reconcile, dispatch, finish, rerunDirty
<1>6. deploy.replicas \subseteq Replicas
  BY LoopAssumption, Zenon DEF LoopInv, LoopTypeOK
<1> QED
  BY <1>1, <1>2, <1>3, <1>4, <1>5, <1>6, SMTT(30) DEF Next

\* The steps of the source and of the delaying queue move entities about.
LEMMA QueueTypes ==
  ASSUME LoopInv, NEW r \in Replicas,
         \/ \E e \in deploy.entities : Trigger(r, e)
         \/ feedFromSource(r)
         \/ Wait(r)
  PROVE  LoopTypeOK'
<1> USE DEF LoopInv, LoopTypeOK
<1>0. deploy.entities \subseteq Entities
  BY LoopAssumption, Zenon
<1>1. ASSUME NEW e \in deploy.entities, Trigger(r, e)
      PROVE  LoopTypeOK'
  BY <1>0, <1>1, ChannelType, SMTT(30) DEF Trigger
<1>2. CASE feedFromSource(r)
  BY <1>2, ChannelType, SMTT(30) DEF feedFromSource
<1>3. CASE addOrMergeWaiting(r)
  BY <1>3, ChannelType, Zenon DEF addOrMergeWaiting
<1>4. CASE cancelPending(r)
  BY <1>4, Zenon DEF cancelPending
<1>5. ASSUME NEW e \in deploy.entities, popReady(r, e)
      PROVE  LoopTypeOK'
  <2>1. UNCHANGED <<deploy, source, addCh, processing>>
        /\ waiting' \in [Replicas -> SUBSET Entities]
    BY <1>5, Zenon DEF popReady
  <2>2. CASE queue' = [queue EXCEPT ![r] = Append(@, e)] /\ UNCHANGED hand
    BY <1>0, <2>1, <2>2, ChannelType, SMTT(30)
  <2>3. CASE hand' = [hand EXCEPT ![r] = e] /\ UNCHANGED queue
    BY <1>0, <2>1, <2>3, SMTT(30)
  <2> QED
    BY <1>5, <2>2, <2>3, SMTT(30) DEF popReady
<1>6. CASE pushReady(r)
  BY <1>6, ChannelType, Zenon DEF pushReady
<1> QED
  BY <1>1, <1>2, <1>3, <1>4, <1>5, <1>6, SMTT(30) DEF Wait

\* They keep the rest, and so does what the manager does between or within terms.
LEMMA QueueKeeps ==
  ASSUME LoopInv, NEW r \in Replicas,
         \/ \E e \in deploy.entities : Trigger(r, e)
         \/ feedFromSource(r)
         \/ Wait(r)
         \/ Elect(r)
         \/ Expire /\ UNCHANGED <<deploy, loopVars>>
  PROVE  LoopTypeOK' /\ WkShape' /\ RunsInTerm' /\ OneRunPerEntity'
<1>1. LoopTypeOK'
  <2>1. CASE Elect(r) \/ (Expire /\ UNCHANGED <<deploy, loopVars>>)
    BY <2>1, Zenon DEF Elect, loopVars, LoopInv, LoopTypeOK
  <2> QED
    BY <2>1, QueueTypes, Zenon
<1>2. UNCHANGED <<deploy, lease, wk, processing>>
  BY SMTT(30) DEF Trigger, feedFromSource, Wait, addOrMergeWaiting, cancelPending, popReady,
     pushReady, Elect, AcquireError, LeaseLost, RenewError, ReleaseLease, ReleaseError,
     Expire, loopVars, electionVars
<1>3. \A s \in Replicas : Running(s)' = Running(s)
  BY SMTT(30) DEF Trigger, feedFromSource, Wait, addOrMergeWaiting, cancelPending, popReady,
     pushReady, Elect, AcquireError, LeaseLost, RenewError, ReleaseLease, ReleaseError,
     Expire, electionVars, Running, LoopInv, ElectionInv, ElectionTypeOK
<1> QED
  BY <1>1, <1>2, <1>3, IdleKeeps, SMTT(30)

\* A term begins with no worker at work and ends when none is left.
LEMMA TermKeeps ==
  ASSUME LoopInv, NEW r \in Replicas, StartTerm(r) \/ EndTerm(r)
  PROVE  LoopTypeOK' /\ WkShape' /\ RunsInTerm' /\ OneRunPerEntity'
<1>1. LoopTypeOK'
  <2>1. CASE StartTerm(r)
    BY <2>1, SMTT(30) DEF StartTerm, LoopInv, LoopTypeOK
  <2>2. CASE EndTerm(r)
    <3>1. source' \in [Replicas -> Seq(Entities)]
      <4>1. CASE UNCHANGED source
        BY <4>1, Zenon DEF LoopInv, LoopTypeOK
      <4>2. CASE source[r] # << >> /\ source' = [source EXCEPT ![r] = Tail(@)]
        BY <4>2, ChannelType, SMTT(30) DEF LoopInv, LoopTypeOK
      <4> QED
        BY <2>2, <4>1, <4>2, SMTT(30) DEF EndTerm
    <3> QED
      BY <2>2, <3>1, SMTT(30) DEF EndTerm, LoopInv, LoopTypeOK
  <2> QED
    BY <2>1, <2>2, SMTT(30)
<1>2. UNCHANGED <<deploy, wk>> /\ Workers' = Workers
  BY Zenon DEF StartTerm, EndTerm, Workers
<1>3. \A w \in Workers : wk[r][w] = Idle
  <2>1. CASE StartTerm(r)
    BY <2>1, Zenon DEF StartTerm, AcquireLease, LoopInv, RunsInTerm, WorkerOK, Running
  <2>2. CASE EndTerm(r)
    BY <2>2, SMTT(30) DEF EndTerm, Quiet
  <2> QED
    BY <2>1, <2>2, SMTT(30)
<1>4. \A s \in Replicas : s # r => /\ mgr'[s] = mgr[s] /\ lease'[s] = lease[s]
                                   /\ processing'[s] = processing[s]
  BY Zenon DEF StartTerm, EndTerm, AcquireLease, endTerm, LoopInv, ElectionInv, ElectionTypeOK,
     LoopTypeOK
<1>5. Running(r)' => lease'[r] # 0
  <2>1. CASE StartTerm(r)
    <3>1. lease'[r] = Granted(r) /\ epoch \in Nat
      BY <2>1, Zenon DEF StartTerm, AcquireLease, LoopInv, ElectionInv, ElectionTypeOK
    <3>2. holder = r => epoch > 0
      BY ElectionAssumption, Zenon DEF LoopInv, ElectionInv, HeldIsGranted
    <3> QED
      BY <3>1, <3>2, SMTT(30) DEF Granted
  <2>2. CASE EndTerm(r)
    BY <2>2, Zenon DEF EndTerm, endTerm, Running, LoopInv, ElectionInv, ElectionTypeOK
  <2> QED
    BY <2>1, <2>2, Zenon
<1>6. RunsInTerm'
  BY <1>2, <1>3, <1>4, <1>5, SMTT(30) DEF LoopInv, RunsInTerm, WorkerOK, Running, Idle, BusyStates
<1>7. WkShape' /\ OneRunPerEntity'
  BY <1>2, Zenon DEF LoopInv, WkShape, OneRunPerEntity
<1> QED
  BY <1>1, <1>6, <1>7, SMTT(30)

\* A worker takes a request: it begins a run, or marks the entity dirty.
LEMMA TakeKeeps ==
  ASSUME LoopInv, NEW r \in Replicas, NEW w \in Workers, Take(r, w)
  PROVE  LoopTypeOK' /\ WkShape' /\ RunsInTerm' /\ OneRunPerEntity'
<1> DEFINE e == Head(queue[r])
<1>1. /\ e \in Entities /\ Running(r)
      /\ queue' \in [Replicas -> Seq(Entities)]
      /\ UNCHANGED <<electionVars, deploy, source, addCh, waiting, hand>>
  BY ChannelType, Zenon DEF Take, LoopInv, LoopTypeOK
<1>2. CASE e \in processing[r]
  <2>1. UNCHANGED <<deploy, lease, mgr, wk, processing>>
    BY <1>1, <1>2, Zenon DEF Take, electionVars
  <2>2. WkShape' /\ RunsInTerm' /\ OneRunPerEntity'
    BY <2>1, IdleKeeps, Zenon DEF Running
  <2> QED
    BY <1>1, <2>1, <2>2, SMTT(30) DEF LoopInv, LoopTypeOK
<1>3. CASE e \notin processing[r]
  <2> DEFINE x == [at |-> "run", e |-> e, fence |-> lease[r]]
  <2>1. wk' = [wk EXCEPT ![r][w] = x]
        /\ processing' = [processing EXCEPT ![r] = @ \cup {e}]
    BY <1>3, SMTT(30) DEF Take
  <2>2. LoopTypeOK'
    BY <1>1, <2>1, SMTT(30) DEF LoopInv, LoopTypeOK
  <2>3. \A s \in Replicas : processing[s] \subseteq processing'[s]
        /\ e \in processing'[r]
    BY <2>1, SMTT(30) DEF LoopInv, LoopTypeOK
  <2>4. ASSUME NEW s \in Replicas, NEW v \in Workers, wk[s][v].at \in BusyStates
        PROVE  wk[s][v].e \in processing'[s] /\ (s = r => wk[s][v].e # e)
    BY <1>3, <2>3, <2>4, SMTT(30) DEF LoopInv, RunsInTerm, WorkerOK
  <2>5. Becomes(r, w, x)
    BY <1>1, <2>1, SMTT(30) DEF electionVars, Becomes
  <2>6. x.at = "run" /\ x.e = e /\ x.fence = lease[r] /\ x.at # "rerun"
    BY SMTT(30)
  <2> HIDE DEF x, e
  <2> QED
    BY <1>1, <2>2, <2>3, <2>4, <2>5, <2>6, WorkerKeeps, SMTT(30)
<1> QED
  BY <1>2, <1>3, Zenon

\* A worker goes on with the entity it is busy with.
LEMMA GoOnKeeps ==
  ASSUME LoopInv, NEW r \in Replicas, NEW w \in Workers, NEW x,
         wk[r][w].at \in BusyStates,
         Becomes(r, w, x), processing' = processing,
         x.at \in {"returned", "dispatched"}, x.e = wk[r][w].e
  PROVE  WkShape' /\ RunsInTerm' /\ OneRunPerEntity'
<1>1. Running(r)
  BY DEF LoopInv, RunsInTerm, WorkerOK, Idle, BusyStates
<1>2. x.e \in processing[r] /\ x.at # "run" /\ x.at # "rerun"
  BY Zenon DEF LoopInv, RunsInTerm, WorkerOK
<1>3. ASSUME NEW s \in Replicas, NEW v \in Workers, s # r \/ v # w,
             wk[s][v].at \in BusyStates
      PROVE  wk[s][v].e \in processing[s] /\ (s = r => wk[s][v].e # x.e)
  BY <1>3, Zenon DEF LoopInv, RunsInTerm, WorkerOK, OneRunPerEntity, BusyStates
<1> QED
  BY <1>1, <1>2, <1>3, WorkerKeeps, SMTT(30)

\* A run, its end and the routing of its outcome.
LEMMA RunKeeps ==
  ASSUME LoopInv, NEW r \in Replicas, NEW w \in Workers,
         \/ Write(r, w)
         \/ \E res \in deploy.results : Reconcile(r, w, res)
         \/ dispatch(r, w)
  PROVE  LoopTypeOK' /\ WkShape' /\ RunsInTerm' /\ OneRunPerEntity'
<1> USE DEF BusyStates
<1>1. ASSUME Write(r, w)
      PROVE  LoopTypeOK' /\ WkShape' /\ RunsInTerm' /\ OneRunPerEntity'
  <2>1. LoopTypeOK' /\ UNCHANGED <<deploy, mgr, lease, processing>>
    BY <1>1, Zenon DEF Write, ApplyFenced, electionVars, LoopInv, LoopTypeOK
  <2>2. CASE UNCHANGED wk
    BY <2>1, <2>2, IdleKeeps, SMTT(30) DEF Running
  <2>3. CASE wk' = [wk EXCEPT ![r][w] = Returned(@.e, "permanent")]
    <3> DEFINE x == Returned(wk[r][w].e, "permanent")
    <3>1. Becomes(r, w, x) /\ x.at = "returned" /\ x.e = wk[r][w].e
      BY <2>1, <2>3, Zenon DEF Returned, Becomes
    <3> HIDE DEF x
    <3> QED
      BY <1>1, <2>1, <3>1, GoOnKeeps, SMTT(30) DEF Write
  <2> QED
    BY <1>1, <2>2, <2>3, SMTT(30) DEF Write
<1>2. ASSUME NEW res \in deploy.results, Reconcile(r, w, res)
      PROVE  LoopTypeOK' /\ WkShape' /\ RunsInTerm' /\ OneRunPerEntity'
  <2>1. LoopTypeOK' /\ UNCHANGED <<deploy, mgr, lease, processing>>
    BY <1>2, Zenon DEF Reconcile, electionVars, LoopInv, LoopTypeOK
  <2> DEFINE x == Returned(wk[r][w].e, res)
  <2>2. Becomes(r, w, x) /\ x.at = "returned" /\ x.e = wk[r][w].e
    BY <1>2, <2>1, Zenon DEF Reconcile, Returned, Becomes
  <2> HIDE DEF x
  <2> QED
    BY <1>2, <2>1, <2>2, GoOnKeeps, SMTT(30) DEF Reconcile
<1>3. ASSUME dispatch(r, w)
      PROVE  LoopTypeOK' /\ WkShape' /\ RunsInTerm' /\ OneRunPerEntity'
  <2>1. UNCHANGED <<deploy, mgr, lease, processing, source, queue, waiting, hand>>
        /\ wk[r][w].at = "returned"
    BY <1>3, Zenon DEF dispatch, electionVars
  <2>2. wk[r][w].e \in Entities
    BY <2>1, Zenon DEF LoopInv, LoopTypeOK, RunsInTerm, WorkerOK
  <2>3. addCh' \in [Replicas -> Seq(Entities)]
    <3>1. CASE UNCHANGED addCh
      BY <3>1, Zenon DEF LoopInv, LoopTypeOK
    <3>2. CASE enqueueDelayed(r, wk[r][w].e)
      BY <2>2, <3>2, DelayedType, SMTT(30)
    <3> QED
      BY <1>3, <3>1, <3>2, SMTT(30) DEF dispatch
  <2> DEFINE x == [at |-> "dispatched", e |-> wk[r][w].e, res |-> wk[r][w].res]
  <2>4. Becomes(r, w, x) /\ x.at = "dispatched" /\ x.e = wk[r][w].e
    BY <1>3, <2>1, Zenon DEF dispatch, Becomes
  <2> HIDE DEF x
  <2>5. LoopTypeOK'
    BY <2>1, <2>3, ZenonT(60) DEF LoopInv, LoopTypeOK
  <2> QED
    BY <2>1, <2>4, <2>5, GoOnKeeps, SMTT(30)
<1> QED
  BY <1>1, <1>2, <1>3, SMTT(30)

\* The end of a run frees the entity, which no other worker is busy with.
LEMMA FinishKeeps ==
  ASSUME LoopInv, NEW r \in Replicas, NEW w \in Workers, finish(r, w)
  PROVE  LoopTypeOK' /\ WkShape' /\ RunsInTerm' /\ OneRunPerEntity'
<1> DEFINE e == wk[r][w].e
           x == IF e \in dirty[r] /\ wk[r][w].res # "permanent"
                THEN [at |-> "rerun", e |-> e] ELSE Idle
<1>1. /\ wk[r][w].at = "dispatched"
      /\ Becomes(r, w, x)
      /\ processing' = [processing EXCEPT ![r] = @ \ {e}]
      /\ UNCHANGED <<deploy, source, queue, addCh, waiting, hand>>
  BY Zenon DEF finish, electionVars, Becomes
<1>2. Running(r) /\ e \in Entities
  BY <1>1 DEF LoopInv, LoopTypeOK, RunsInTerm, WorkerOK, Idle, BusyStates
<1>3. LoopTypeOK'
  BY <1>1, Zenon DEF LoopInv, LoopTypeOK
<1>4. ASSUME NEW s \in Replicas, NEW v \in Workers, s # r \/ v # w,
             wk[s][v].at \in BusyStates
      PROVE  wk[s][v].e \in processing'[s]
  <2>1. wk[s][v].e \in processing[s]
    BY <1>4, Zenon DEF LoopInv, RunsInTerm, WorkerOK
  <2>2. s = r => wk[s][v].e # e
    BY <1>1, <1>4, Zenon DEF LoopInv, OneRunPerEntity, BusyStates
  <2> QED
    BY <1>1, <2>1, <2>2, Zenon DEF LoopInv, LoopTypeOK
<1>5. x.at \notin BusyStates /\ x.at # "run" /\ (x.at = "rerun" => x.e = e)
  BY Zenon DEF Idle, BusyStates
<1> HIDE DEF x, e
<1> QED
  BY <1>1, <1>2, <1>3, <1>4, <1>5, WorkerKeeps, SMTT(30)

\* A coalesced request goes to the delaying queue.
LEMMA RerunKeeps ==
  ASSUME LoopInv, NEW r \in Replicas, NEW w \in Workers, rerunDirty(r, w)
  PROVE  LoopTypeOK' /\ WkShape' /\ RunsInTerm' /\ OneRunPerEntity'
<1>1. /\ wk[r][w].at = "rerun" /\ enqueueDelayed(r, wk[r][w].e)
      /\ Becomes(r, w, Idle)
      /\ UNCHANGED <<deploy, source, queue, waiting, hand, processing>>
  BY Zenon DEF rerunDirty, electionVars, Becomes
<1>2. Running(r) /\ wk[r][w].e \in Entities
  BY <1>1, SMTT(30) DEF LoopInv, RunsInTerm, WorkerOK, Idle
<1>3. LoopTypeOK'
  <2>1. addCh' \in [Replicas -> Seq(Entities)]
    BY <1>1, <1>2, DelayedType, Zenon
  <2> QED
    BY <1>1, <2>1, Zenon DEF LoopInv, LoopTypeOK
<1>4. \A s \in Replicas : \A v \in Workers :
         wk[s][v].at \in BusyStates => wk[s][v].e \in processing'[s]
  BY <1>1, SMTT(30) DEF LoopInv, RunsInTerm, WorkerOK
<1>5. Idle.at = "idle" /\ Idle.at \notin BusyStates /\ Idle.at # "rerun" /\ Idle.at # "run"
  BY Zenon DEF Idle, BusyStates
<1> QED
  BY <1>1, <1>2, <1>3, <1>4, <1>5, WorkerKeeps, SMTT(30)

\* Every step of the loop keeps the invariant.
LEMMA LoopNextInv == LoopInv /\ [Next]_vars => LoopInv'
<1> SUFFICES ASSUME LoopInv, [Next]_vars PROVE LoopInv'
  OBVIOUS
<1>1. ElectionInv'
  BY ElectionStep, ElectionNextInv, ZenonT(60) DEF LoopInv
<1>2. LoopTypeOK' /\ WkShape' /\ RunsInTerm' /\ OneRunPerEntity'
  <2>1. CASE UNCHANGED vars
    <3>1. UNCHANGED <<deploy, source, queue, addCh, waiting, hand, processing, lease, wk, mgr>>
      BY <2>1, SMTT(30) DEF vars, loopVars, electionVars
    <3> QED
      BY <3>1, IdleKeeps, SMTT(30) DEF LoopInv, LoopTypeOK, Running
  <2>2. CASE Expire /\ UNCHANGED <<deploy, loopVars>>
    <3>1. PICK r : r \in Replicas
      BY <2>2, Zenon DEF Expire, LoopInv, ElectionInv, ElectionTypeOK
    <3> QED
      BY <2>2, <3>1, QueueKeeps, Zenon
  <2>3. ASSUME NEW r \in deploy.replicas,
               \/ StartTerm(r)
               \/ EndTerm(r)
               \/ Elect(r)
               \/ \E e \in deploy.entities : Trigger(r, e)
               \/ feedFromSource(r)
               \/ Wait(r)
               \/ \E w \in Workers : Work(r, w) \/ Write(r, w)
        PROVE  LoopTypeOK' /\ WkShape' /\ RunsInTerm' /\ OneRunPerEntity'
    <3>1. r \in Replicas
      BY LoopAssumption, SMTT(30) DEF LoopInv, LoopTypeOK
    <3>2. CASE StartTerm(r) \/ EndTerm(r)
      BY <3>1, <3>2, TermKeeps, SMTT(30)
    <3>3. CASE \/ Elect(r)
               \/ \E e \in deploy.entities : Trigger(r, e)
               \/ feedFromSource(r)
               \/ Wait(r)
      BY <3>1, <3>3, QueueKeeps, SMTT(30)
    <3>4. ASSUME NEW w \in Workers, Work(r, w) \/ Write(r, w)
          PROVE  LoopTypeOK' /\ WkShape' /\ RunsInTerm' /\ OneRunPerEntity'
      BY <3>1, <3>4, TakeKeeps, RunKeeps, FinishKeeps, RerunKeeps, SMTT(30) DEF Work
    <3> QED
      BY <2>3, <3>2, <3>3, <3>4, SMTT(30)
  <2> QED
    BY <2>1, <2>2, <2>3, SMTT(30) DEF Next
<1> QED
  BY <1>1, <1>2, SMTT(30) DEF LoopInv

\* Workers, terms and epochs stay together in every reachable state of the loop.
THEOREM LoopInvariant == Spec => []LoopInv
  BY LoopInitInv, LoopNextInv, PTL DEF Spec

\* No two workers of a replica are ever busy with the same entity, over any number of
\* terms: the processing map that a new term replaces is empty by then.
THEOREM LoopRunsEntityOnce == Spec => []OneRunPerEntity
  BY LoopInvariant, PTL DEF LoopInv

\* The reconcile loops of the replicas, with all that goes on in their terms, implement
\* the election: they write under the epoch of a lease of theirs or not at all.
THEOREM LoopImplementsElection == Spec => ElectionSpec
<1>1. Init => ElectionInit
  BY Zenon DEF Init
<1>2. LoopInv /\ [Next]_vars => [ElectionNext]_electionVars
  BY ElectionStep, Zenon
<1> QED
  BY <1>1, <1>2, LoopInvariant, PTL DEF Spec, ElectionSpec

\* So a handover raises the epoch of the loops' writes.
THEOREM LoopRaisesEpoch == Spec => HandoverRaisesEpoch
  BY LoopImplementsElection, ElectionRaisesEpoch, Zenon

=============================================================================
