------------------------- MODULE OutboxRelayProofs -------------------------
(***************************************************************************)
(* Theorems about OutboxRelay, for any number of entries and relays and    *)
(* any attempt budget and batch sizes.                                     *)
(***************************************************************************)
EXTENDS OutboxRelay, FiniteSetTheorems, TLAPS

USE DEF NoLease

\* The types of the relays' own variables.
RelayTypeOK ==
    /\ batch \in [Relays -> SUBSET Entries]
    /\ held \in [Relays -> Nat]
    /\ snap \in [Relays -> [Entries -> Nat]]
    /\ outcome \in [Relays -> [Entries -> Outcomes]]
    /\ sent \in [Entries -> Nat]

\* The three statements over a set of rows keep the columns in their types.
LEMMA BatchStoreType ==
    ASSUME StoreTypeOK, NEW S, 
           \/ ClaimPending(S)
           \/ ReclaimStale(S)
           \/ \E s \in Statuses : Cleanup(s, S)
    PROVE  StoreTypeOK'
<1> USE DEF StoreTypeOK, Statuses, Update
<1>1. CASE ClaimPending(S)
  <2>1. status' \in [Entries -> Statuses] /\ attempts' \in [Entries -> Nat]
    BY <1>1, Zenon DEF ClaimPending
  <2>2. lease' \in [Entries -> Nat] /\ lastLease' \in Nat
    BY <1>1 DEF ClaimPending
  <2>3. elapsed' \in [Entries -> BOOLEAN]
    BY <1>1, Zenon DEF ClaimPending
  <2> QED
    BY <2>1, <2>2, <2>3, Zenon
<1>2. CASE ReclaimStale(S)
  <2>1. status' \in [Entries -> Statuses] /\ attempts' \in [Entries -> Nat]
    BY <1>2 DEF ReclaimStale
  <2>2. lease' \in [Entries -> Nat] /\ lastLease' \in Nat
    BY <1>2, Zenon DEF ReclaimStale
  <2>3. elapsed' \in [Entries -> BOOLEAN]
    BY <1>2, Zenon DEF ReclaimStale
  <2> QED
    BY <2>1, <2>2, <2>3, Zenon
<1>3. CASE \E s \in Statuses : Cleanup(s, S)
  BY <1>3, Zenon DEF Cleanup
<1> QED
  BY <1>1, <1>2, <1>3, Zenon

\* So do the statements over one row.
LEMMA RowStoreType ==
    ASSUME StoreTypeOK, NEW e \in Entries, NEW l \in Nat, NEW n \in Nat,
           \/ Write(e) \/ TimePasses(e)
           \/ MarkPublished(e, l) \/ MarkRetry(e, l, n) \/ MarkDead(e, l, n)
    PROVE  StoreTypeOK'
<1> USE DEF StoreTypeOK, Statuses
<1>1. CASE Write(e)
  BY <1>1, Zenon DEF Write
<1>2. CASE TimePasses(e)
  BY <1>2, Zenon DEF TimePasses
<1>3. CASE MarkPublished(e, l)
  BY <1>3, Zenon DEF MarkPublished, storeVars
<1>4. CASE MarkRetry(e, l, n)
  <2>1. CASE Fenced(e, l)
    <3>1. status' \in [Entries -> Statuses] /\ elapsed' \in [Entries -> BOOLEAN]
      BY <1>4, <2>1, Zenon DEF MarkRetry
    <3>2. attempts' \in [Entries -> Nat] /\ lastLease' \in Nat
      BY <1>4, <2>1, Zenon DEF MarkRetry
    <3>3. lease' \in [Entries -> Nat]
      BY <1>4, <2>1 DEF MarkRetry
    <3> QED
      BY <3>1, <3>2, <3>3, Zenon
  <2>2. CASE ~Fenced(e, l)
    BY <1>4, <2>2, Zenon DEF MarkRetry, storeVars
  <2> QED
    BY <2>1, <2>2, Zenon
<1>5. CASE MarkDead(e, l, n)
  BY <1>5, Zenon DEF MarkDead, storeVars
<1> QED
  BY <1>1, <1>2, <1>3, <1>4, <1>5, Zenon

\* A relay that forgets entries keeps its variables in their types.
LEMMA ForgetType ==
    ASSUME RelayTypeOK, NEW r \in Relays, NEW S \in SUBSET Entries, Forget(r, S), sent' = sent
    PROVE  RelayTypeOK'
<1> USE DEF RelayTypeOK, Outcomes, Forget
<1>1. batch' \in [Relays -> SUBSET Entries]
  OBVIOUS
<1>2. held' \in [Relays -> Nat]
  OBVIOUS
<1>3. snap' \in [Relays -> [Entries -> Nat]]
  OBVIOUS
<1>4. outcome' \in [Relays -> [Entries -> Outcomes]]
  OBVIOUS
<1> QED
  BY <1>1, <1>2, <1>3, <1>4, Zenon

\* What a write-back does to the table is one of the three Mark statements.
LEMMA WriteBackMarks ==
    ASSUME TypeOK, NEW r \in Relays, NEW e \in Entries, WriteBack(r, e)
    PROVE  /\ held[r] \in Nat /\ snap[r][e] + 1 \in Nat
           /\ \/ MarkPublished(e, held[r])
              \/ MarkRetry(e, held[r], snap[r][e] + 1)
              \/ MarkDead(e, held[r], snap[r][e] + 1)
BY DEF TypeOK, WriteBack, WriteBackOne

\* Every step keeps the variables in their types.
LEMMA TypeStep == TypeOK /\ [Next]_vars => TypeOK'
<1> SUFFICES ASSUME TypeOK, [Next]_vars PROVE TypeOK'
  OBVIOUS
<1>0. StoreTypeOK /\ RelayTypeOK
  BY Zenon DEF TypeOK, RelayTypeOK
<1>1. CASE UNCHANGED vars
  BY <1>1, Zenon DEF vars, storeVars, relayVars, TypeOK, StoreTypeOK
<1>2. CASE Next
  <2>1. StoreTypeOK' /\ RelayTypeOK'
    <3>1. ASSUME NEW e \in Entries, Produce(e) \/ Tick(e) PROVE StoreTypeOK' /\ RelayTypeOK'
      <4>1. StoreTypeOK'
        BY <1>0, <3>1, RowStoreType, Zenon DEF Produce, Tick
      <4> QED
        BY <1>0, <3>1, <4>1, Zenon DEF Produce, Tick, relayVars, RelayTypeOK
    <3>2. ASSUME NEW r \in Relays, NEW S \in SUBSET Eligible, Claim(r, S)
          PROVE  StoreTypeOK' /\ RelayTypeOK'
      <4>1. StoreTypeOK'
        BY <1>0, <3>2, BatchStoreType, Zenon DEF Claim
      <4>2. S \in SUBSET Entries /\ attempts \in [Entries -> Nat] /\ lastLease + 1 \in Nat
        BY <1>0 DEF Eligible, StoreTypeOK
      <4>3. batch' \in [Relays -> SUBSET Entries] /\ held' \in [Relays -> Nat]
        BY <1>0, <3>2, <4>2, Zenon DEF Claim, RelayTypeOK
      <4>4. snap' \in [Relays -> [Entries -> Nat]]
        BY <1>0, <3>2, <4>2, Zenon DEF Claim, RelayTypeOK
      <4> QED
        BY <1>0, <3>2, <4>1, <4>3, <4>4, Zenon DEF Claim, RelayTypeOK
    <3>3. ASSUME NEW r \in Relays, NEW e \in Entries, NEW out \in Outcomes, Publish(r, e, out)
          PROVE  StoreTypeOK' /\ RelayTypeOK'
      <4>1. StoreTypeOK'
        BY <1>0, <3>3, Zenon DEF Publish, storeVars, StoreTypeOK
      <4>2. outcome' \in [Relays -> [Entries -> Outcomes]]
        BY <1>0, <3>3, Zenon DEF Publish, RelayTypeOK
      <4>3. sent' \in [Entries -> Nat]
        <5>1. sent \in [Entries -> Nat] /\ sent[e] + 1 \in Nat
          BY <1>0 DEF RelayTypeOK
        <5> QED
          BY <3>3, <5>1, Zenon DEF Publish
      <4> QED
        BY <1>0, <3>3, <4>1, <4>2, <4>3, Zenon DEF Publish, RelayTypeOK
    <3>4. ASSUME NEW r \in Relays, NEW e \in Entries, WriteBack(r, e)
          PROVE  StoreTypeOK' /\ RelayTypeOK'
      <4>1. StoreTypeOK'
        BY <1>0, <3>4, WriteBackMarks, RowStoreType, Zenon
      <4>2. RelayTypeOK'
        BY <1>0, <3>4, ForgetType, Zenon DEF WriteBack
      <4> QED
        BY <4>1, <4>2, Zenon
    <3>5. ASSUME NEW r \in Relays, WriteBackError(r) \/ Crash(r)
          PROVE  StoreTypeOK' /\ RelayTypeOK'
      <4>1. batch[r] \in SUBSET Entries
        BY <1>0, Zenon DEF RelayTypeOK
      <4>2. RelayTypeOK'
        BY <1>0, <3>5, <4>1, ForgetType, Zenon DEF WriteBackError, Crash
      <4> QED
        BY <1>0, <3>5, <4>2, Zenon DEF WriteBackError, Crash, storeVars, StoreTypeOK
    <3>6. CASE Reclaim
      BY <1>0, <3>6, BatchStoreType, Zenon DEF Reclaim, relayVars, RelayTypeOK
    <3>7. CASE CleanupPublished \/ CleanupDead
      BY <1>0, <3>7, BatchStoreType, Zenon
      DEF CleanupPublished, CleanupDead, Statuses, relayVars, RelayTypeOK
    <3>8. CASE Drained
      BY <1>0, <3>8, Zenon DEF Drained, storeVars, relayVars, StoreTypeOK, RelayTypeOK
    <3> QED
      BY <1>2, <3>1, <3>2, <3>3, <3>4, <3>5, <3>6, <3>7, <3>8, Zenon DEF Next, Step, RelayStep
  <2>2. verdict' \in [Entries -> Verdicts]
    BY <1>2, Zenon DEF Next, RecordVerdict, TypeOK, Verdicts
  <2> QED
    BY <2>1, <2>2, Zenon DEF TypeOK, RelayTypeOK
<1> QED
  BY <1>1, <1>2, Zenon

\* The variables keep their types for ever.
THEOREM TypeCorrect == Spec => []TypeOK
<1>1. Init => TypeOK
  BY DEF Init, StoreInit, TypeOK, StoreTypeOK, Statuses, Outcomes, Verdicts
<1> QED
  BY <1>1, TypeStep, PTL DEF Spec

----------------------------------------------------------------------------
(* What one step can do to one row.                                        *)

Kept(e) == attempts'[e] = attempts[e] /\ lease'[e] = lease[e]

RowMove(e) ==
    \/ status'[e] = status[e] /\ Kept(e)
    \/ status[e] = "none" /\ status'[e] = "pending" /\ Kept(e)
    \/ /\ status[e] = "pending" /\ status'[e] = "claiming"
       /\ attempts'[e] = attempts[e]
       /\ lease'[e] = lastLease + 1 /\ lastLease' = lastLease + 1
    \/ /\ status[e] = "claiming" /\ status'[e] = "published" /\ Kept(e)
       /\ \E r \in Relays : outcome[r][e] = "ok"
    \/ /\ status[e] = "claiming" /\ status'[e] = "pending"
       /\ attempts'[e] = attempts[e] + 1 /\ ~Exhausted(attempts[e] + 1)
       /\ lease'[e] = NoLease
    \/ /\ status[e] = "claiming" /\ status'[e] = "dead"
       /\ attempts'[e] = attempts[e] + 1 /\ lease'[e] = lease[e]
       /\ Exhausted(attempts[e] + 1) \/ (\E r \in Relays : outcome[r][e] = "permanent")
    \/ status[e] \in {"published", "dead"} /\ status'[e] = "deleted" /\ Kept(e)

\* Every step moves every row along the state machine of kernel/outbox/state.go,
\* and pays for a failed claim.
LEMMA RowMoves ==
    ASSUME TypeOK, SnapshotCurrent, Step, NEW e \in Entries
    PROVE  RowMove(e) /\ lastLease' \in {lastLease, lastLease + 1}
<1> USE DEF RowMove, Kept
<1>1. ASSUME NEW f \in Entries, Produce(f) \/ Tick(f)
      PROVE  RowMove(e) /\ lastLease' \in {lastLease, lastLease + 1}
  BY <1>1, Zenon DEF Produce, Write, Tick, TimePasses, TypeOK, StoreTypeOK
<1>2. ASSUME NEW r \in Relays, NEW S \in SUBSET Eligible, Claim(r, S)
      PROVE  RowMove(e) /\ lastLease' \in {lastLease, lastLease + 1}
  BY <1>2, Zenon DEF Claim, ClaimPending, Update, Eligible
<1>3. ASSUME NEW r \in Relays, NEW f \in Entries, NEW out \in Outcomes, Publish(r, f, out)
      PROVE  RowMove(e) /\ lastLease' \in {lastLease, lastLease + 1}
  BY <1>3, Zenon DEF Publish, storeVars
<1>4. ASSUME NEW r \in Relays, NEW f \in Entries, WriteBack(r, f)
      PROVE  RowMove(e) /\ lastLease' \in {lastLease, lastLease + 1}
  <2>1. f \in batch[r] /\ WriteBackOne(r, f)
    BY <1>4, Zenon DEF WriteBack
  <2>2. Fenced(f, held[r]) => snap[r][f] = attempts[f]
    BY <2>1, Zenon DEF SnapshotCurrent
  <2>3. CASE MarkPublished(f, held[r]) /\ outcome[r][f] = "ok"
    BY <2>3, Zenon DEF MarkPublished, Fenced, storeVars, TypeOK, StoreTypeOK
  <2>4. CASE /\ MarkDead(f, held[r], snap[r][f] + 1)
             /\ outcome[r][f] = "permanent" \/ Exhausted(snap[r][f] + 1)
    BY <2>2, <2>4 DEF MarkDead, Fenced, storeVars, TypeOK, StoreTypeOK
  <2>5. CASE MarkRetry(f, held[r], snap[r][f] + 1) /\ ~Exhausted(snap[r][f] + 1)
    BY <2>2, <2>5 DEF MarkRetry, Fenced, storeVars, TypeOK, StoreTypeOK
  <2> QED
    BY <2>1, <2>3, <2>4, <2>5, Zenon DEF WriteBackOne
<1>5. ASSUME NEW r \in Relays, WriteBackError(r) \/ Crash(r)
      PROVE  RowMove(e) /\ lastLease' \in {lastLease, lastLease + 1}
  BY <1>5, Zenon DEF WriteBackError, Crash, storeVars
<1>6. CASE Reclaim
  BY <1>6 DEF Reclaim, ReclaimStale, Update, Stale
<1>7. CASE CleanupPublished \/ CleanupDead
  BY <1>7, Zenon DEF CleanupPublished, CleanupDead, Cleanup, Update
<1>8. CASE Drained
  BY <1>8, Zenon DEF Drained, storeVars
<1> QED
  BY <1>1, <1>2, <1>3, <1>4, <1>5, <1>6, <1>7, <1>8, Zenon DEF Step, RelayStep

----------------------------------------------------------------------------
(* What one step can do to what one relay knows of one entry.              *)

Knows(r, e) == <<held[r], snap[r][e]>>

RelayMove(r, e) ==
    \/ /\ e \in batch'[r] <=> e \in batch[r]
       /\ Knows(r, e)' = Knows(r, e)
       /\ outcome'[r][e] = outcome[r][e]
    \/ /\ batch[r] = {}
       /\ held'[r] = lastLease + 1 /\ lastLease' = lastLease + 1
       /\ e \in batch'[r] => /\ status[e] = "pending" /\ status'[e] = "claiming"
                             /\ snap'[r][e] = attempts[e]
       /\ outcome'[r][e] = outcome[r][e]
    \/ /\ e \in batch[r] /\ e \in batch'[r]
       /\ Knows(r, e)' = Knows(r, e)
       /\ outcome[r][e] = "none" /\ outcome'[r][e] # "none"
       /\ outcome'[r][e] = "ok" => sent'[e] > 0
       /\ outcome'[r][e] = "permanent" => e \in Unencodable
    \/ /\ e \notin batch'[r]
       /\ held'[r] \in {held[r], NoLease}
       /\ outcome'[r][e] \in {outcome[r][e], "none"}
       /\ e \in batch[r] => outcome'[r][e] = "none"

\* A relay that forgets entries moves in the first or the last way.
LEMMA ForgetMoves ==
    ASSUME TypeOK, NEW q \in Relays, NEW S \in SUBSET Entries, Forget(q, S),
           NEW r \in Relays, NEW e \in Entries
    PROVE  RelayMove(r, e)
<1> USE DEF TypeOK, Forget, RelayMove, Knows
<1>1. CASE r # q
  BY <1>1, Zenon
<1>2. CASE r = q /\ e \in S
  BY <1>2, Zenon
<1>3. CASE r = q /\ e \notin S
  <2>1. snap'[r][e] = snap[r][e] /\ outcome'[r][e] = outcome[r][e]
    BY <1>3, Zenon
  <2>2. e \in batch'[r] <=> e \in batch[r]
    BY <1>3, Zenon
  <2>3. e \in batch[r] => held'[r] = held[r]
    BY <1>3, Zenon
  <2>4. held'[r] \in {held[r], NoLease}
    BY <1>3, Zenon
  <2> QED
    BY <2>1, <2>2, <2>3, <2>4, Zenon
<1> QED
  BY <1>1, <1>2, <1>3, Zenon

\* Every step moves every relay in one of the four ways; the broker forgets
\* nothing.
LEMMA RelayMoves ==
    ASSUME TypeOK, Step, NEW r \in Relays, NEW e \in Entries
    PROVE  RelayMove(r, e) /\ sent'[e] >= sent[e]
<1>0. sent[e] \in Nat
  BY Zenon DEF TypeOK
<1>1. CASE UNCHANGED relayVars
  BY <1>0, <1>1 DEF relayVars, RelayMove, Knows
<1>2. ASSUME NEW q \in Relays, NEW S \in SUBSET Eligible, Claim(q, S)
      PROVE  RelayMove(r, e) /\ sent'[e] >= sent[e]
  <2>1. CASE r # q
    BY <1>0, <1>2, <2>1 DEF Claim, TypeOK, RelayMove, Knows
  <2>2. CASE r = q
    <3>1. batch'[r] = S /\ held'[r] = lastLease + 1 /\ lastLease' = lastLease + 1
      BY <1>2, <2>2, Zenon DEF Claim, ClaimPending, TypeOK
    <3>2. e \in S => snap'[r][e] = attempts[e]
      BY <1>2, <2>2, Zenon DEF Claim, TypeOK
    <3>3. e \in S => status[e] = "pending" /\ status'[e] = "claiming"
      BY <1>2, Zenon DEF Claim, ClaimPending, Update, Eligible
    <3> QED
      BY <1>0, <1>2, <2>2, <3>1, <3>2, <3>3 DEF Claim, RelayMove
  <2> QED
    BY <2>1, <2>2, Zenon
<1>3. ASSUME NEW q \in Relays, NEW f \in Entries, NEW out \in Outcomes, Publish(q, f, out)
      PROVE  RelayMove(r, e) /\ sent'[e] >= sent[e]
  <2>1. CASE r = q /\ e = f
    BY <1>0, <1>3, <2>1 DEF Publish, TypeOK, RelayMove, Knows
  <2>2. CASE ~(r = q /\ e = f)
    BY <1>0, <1>3, <2>2 DEF Publish, TypeOK, RelayMove, Knows
  <2> QED
    BY <2>1, <2>2, Zenon
<1>4. ASSUME NEW q \in Relays, NEW f \in Entries, WriteBack(q, f)
      PROVE  RelayMove(r, e) /\ sent'[e] >= sent[e]
  BY <1>0, <1>4, ForgetMoves DEF WriteBack
<1>5. ASSUME NEW q \in Relays, WriteBackError(q) \/ Crash(q)
      PROVE  RelayMove(r, e) /\ sent'[e] >= sent[e]
  <2>1. batch[q] \in SUBSET Entries
    BY Zenon DEF TypeOK
  <2> QED
    BY <1>0, <1>5, <2>1, ForgetMoves DEF WriteBackError, Crash
<1> QED
  BY <1>1, <1>2, <1>3, <1>4, <1>5, Zenon
  DEF Step, RelayStep, Produce, Tick, Reclaim, CleanupPublished, CleanupDead, Drained

\* A relay holds the lease it held, a fresh one, or none.
LEMMA LeaseMoves ==
    ASSUME TypeOK, Step
    PROVE  /\ lastLease' \in {lastLease, lastLease + 1}
           /\ \A r \in Relays : held'[r] \in {held[r], NoLease, lastLease'}
<1> USE DEF TypeOK
<1>1. CASE UNCHANGED <<lastLease, held>>
  BY <1>1, Zenon
<1>2. ASSUME NEW q \in Relays, NEW S \in SUBSET Eligible, Claim(q, S)
      PROVE  /\ lastLease' \in {lastLease, lastLease + 1}
             /\ \A r \in Relays : held'[r] \in {held[r], NoLease, lastLease'}
  BY <1>2, Zenon DEF Claim, ClaimPending
<1>3. ASSUME NEW q \in Relays, NEW f \in Entries, WriteBack(q, f)
      PROVE  /\ lastLease' = lastLease
             /\ \A r \in Relays : held'[r] \in {held[r], NoLease, lastLease'}
  BY <1>3, WriteBackMarks, Zenon
  DEF WriteBack, Forget, MarkPublished, MarkRetry, MarkDead, storeVars
<1>4. ASSUME NEW q \in Relays, WriteBackError(q) \/ Crash(q)
      PROVE  /\ lastLease' = lastLease
             /\ \A r \in Relays : held'[r] \in {held[r], NoLease, lastLease'}
  BY <1>4, Zenon DEF WriteBackError, Crash, Forget, storeVars
<1>5. CASE \/ \E e \in Entries : Produce(e) \/ Tick(e)
           \/ \E r \in Relays, e \in Entries, out \in Outcomes : Publish(r, e, out)
           \/ Reclaim \/ CleanupPublished \/ CleanupDead \/ Drained
  BY <1>5, <1>1, Zenon DEF Produce, Write, Tick, TimePasses, Publish, Reclaim, ReclaimStale,
     CleanupPublished, CleanupDead, Cleanup, Drained, Update, storeVars, relayVars
<1> QED
  BY <1>2, <1>3, <1>4, <1>5, Zenon DEF Step, RelayStep

----------------------------------------------------------------------------
(* The inductive invariant, all but its count of deliveries.               *)

RowInv == VerdictMatches /\ AttemptBudget /\ PublishedWasSent /\ DeadWasHopeless

FenceInv == LeasesMinted /\ SnapshotCurrent /\ ResultsTrue

\* A step keeps the fence: a relay's snapshot of a row it still holds is current.
LEMMA FenceStep ==
    ASSUME TypeOK, TypeOK', FenceInv, Step
    PROVE  FenceInv'
<1>0. lastLease \in Nat /\ lastLease' \in Nat /\ lastLease' >= lastLease
  BY LeaseMoves DEF TypeOK, StoreTypeOK
<1>1. LeasesMinted'
  <2>1. ASSUME NEW e \in Entries PROVE lease'[e] <= lastLease'
    <3>1. lease[e] <= lastLease /\ lease[e] \in Nat
      BY Zenon DEF FenceInv, LeasesMinted, TypeOK, StoreTypeOK
    <3> QED
      BY <1>0, <3>1, RowMoves DEF FenceInv, RowMove, Kept
  <2>2. ASSUME NEW r \in Relays PROVE held'[r] <= lastLease'
    <3>1. held[r] <= lastLease /\ held[r] \in Nat
      BY Zenon DEF FenceInv, LeasesMinted, TypeOK
    <3> QED
      BY <1>0, <3>1, LeaseMoves
  <2> QED
    BY <2>1, <2>2, Zenon DEF LeasesMinted
<1>2. SnapshotCurrent'
  <2> SUFFICES ASSUME NEW r \in Relays, NEW e \in batch'[r], status'[e] = "claiming",
                      lease'[e] = held'[r]
               PROVE  snap'[r][e] = attempts'[e]
    BY Zenon DEF SnapshotCurrent, Fenced
  <2>1. e \in Entries
    BY Zenon DEF TypeOK
  <2>2. held[r] \in Nat /\ held[r] <= lastLease
    BY Zenon DEF FenceInv, LeasesMinted, TypeOK
  <2>3. RowMove(e) /\ RelayMove(r, e)
    BY <2>1, RowMoves, RelayMoves, Zenon DEF FenceInv
  <2>4. CASE e \in batch[r] /\ Knows(r, e)' = Knows(r, e)
    <3>1. held'[r] = held[r] /\ snap'[r][e] = snap[r][e]
      BY <2>4, Zenon DEF Knows
    <3>2. status[e] = "claiming" /\ Kept(e)
      BY <1>0, <2>2, <2>3, <3>1 DEF RowMove
    <3> QED
      BY <2>4, <3>1, <3>2, Zenon DEF Kept, FenceInv, SnapshotCurrent, Fenced
  <2>5. CASE status[e] = "pending" /\ status'[e] = "claiming" /\ snap'[r][e] = attempts[e]
    BY <2>3, <2>5, Zenon DEF RowMove, Kept
  <2> QED
    BY <2>3, <2>4, <2>5, Zenon DEF RelayMove
<1>3. ResultsTrue'
  <2> SUFFICES ASSUME NEW r \in Relays, NEW e \in Entries
               PROVE  /\ e \in batch'[r] => status'[e] # "none"
                      /\ e \notin batch'[r] => outcome'[r][e] = "none"
                      /\ outcome'[r][e] = "ok" => sent'[e] > 0
                      /\ outcome'[r][e] = "permanent" => e \in Unencodable
    BY Zenon DEF ResultsTrue
  <2>1. RelayMove(r, e) /\ sent'[e] >= sent[e] /\ sent[e] \in Nat /\ sent'[e] \in Nat
    BY RelayMoves, Zenon DEF TypeOK
  <2>2. /\ e \in batch[r] => status[e] # "none"
        /\ e \notin batch[r] => outcome[r][e] = "none"
        /\ outcome[r][e] = "ok" => sent[e] > 0
        /\ outcome[r][e] = "permanent" => e \in Unencodable
    BY Zenon DEF FenceInv, ResultsTrue
  <2>3. status[e] # "none" => status'[e] # "none"
    BY RowMoves, Zenon DEF FenceInv, RowMove
  <2> QED
    BY <2>1, <2>2, <2>3 DEF RelayMove
<1> QED
  BY <1>1, <1>2, <1>3, Zenon DEF FenceInv

\* A step keeps what the rows and the verdicts say about each other.
LEMMA RowStep ==
    ASSUME TypeOK, TypeOK', FenceInv, RowInv, Next
    PROVE  RowInv'
<1> SUFFICES ASSUME NEW e \in Entries
             PROVE  /\ status'[e] \in {"none", "pending", "claiming"} => verdict'[e] = "open"
                    /\ status'[e] \in {"published", "dead"} => verdict'[e] = status'[e]
                    /\ status'[e] = "deleted" => verdict'[e] # "open"
                    /\ verdict'[e] = "published" => attempts'[e] < MaxAttempts
                    /\ attempts'[e] <= MaxAttempts
                    /\ status'[e] \in {"none", "pending", "claiming"} => attempts'[e] < MaxAttempts
                    /\ verdict'[e] = "published" => sent'[e] > 0
                    /\ verdict'[e] = "dead" => e \in Unencodable \/ attempts'[e] = MaxAttempts
  BY Zenon DEF RowInv, VerdictMatches, AttemptBudget, PublishedWasSent, DeadWasHopeless
<1>1. verdict'[e] = IF status'[e] \in {"published", "dead"} THEN status'[e] ELSE verdict[e]
  BY Zenon DEF Next, RecordVerdict
<1>2. RowMove(e)
  BY RowMoves, Zenon DEF FenceInv, Next
<1>3. attempts[e] \in Nat /\ MaxAttempts \in Nat /\ status[e] \in Statuses /\ sent[e] \in Nat
  BY StoreAssumption, Zenon DEF TypeOK, StoreTypeOK
<1>4. sent'[e] \in Nat /\ sent'[e] >= sent[e]
  <2>1. ASSUME NEW r \in Relays PROVE sent'[e] >= sent[e]
    BY RelayMoves, SMTT(30) DEF Next
  <2>2. CASE Relays = {}
    BY <1>3, <2>2 DEF Next, Step, RelayStep, Produce, Reclaim, CleanupPublished, CleanupDead,
                      Tick, Drained, relayVars
  <2> QED
    BY <2>1, <2>2, Zenon DEF TypeOK
<1>5. ASSUME NEW r \in Relays
      PROVE  /\ outcome[r][e] = "ok" => sent[e] > 0
             /\ outcome[r][e] = "permanent" => e \in Unencodable
  BY Zenon DEF FenceInv, ResultsTrue
<1>6. /\ status[e] \in {"none", "pending", "claiming"} => verdict[e] = "open"
      /\ status[e] \in {"published", "dead"} => verdict[e] = status[e]
      /\ status[e] = "deleted" => verdict[e] # "open"
      /\ verdict[e] = "published" => attempts[e] < MaxAttempts
      /\ attempts[e] <= MaxAttempts
      /\ status[e] \in {"none", "pending", "claiming"} => attempts[e] < MaxAttempts
      /\ verdict[e] = "published" => sent[e] > 0
      /\ verdict[e] = "dead" => e \in Unencodable \/ attempts[e] = MaxAttempts
  BY Zenon DEF RowInv, VerdictMatches, AttemptBudget, PublishedWasSent, DeadWasHopeless
<1> QED
  BY <1>1, <1>2, <1>3, <1>4, <1>5, <1>6, SMTT(30) DEF RowMove, Kept, Statuses, Exhausted

----------------------------------------------------------------------------
(* The count of deliveries.                                                *)

\* The number of claims of an entry never drops, and a claim adds one.
LEMMA ClaimsMove ==
    ASSUME TypeOK, TypeOK', FenceInv, RowInv, Next, NEW e \in Entries
    PROVE  /\ Claims(e) \in Nat /\ Claims(e)' \in Nat /\ Claims(e)' >= Claims(e)
           /\ status[e] = "pending" /\ status'[e] = "claiming" => Claims(e)' = Claims(e) + 1
<1>1. verdict'[e] = IF status'[e] \in {"published", "dead"} THEN status'[e] ELSE verdict[e]
  BY Zenon DEF Next, RecordVerdict
<1>2. RowMove(e)
  BY RowMoves, Zenon DEF FenceInv, Next
<1>3. /\ attempts[e] \in Nat /\ attempts'[e] \in Nat
      /\ status[e] \in Statuses /\ status'[e] \in Statuses
  BY Zenon DEF TypeOK, StoreTypeOK
<1>4. /\ status[e] \in {"none", "pending", "claiming"} => verdict[e] = "open"
      /\ status[e] \in {"published", "dead"} => verdict[e] = status[e]
  BY Zenon DEF RowInv, VerdictMatches
<1> QED
  BY <1>1, <1>2, <1>3, <1>4 DEF RowMove, Kept, Claims, Statuses

\* Unsent is a finite set of relays, and a subset of it is no larger.
LEMMA UnsentFinite ==
    ASSUME NEW e \in Entries
    PROVE  /\ IsFiniteSet(Unsent(e)) /\ Cardinality(Unsent(e)) \in Nat
           /\ IsFiniteSet(Unsent(e)') /\ Cardinality(Unsent(e)') \in Nat
<1>1. Unsent(e) \subseteq Relays /\ Unsent(e)' \subseteq Relays
  BY Zenon DEF Unsent
<1>2. IsFiniteSet(Unsent(e)) /\ IsFiniteSet(Unsent(e)')
  BY <1>1, RelayAssumption, FS_Subset, Zenon
<1> QED
  BY <1>2, FS_CardinalityType, Zenon

\* A step keeps the bound of deliveries by claims.
LEMMA DeliveriesStep ==
    ASSUME TypeOK, TypeOK', FenceInv, RowInv, DeliveriesPaid, Next
    PROVE  DeliveriesPaid'
<1> SUFFICES ASSUME NEW e \in Entries
             PROVE  sent'[e] + Cardinality(Unsent(e)') <= Claims(e)'
  BY Zenon DEF DeliveriesPaid
<1>1. /\ sent[e] \in Nat /\ sent'[e] \in Nat
      /\ sent[e] + Cardinality(Unsent(e)) <= Claims(e)
      /\ Claims(e) \in Nat /\ Claims(e)' \in Nat /\ Claims(e)' >= Claims(e)
      /\ status[e] = "pending" /\ status'[e] = "claiming" => Claims(e)' = Claims(e) + 1
      /\ Cardinality(Unsent(e)) \in Nat /\ Cardinality(Unsent(e)') \in Nat
  BY ClaimsMove, UnsentFinite, Zenon DEF TypeOK, DeliveriesPaid
<1>2. CASE sent'[e] = sent[e] /\ Unsent(e)' \subseteq Unsent(e)
  <2>1. Cardinality(Unsent(e)') <= Cardinality(Unsent(e))
    BY <1>2, UnsentFinite, FS_Subset, Zenon
  <2> QED
    BY <1>1, <1>2, <2>1
<1>3. ASSUME NEW q \in Relays, NEW S \in SUBSET Eligible, Claim(q, S)
      PROVE  sent'[e] + Cardinality(Unsent(e)') <= Claims(e)'
  <2>1. sent'[e] = sent[e] /\ batch'[q] = S /\ batch[q] = {}
    BY <1>3, Zenon DEF Claim, TypeOK
  <2>2. Unsent(e)' \subseteq Unsent(e) \cup {q}
    BY <1>3, Zenon DEF Claim, Unsent, TypeOK
  <2>3. CASE e \notin S
    <3>1. Unsent(e)' \subseteq Unsent(e)
      BY <2>1, <2>2, <2>3, Zenon DEF Unsent
    <3> QED
      BY <1>2, <2>1, <3>1, Zenon
  <2>4. CASE e \in S
    <3>1. status[e] = "pending" /\ status'[e] = "claiming"
      BY <1>3, <2>4, Zenon DEF Claim, ClaimPending, Update, Eligible
    <3>2. /\ Cardinality(Unsent(e) \cup {q}) \in Nat
          /\ Cardinality(Unsent(e) \cup {q}) <= Cardinality(Unsent(e)) + 1
          /\ IsFiniteSet(Unsent(e) \cup {q})
      <4>1. IsFiniteSet(Unsent(e))
        BY UnsentFinite, Zenon
      <4>2. /\ IsFiniteSet(Unsent(e) \cup {q})
            /\ \/ Cardinality(Unsent(e) \cup {q}) = Cardinality(Unsent(e))
               \/ Cardinality(Unsent(e) \cup {q}) = Cardinality(Unsent(e)) + 1
        BY <4>1, FS_AddElement, Zenon
      <4> QED
        BY <1>1, <4>2
    <3>3. Cardinality(Unsent(e)') <= Cardinality(Unsent(e) \cup {q})
      BY <2>2, <3>2, FS_Subset, Zenon
    <3> QED
      BY <1>1, <2>1, <3>1, <3>2, <3>3, SMTT(30)
  <2> QED
    BY <2>3, <2>4, Zenon
<1>4. ASSUME NEW q \in Relays, NEW f \in Entries, NEW out \in Outcomes, Publish(q, f, out)
      PROVE  sent'[e] + Cardinality(Unsent(e)') <= Claims(e)'
  <2>1. CASE e # f
    <3>1. sent'[e] = sent[e] /\ Unsent(e)' \subseteq Unsent(e)
      BY <1>4, <2>1 DEF Publish, Unsent, TypeOK
    <3> QED
      BY <1>2, <3>1, Zenon
  <2>2. CASE e = f
    <3>1. q \in Unsent(e) /\ sent'[e] <= sent[e] + 1
      BY <1>1, <1>4, <2>2 DEF Publish, Unsent, TypeOK
    <3>2. Unsent(e)' \subseteq Unsent(e) \ {q}
      BY <1>4, <2>2, Zenon DEF Publish, Unsent, TypeOK
    <3>3. /\ IsFiniteSet(Unsent(e) \ {q})
          /\ Cardinality(Unsent(e) \ {q}) = Cardinality(Unsent(e)) - 1
      BY <3>1, UnsentFinite, FS_RemoveElement, Zenon
    <3>4. Cardinality(Unsent(e)') <= Cardinality(Unsent(e)) - 1
      BY <3>2, <3>3, FS_Subset
    <3> QED
      BY <1>1, <3>1, <3>4, SMTT(30)
  <2> QED
    BY <2>1, <2>2, Zenon
<1>5. ASSUME NEW q \in Relays, NEW S \in SUBSET Entries, Forget(q, S), sent' = sent
      PROVE  sent'[e] + Cardinality(Unsent(e)') <= Claims(e)'
  <2>1. Unsent(e)' \subseteq Unsent(e)
    <3> SUFFICES ASSUME NEW r \in Relays, e \in batch'[r], outcome'[r][e] = "none"
                 PROVE  e \in batch[r] /\ outcome[r][e] = "none"
      BY Zenon DEF Unsent
    <3>1. CASE r # q
      <4>1. batch'[r] = batch[r] /\ outcome'[r] = outcome[r]
        BY <1>5, <3>1, Zenon DEF Forget, TypeOK
      <4> QED
        BY <4>1, Zenon
    <3>2. CASE r = q
      <4>1. e \in batch[r] /\ e \notin S
        BY <1>5, <3>2, Zenon DEF Forget, TypeOK
      <4>2. outcome'[r] = [d \in Entries |-> IF d \in S THEN "none" ELSE outcome[r][d]]
        BY <1>5, <3>2, Zenon DEF Forget, TypeOK
      <4> QED
        BY <4>1, <4>2, Zenon
    <3> QED
      BY <3>1, <3>2, Zenon
  <2> QED
    BY <1>2, <1>5, <2>1, Zenon
<1>6. ASSUME NEW q \in Relays, NEW f \in Entries, WriteBack(q, f)
      PROVE  sent'[e] + Cardinality(Unsent(e)') <= Claims(e)'
  BY <1>5, <1>6, SMTT(30) DEF WriteBack
<1>7. ASSUME NEW q \in Relays, WriteBackError(q) \/ Crash(q)
      PROVE  sent'[e] + Cardinality(Unsent(e)') <= Claims(e)'
  <2>1. batch[q] \in SUBSET Entries
    BY Zenon DEF TypeOK
  <2> QED
    BY <1>5, <1>7, <2>1, Zenon DEF WriteBackError, Crash
<1>8. CASE UNCHANGED relayVars
  BY <1>2, <1>8, Zenon DEF relayVars, Unsent
<1> QED
  BY <1>3, <1>4, <1>6, <1>7, <1>8, Zenon
  DEF Next, Step, RelayStep, Produce, Tick, Reclaim, CleanupPublished, CleanupDead, Drained

----------------------------------------------------------------------------
(* The theorems.                                                           *)

\* The inductive invariant holds for ever.
THEOREM Invariance == Spec => []Inv
<1> USE DEF Inv
<1>1. Init => Inv
  <2> SUFFICES ASSUME Init PROVE Inv
    OBVIOUS
  <2> USE DEF Init, StoreInit
  <2>1. TypeOK
    BY Zenon DEF TypeOK, StoreTypeOK, Statuses, Outcomes, Verdicts
  <2>2. LeasesMinted /\ SnapshotCurrent /\ ResultsTrue
    BY DEF LeasesMinted, SnapshotCurrent, ResultsTrue
  <2>3. VerdictMatches /\ AttemptBudget /\ PublishedWasSent /\ DeadWasHopeless
    BY StoreAssumption DEF VerdictMatches, AttemptBudget, PublishedWasSent, DeadWasHopeless
  <2>4. DeliveriesPaid
    <3>1. ASSUME NEW e \in Entries PROVE Unsent(e) = {} /\ sent[e] = 0 /\ Claims(e) = 0
      BY DEF Unsent, Claims
    <3>2. Cardinality({}) = 0
      BY FS_EmptySet, Zenon
    <3>3. 0 + 0 <= 0
      OBVIOUS
    <3> QED
      BY <3>1, <3>2, <3>3, Zenon DEF DeliveriesPaid
  <2> QED
    BY <2>1, <2>2, <2>3, <2>4, Zenon
<1>2. Inv /\ [Next]_vars => Inv'
  <2> SUFFICES ASSUME Inv, [Next]_vars PROVE Inv'
    OBVIOUS
  <2>1. TypeOK'
    BY TypeStep, Zenon
  <2>2. CASE Next
    <3>1. FenceInv /\ RowInv /\ Step
      BY <2>2, Zenon DEF FenceInv, RowInv, Next
    <3>2. FenceInv' /\ RowInv' /\ DeliveriesPaid'
      BY <2>1, <2>2, <3>1, FenceStep, RowStep, DeliveriesStep, Zenon
    <3> QED
      BY <2>1, <3>2, Zenon DEF FenceInv, RowInv
  <2>3. CASE UNCHANGED vars
    <3> USE <2>3 DEF vars, storeVars, relayVars
    <3>1. LeasesMinted' /\ SnapshotCurrent' /\ ResultsTrue'
      BY Zenon DEF LeasesMinted, SnapshotCurrent, ResultsTrue, Fenced
    <3>2. VerdictMatches' /\ AttemptBudget' /\ PublishedWasSent' /\ DeadWasHopeless'
      BY Zenon DEF VerdictMatches, AttemptBudget, PublishedWasSent, DeadWasHopeless
    <3>3. DeliveriesPaid'
      BY Zenon DEF DeliveriesPaid, Unsent, Claims
    <3> QED
      BY <2>1, <3>1, <3>2, <3>3, Zenon
  <2> QED
    BY <2>2, <2>3, Zenon
<1> QED
  BY <1>1, <1>2, PTL DEF Spec

\* The budget bounds the attempts of every live row and the broker accepts no
\* entry more often than the budget allows.
THEOREM Budgets == Spec => [](AttemptBudget /\ DeliveryBudget)
<1>1. Inv => AttemptBudget /\ DeliveryBudget
  <2> SUFFICES ASSUME Inv, NEW e \in Entries PROVE sent[e] <= MaxAttempts
    BY Zenon DEF Inv, DeliveryBudget
  <2>1. /\ sent[e] \in Nat /\ attempts[e] \in Nat /\ MaxAttempts \in Nat
        /\ Cardinality(Unsent(e)) \in Nat
    BY StoreAssumption, UnsentFinite, Zenon DEF Inv, TypeOK, StoreTypeOK
  <2>2. sent[e] + Cardinality(Unsent(e)) <= Claims(e)
    BY Zenon DEF Inv, DeliveriesPaid
  <2>3. Claims(e) <= MaxAttempts /\ Claims(e) \in Nat
    BY <2>1 DEF Inv, Claims, VerdictMatches, AttemptBudget
  <2> QED
    BY <2>1, <2>2, <2>3
<1> QED
  BY <1>1, Invariance, PTL

\* An entry is called published only after the broker has accepted it.
THEOREM PublishedIsTrue == Spec => []PublishedWasSent
<1>1. Inv => PublishedWasSent
  BY Zenon DEF Inv
<1> QED
  BY <1>1, Invariance, PTL

\* An entry is called dead only when nothing is left to try.
THEOREM DeadIsTrue == Spec => []DeadWasHopeless
<1>1. Inv => DeadWasHopeless
  BY Zenon DEF Inv
<1> QED
  BY <1>1, Invariance, PTL

\* The lease fence keeps every relay's snapshot of the rows it holds current.
THEOREM Fencing == Spec => []SnapshotCurrent
<1>1. Inv => SnapshotCurrent
  BY Zenon DEF Inv
<1> QED
  BY <1>1, Invariance, PTL

\* A failed claim always costs exactly one attempt.
THEOREM ClaimsArePaid == Spec => ClaimCostsAttempt
<1>1. Inv /\ [Next]_vars =>
        [\A e \in Entries : status[e] = "claiming" /\ status'[e] \in {"pending", "dead"}
                                => attempts'[e] = attempts[e] + 1]_vars
  BY RowMoves, Zenon DEF Inv, Next, RowMove
<1> QED
  BY <1>1, Invariance, PTL DEF Spec, ClaimCostsAttempt

\* A terminal row is never revived.
THEOREM TerminalStays == Spec => TerminalIsFinal
<1>1. Inv /\ [Next]_vars =>
        [\A e \in Entries : status[e] \in {"published", "dead"}
                                => status'[e] \in {status[e], "deleted"}]_vars
  BY RowMoves, Zenon DEF Inv, Next, RowMove
<1> QED
  BY <1>1, Invariance, PTL DEF Spec, TerminalIsFinal

----------------------------------------------------------------------------
(* The refinement of the outbox promise.                                   *)

\* A step that leaves the broker alone moves the fates as the rows move.
LEMMA FateMoves ==
    ASSUME Inv, Inv', Next, NEW e \in Entries
    PROVE  \/ Fate'[e] = Fate[e]
           \/ Fate[e] = "unwritten" /\ Fate'[e] = "open" /\ status[e] = "none"
           \/ Fate[e] = "open" /\ Fate'[e] = "published" /\ sent[e] > 0
              /\ status[e] = "claiming" /\ status'[e] = "published"
           \/ Fate[e] = "open" /\ Fate'[e] = "dead"
<1>1. Fate[e] = (IF status[e] = "none" THEN "unwritten" ELSE verdict[e])
      /\ Fate'[e] = (IF status'[e] = "none" THEN "unwritten" ELSE verdict'[e])
  BY Zenon DEF Fate
<1>2. verdict'[e] = IF status'[e] \in {"published", "dead"} THEN status'[e] ELSE verdict[e]
  BY Zenon DEF Next, RecordVerdict
<1>3. RowMove(e)
  BY RowMoves, Zenon DEF Inv, Next
<1>4. /\ status[e] \in {"none", "pending", "claiming"} => verdict[e] = "open"
      /\ status[e] \in {"published", "dead"} => verdict[e] = status[e]
      /\ \A r \in Relays : outcome[r][e] = "ok" => sent[e] > 0
  BY Zenon DEF Inv, VerdictMatches, ResultsTrue
<1>5. status[e] \in Statuses /\ status'[e] \in Statuses
  BY Zenon DEF Inv, TypeOK, StoreTypeOK
<1> QED
  BY <1>1, <1>2, <1>3, <1>4, <1>5, SMTT(30) DEF RowMove, Kept, Statuses

\* A delivery happens within the budget and to a written entry.
LEMMA PublishDelivers ==
    ASSUME Inv, NEW q \in Relays, NEW f \in Entries, NEW out \in Outcomes, Publish(q, f, out)
    PROVE  status[f] # "none" /\ sent[f] < MaxAttempts
<1>1. f \in batch[q] /\ q \in Unsent(f)
  BY Zenon DEF Publish, Unsent
<1>2. status[f] # "none"
  BY <1>1, Zenon DEF Inv, ResultsTrue
<1>3. /\ sent[f] \in Nat /\ attempts[f] \in Nat /\ MaxAttempts \in Nat
      /\ Cardinality(Unsent(f)) \in Nat
  BY StoreAssumption, UnsentFinite, Zenon DEF Inv, TypeOK, StoreTypeOK
<1>4. Cardinality(Unsent(f)) # 0
  BY <1>1, UnsentFinite, FS_EmptySet, Zenon
<1>5. sent[f] + Cardinality(Unsent(f)) <= Claims(f)
  BY Zenon DEF Inv, DeliveriesPaid
<1>6. Claims(f) <= MaxAttempts /\ Claims(f) \in Nat
  BY <1>3 DEF Inv, Claims, VerdictMatches, AttemptBudget
<1> QED
  BY <1>2, <1>3, <1>4, <1>5, <1>6

\* Every step of the relays is a step of the promise, or leaves it unchanged.
LEMMA PromiseStep ==
    ASSUME Inv, Inv', [Next]_vars
    PROVE  [Promise!Next]_(Promise!vars)
<1> USE DEF Promise!vars
<1>0. /\ Fate = [e \in Entries |-> Fate[e]] /\ Fate' = [e \in Entries |-> Fate'[e]]
      /\ \A e \in Entries : Fate[e] = IF status[e] = "none" THEN "unwritten" ELSE verdict[e]
      /\ \A e \in Entries : Fate'[e] = IF status'[e] = "none" THEN "unwritten" ELSE verdict'[e]
  BY Zenon DEF Fate
<1>1. CASE UNCHANGED vars
  BY <1>1, Zenon DEF vars, storeVars, relayVars, Fate
<1>2. CASE Next
  <2>1. ASSUME sent' = sent,
               \A e \in Entries : /\ ~(status[e] = "claiming" /\ status'[e] = "published")
                                  /\ status[e] = "none" => status'[e] = "none"
        PROVE  Promise!Next
    <3> DEFINE D == {e \in Entries : Fate[e] = "open" /\ Fate'[e] = "dead"}
    <3>1. \A e \in Entries : Fate'[e] = IF e \in D THEN "dead" ELSE Fate[e]
      BY <1>0, <1>2, <2>1, FateMoves, Zenon
    <3>2. Fate' = [e \in Entries |-> IF e \in D THEN "dead" ELSE Fate[e]]
      BY <1>0, <3>1, Zenon
    <3>3. Promise!GiveUp(D)
      BY <2>1, <3>2, Zenon DEF Promise!GiveUp
    <3> QED
      BY <3>3, Zenon DEF Promise!Next
  <2>2. ASSUME NEW f \in Entries, Produce(f) PROVE Promise!Next
    <3>1. /\ status' = [status EXCEPT ![f] = "pending"] /\ status[f] = "none" /\ sent' = sent
      BY <2>2, SMTT(30) DEF Produce, Write, relayVars
    <3>2. verdict[f] = "open" /\ verdict'[f] = "open"
      BY <1>2, <3>1, Zenon DEF Inv, TypeOK, StoreTypeOK, VerdictMatches, Next, RecordVerdict
    <3>3. ASSUME NEW e \in Entries, e # f PROVE Fate'[e] = Fate[e]
      <4>1. status'[e] = status[e]
        BY <3>1, <3>3, SMTT(30) DEF Inv, TypeOK, StoreTypeOK
      <4>2. verdict'[e] = verdict[e]
        BY <1>2, <4>1, Zenon DEF Next, RecordVerdict, Inv, VerdictMatches
      <4> QED
        BY <1>0, <4>1, <4>2, SMTT(30)
    <3>4. Fate[f] = "unwritten" /\ Fate'[f] = "open"
      BY <1>0, <3>1, <3>2, Zenon DEF Inv, TypeOK, StoreTypeOK
    <3>5. Fate' = [Fate EXCEPT ![f] = "open"]
      BY <1>0, <3>3, <3>4, Zenon
    <3> QED
      BY <3>1, <3>4, <3>5, Zenon DEF Promise!Next, Promise!Accept
  <2>3. ASSUME NEW q \in Relays, NEW f \in Entries, NEW out \in Outcomes, Publish(q, f, out)
        PROVE  [Promise!Next]_(Promise!vars)
    <3>1. status' = status
      BY <2>3, Zenon DEF Publish, storeVars
    <3>2. \A e \in Entries : verdict'[e] = verdict[e]
      BY <1>2, <3>1, Zenon DEF Next, RecordVerdict, Inv, VerdictMatches
    <3>3. Fate' = Fate
      BY <1>0, <3>1, <3>2, Zenon
    <3>4. Fate[f] # "unwritten" /\ sent[f] < MaxAttempts
      BY <1>0, <2>3, PublishDelivers, Zenon DEF Inv, TypeOK, Verdicts
    <3>5. sent' = sent \/ sent' = [sent EXCEPT ![f] = @ + 1]
      BY <2>3, Zenon DEF Publish
    <3> QED
      BY <3>3, <3>4, <3>5, Zenon DEF Promise!Next, Promise!Deliver
  <2>4. ASSUME NEW q \in Relays, NEW f \in Entries, WriteBack(q, f) PROVE Promise!Next
    <3>1. sent' = sent
      BY <2>4, SMTT(30) DEF WriteBack
    <3>2. ASSUME NEW e \in Entries, e # f PROVE status'[e] = status[e]
      <4>1. /\ status \in [Entries -> Statuses]
            /\ \/ MarkPublished(f, held[q])
               \/ MarkRetry(f, held[q], snap[q][f] + 1)
               \/ MarkDead(f, held[q], snap[q][f] + 1)
        BY <2>4, WriteBackMarks, SMTT(30) DEF Inv, TypeOK, StoreTypeOK
      <4> QED
        BY <3>2, <4>1, SMTT(30) DEF MarkPublished, MarkRetry, MarkDead, storeVars
    <3>3. status[f] # "none"
      BY <2>4, Zenon DEF WriteBack, Inv, ResultsTrue
    <3>4. CASE status[f] = "claiming" /\ status'[f] = "published"
      <4>1. Fate[f] = "open" /\ Fate'[f] = "published" /\ sent[f] > 0
        <5>1. verdict[f] = "open" /\ verdict'[f] = "published"
          BY <1>2, <3>4, Zenon DEF Inv, VerdictMatches, Next, RecordVerdict
        <5>2. Fate[f] = "open" /\ Fate'[f] = "published"
          BY <1>0, <3>4, <5>1, Zenon
        <5> QED
          BY <1>2, <5>2, FateMoves, SMTT(30)
      <4>2. ASSUME NEW e \in Entries, e # f PROVE Fate'[e] = Fate[e]
        <5>1. status'[e] = status[e]
          BY <3>2, <4>2, SMTT(30)
        <5>2. verdict'[e] = verdict[e]
          BY <1>2, <5>1, Zenon DEF Next, RecordVerdict, Inv, VerdictMatches
        <5> QED
          BY <1>0, <5>1, <5>2, Zenon
      <4>3. Fate' = [Fate EXCEPT ![f] = "published"]
        BY <1>0, <4>1, <4>2, Zenon
      <4> QED
        BY <3>1, <4>1, <4>3, Zenon DEF Promise!Next, Promise!Settle
    <3>5. CASE ~(status[f] = "claiming" /\ status'[f] = "published")
      BY <2>1, <3>1, <3>2, <3>3, <3>5, Zenon
    <3> QED
      BY <3>4, <3>5, Zenon
  <2>5. ASSUME NEW q \in Relays, NEW S \in SUBSET Eligible, Claim(q, S) PROVE Promise!Next
    BY <2>1, <2>5, Zenon DEF Claim, ClaimPending, Update, Eligible
  <2>6. ASSUME NEW q \in Relays, WriteBackError(q) \/ Crash(q) PROVE Promise!Next
    BY <2>1, <2>6, Zenon DEF WriteBackError, Crash, storeVars
  <2>7. CASE Reclaim
    BY <2>1, <2>7, Zenon DEF Reclaim, ReclaimStale, Update, Stale, relayVars
  <2>8. CASE CleanupPublished \/ CleanupDead
    BY <2>1, <2>8, Zenon DEF CleanupPublished, CleanupDead, Cleanup, Update, relayVars
  <2>9. CASE (\E e \in Entries : Tick(e)) \/ Drained
    BY <2>1, <2>9, Zenon DEF Tick, TimePasses, Drained, storeVars, relayVars
  <2> QED
    BY <1>2, <2>2, <2>3, <2>4, <2>5, <2>6, <2>7, <2>8, <2>9, SMTT(30) DEF Next, Step, RelayStep
<1> QED
  BY <1>1, <1>2, Zenon

\* The relays and the table implement the outbox promise.
THEOREM Refinement == Spec => KeepsPromise
<1>1. Init => Promise!Init
  BY Zenon DEF Init, StoreInit, Fate, Promise!Init
<1> QED
  BY <1>1, PromiseStep, Invariance, PTL DEF Spec, KeepsPromise, Promise!Spec

============================================================================
