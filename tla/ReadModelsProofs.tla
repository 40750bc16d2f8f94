------------------------- MODULE ReadModelsProofs --------------------------
(***************************************************************************)
(* The read models (ReadModels), for any journal.  The fenced checkpoint   *)
(* alone makes what the saga journal tailers commit exact: any number of   *)
(* tailers, and a lock that protects nothing.  The lock bounds how often   *)
(* they call Apply.  The gate of the projection coordinator makes live     *)
(* delivery and rebuilds add up to a read model without holes.             *)
(***************************************************************************)
EXTENDS ReadModels, FiniteSetTheorems, WellFoundedInduction, TLAPS

----------------------------------------------------------------------------
(* The tailers.                                                            *)

\* The types, and the heads a drain is bounded by exist.
TailerTypeOK ==
    /\ head \in 0 .. MaxJournal
    /\ offset \in Nat
    /\ owner \in Tailers \cup {Nobody}
    /\ applied \in [Positions -> Nat]
    /\ dead \in [Positions -> Nat]
    /\ at \in [Tailers -> Steps]
    /\ through \in [Tailers -> 0 .. MaxJournal]
    /\ pos \in [Tailers -> Nat]
    /\ lock \in Tailers \cup {Nobody}
    /\ ran \in [Positions -> Nat]
    /\ mishaps \in Nat

Draining(t) == at[t] \in {"drain", "applied", "poison"}

\* What the fence rests on: a tailer that drains is never ahead of the checkpoint,
\* and exactly at it as long as the row carries its token.
FenceInv ==
    \A t \in Tailers :
        Draining(t) => /\ pos[t] <= offset
                       /\ owner = t => pos[t] = offset
                       /\ at[t] # "drain" => pos[t] < through[t]

Counted == \A n \in Positions : applied[n] + dead[n] = IF n <= offset THEN 1 ELSE 0

TailerInv == TailerTypeOK /\ FenceInv /\ Counted

\* The entry after a position before the head of the drain exists.
LEMMA BelowHead ==
    ASSUME TailerTypeOK, NEW t \in Tailers, pos[t] < through[t]
    PROVE  pos[t] + 1 \in Positions
<1>1. pos[t] \in Nat /\ through[t] \in 0 .. MaxJournal
  BY Zenon DEF TailerTypeOK
<1> QED
  BY <1>1, StoreAssumption DEF Positions

\* A write the fence accepts is the one of the next position.
LEMMA AcceptedIsNext ==
    ASSUME TailerInv, NEW t \in Tailers, Draining(t), pos[t] < through[t], Accepts(t, pos[t] + 1)
    PROVE  /\ pos[t] = offset
           /\ pos[t] + 1 \in Positions
<1>1. pos[t] \in Nat /\ offset \in Nat
  BY Zenon DEF TailerInv, TailerTypeOK
<1>2. pos[t] <= offset /\ (owner = t => pos[t] = offset)
  BY Zenon DEF TailerInv, FenceInv
<1>3. owner = t \/ pos[t] + 1 > offset
  BY Zenon DEF Accepts
<1>4. pos[t] = offset
  BY <1>1, <1>2, <1>3
<1> QED
  BY <1>4, BelowHead, Zenon DEF TailerInv

\* Before the first poll the inductive invariant holds.
LEMMA InitTailerInv == StoreInit /\ TailerInit => TailerInv
BY StoreAssumption DEF StoreInit, TailerInit, TailerInv, TailerTypeOK, FenceInv, Counted, Positions,
    Steps, Draining

\* An accepted write, of an application or of a dead letter, keeps the count.
LEMMA AdvanceCounts ==
    ASSUME TailerInv, NEW n \in Positions, n = offset + 1, offset' = n,
           \/ applied' = [applied EXCEPT ![n] = @ + 1] /\ dead' = dead
           \/ dead' = [dead EXCEPT ![n] = @ + 1] /\ applied' = applied
    PROVE  /\ Counted'
           /\ applied' \in [Positions -> Nat]
           /\ dead' \in [Positions -> Nat]
<1>1. applied' \in [Positions -> Nat] /\ dead' \in [Positions -> Nat]
  BY DEF TailerInv, TailerTypeOK
<1>2. ASSUME NEW m \in Positions
      PROVE  applied'[m] + dead'[m] = IF m <= offset' THEN 1 ELSE 0
  <2>1. applied[m] + dead[m] = IF m <= offset THEN 1 ELSE 0
    BY Zenon DEF TailerInv, Counted
  <2>2. applied[m] \in Nat /\ dead[m] \in Nat /\ m \in Nat /\ offset \in Nat
    <3>1. applied[m] \in Nat /\ dead[m] \in Nat /\ offset \in Nat
      BY Zenon DEF TailerInv, TailerTypeOK
    <3>2. m \in 1 .. MaxJournal
      BY Zenon DEF Positions
    <3> QED
      BY <3>1, <3>2
  <2>3. CASE m = n
    <3>1. applied[m] = 0 /\ dead[m] = 0
      BY <2>1, <2>2, <2>3
    <3>2. applied'[m] + dead'[m] = 1
      BY <2>3, <3>1 DEF TailerInv, TailerTypeOK
    <3> QED
      BY <2>2, <2>3, <3>2
  <2>4. CASE m # n
    <3>1. applied'[m] = applied[m] /\ dead'[m] = dead[m]
      BY <2>4, Zenon DEF TailerInv, TailerTypeOK
    <3> QED
      BY <2>1, <2>2, <2>4, <3>1
  <2> QED
    BY <2>3, <2>4, Zenon
<1> QED
  BY <1>1, <1>2, Zenon DEF Counted

\* The fence after an accepted write: the writer is at the checkpoint, and everyone
\* else is no further than before and no longer its owner.
LEMMA AdvanceFences ==
    ASSUME TailerInv, NEW t \in Tailers, Draining(t), pos[t] = offset,
           offset' = pos[t] + 1, owner' = t, pos' = [pos EXCEPT ![t] = pos[t] + 1],
           at' = [at EXCEPT ![t] = "drain"], through' = through
    PROVE  FenceInv'
<1> SUFFICES ASSUME NEW u \in Tailers, Draining(u)'
             PROVE  /\ pos'[u] <= offset'
                    /\ owner' = u => pos'[u] = offset'
                    /\ at'[u] # "drain" => pos'[u] < through'[u]
  BY Zenon DEF FenceInv
<1>1. CASE u = t
  BY <1>1 DEF TailerInv, TailerTypeOK
<1>2. CASE u # t
  <2>1. pos'[u] = pos[u] /\ at'[u] = at[u]
    BY <1>2, Zenon DEF TailerInv, TailerTypeOK
  <2>2. Draining(u) /\ pos[u] <= offset /\ (at[u] # "drain" => pos[u] < through[u])
    BY <2>1, Zenon DEF TailerInv, FenceInv, Draining
  <2> QED
    BY <1>2, <2>1, <2>2 DEF TailerInv, TailerTypeOK
<1> QED
  BY <1>1, <1>2, Zenon

\* Steps that leave the store alone, and let tailers only leave the drain.
LEMMA LeaveKeeps ==
    ASSUME TailerInv, TailerTypeOK', UNCHANGED <<offset, applied, dead>>,
           owner' \in {owner, Nobody},
           \A t \in Tailers : Draining(t)' => /\ at'[t] = at[t]
                                             /\ pos'[t] = pos[t] /\ through'[t] = through[t]
    PROVE  TailerInv'
<1>1. FenceInv'
  BY StoreAssumption, Zenon DEF TailerInv, TailerTypeOK, FenceInv, Draining
<1>2. Counted'
  BY Zenon DEF TailerInv, Counted
<1> QED
  BY <1>1, <1>2, Zenon DEF TailerInv

\* Every step keeps the types.
LEMMA NextTailerTypeOK == TailerInv /\ [TailerNext]_tailerAll => TailerTypeOK'
<1> SUFFICES ASSUME TailerInv, [TailerNext]_tailerAll PROVE TailerTypeOK'
  OBVIOUS
<1> USE DEF TailerInv, TailerTypeOK
<1>0. mishaps + 1 \in Nat /\ 0 \in Nat /\ 0 \in 0 .. MaxJournal
  BY StoreAssumption
<1>1. CASE TailerAppend
  <2>1. head' \in 0 .. MaxJournal
    BY <1>1, StoreAssumption DEF TailerAppend, JournalGrows
  <2> QED
    BY <1>1, <2>1, Zenon DEF TailerAppend, JournalGrows, tailerVars
<1>2. CASE Expire \/ LoseLock
  BY <1>0, <1>2, Zenon DEF Expire, LoseLock, Mishap, storeVars
<1>3. ASSUME NEW t \in Tailers, Poll(t) \/ ReadHead(t) \/ LoadOffset(t) \/ stopAtHead(t)
      PROVE  TailerTypeOK'
  BY <1>3, Zenon DEF Poll, ReadHead, LoadOffset, stopAtHead, Step, Steps, storeVars
<1>4. ASSUME NEW t \in Tailers, applyEvent(t) PROVE TailerTypeOK'
  <2>1. ran' \in [Positions -> Nat]
    <3>1. PICK n \in Nat : n = pos[t] + 1
      OBVIOUS
    <3>2. n \in Positions
      BY <1>4, <3>1, BelowHead, Zenon DEF applyEvent, Pending
    <3>3. PICK k \in Nat : k = ran[n] + 1
      BY <3>2
    <3>4. ran' = [ran EXCEPT ![n] = k]
      BY <1>4, <3>1, <3>3, Zenon DEF applyEvent
    <3> QED
      BY <3>2, <3>3, <3>4, Zenon
  <2> QED
    BY <1>4, <2>1, Zenon DEF applyEvent, Steps, storeVars
<1>5. ASSUME NEW t \in Tailers, commitEvent(t) \/ skipPoisonEvent(t) PROVE TailerTypeOK'
  <2>1. PICK n \in Nat : n = pos[t] + 1
    OBVIOUS
  <2>2. n \in Positions /\ applied[n] + 1 \in Nat /\ dead[n] + 1 \in Nat
    <3>1. Draining(t) /\ at[t] # "drain"
      BY <1>5, Zenon DEF commitEvent, skipPoisonEvent, Draining
    <3>2. pos[t] < through[t]
      BY <3>1, Zenon DEF FenceInv
    <3>3. n \in Positions
      BY <2>1, <3>2, BelowHead, Zenon
    <3> QED
      BY <3>3
  <2>3. /\ offset' \in {offset, n} /\ owner' \in {owner, t} /\ UNCHANGED <<head, through, lock, ran, mishaps>>
        /\ applied' \in {applied, [applied EXCEPT ![n] = applied[n] + 1]}
        /\ dead' \in {dead, [dead EXCEPT ![n] = dead[n] + 1]}
        /\ pos' \in {pos, [pos EXCEPT ![t] = n]}
        /\ \E a \in {"drain", "release"} : at' = [at EXCEPT ![t] = a]
    BY <1>5, <2>1, Zenon DEF commitEvent, skipPoisonEvent, AdvanceIfOwner, Apply
  <2>4. applied' \in [Positions -> Nat] /\ dead' \in [Positions -> Nat]
    BY <2>2, <2>3, Zenon
  <2>5. pos' \in [Tailers -> Nat] /\ at' \in [Tailers -> Steps]
    BY <2>3, Zenon DEF Steps
  <2> QED
    BY <2>3, <2>4, <2>5, Zenon
<1>6. ASSUME NEW t \in Tailers, Abort(t) PROVE TailerTypeOK'
  BY <1>0, <1>6, Zenon DEF Abort, Mishap, Steps, storeVars
<1>7. ASSUME NEW t \in Tailers, Release(t) \/ Crash(t) PROVE TailerTypeOK'
  BY <1>0, <1>7, Zenon DEF Release, Crash, Forget, Mishap, Step, Steps, storeVars
<1>8. CASE UNCHANGED tailerAll
  BY <1>8, Zenon DEF tailerAll, storeVars, tailerVars
<1> QED
  BY <1>1, <1>2, <1>3, <1>4, <1>5, <1>6, <1>7, <1>8, Zenon DEF TailerNext, Drain

\* What an accepted write of either kind does.
LEMMA AdvanceKeeps ==
    ASSUME TailerInv, TailerTypeOK', NEW t \in Tailers, commitEvent(t) \/ skipPoisonEvent(t),
           Accepts(t, pos[t] + 1)
    PROVE  /\ TailerInv'
           /\ pos[t] = offset /\ offset' = offset + 1
           /\ pos' = [pos EXCEPT ![t] = offset + 1] /\ at' = [at EXCEPT ![t] = "drain"]
<1>1. Draining(t) /\ at[t] # "drain"
  BY Zenon DEF commitEvent, skipPoisonEvent, Draining
<1>2. pos[t] < through[t]
  BY <1>1, Zenon DEF TailerInv, FenceInv
<1>3. /\ offset' = pos[t] + 1
      /\ owner' = t
      /\ \/ applied' = [applied EXCEPT ![pos[t] + 1] = @ + 1] /\ dead' = dead
         \/ dead' = [dead EXCEPT ![pos[t] + 1] = @ + 1] /\ applied' = applied
      /\ pos' = [pos EXCEPT ![t] = pos[t] + 1]
      /\ at' = [at EXCEPT ![t] = "drain"]
      /\ through' = through
  BY Zenon DEF commitEvent, skipPoisonEvent, AdvanceIfOwner, Apply
<1>4. pos[t] = offset /\ pos[t] + 1 \in Positions
  BY <1>1, <1>2, AcceptedIsNext, Zenon
<1>5. FenceInv'
  BY <1>1, <1>3, <1>4, AdvanceFences, Zenon
<1>6. Counted'
  BY <1>3, <1>4, AdvanceCounts, Zenon
<1> QED
  BY <1>3, <1>4, <1>5, <1>6, Zenon DEF TailerInv

\* Every step of a tailer, of the journal and of the lock preserves it.
LEMMA NextTailerInv == TailerInv /\ [TailerNext]_tailerAll => TailerInv'
<1> SUFFICES ASSUME TailerInv, [TailerNext]_tailerAll PROVE TailerInv'
  OBVIOUS
<1>0. TailerTypeOK'
  BY NextTailerTypeOK, Zenon
<1>1. CASE TailerAppend
  BY <1>0, <1>1, LeaveKeeps, Zenon DEF TailerAppend, JournalGrows, tailerVars
<1>2. CASE Expire \/ LoseLock
  BY <1>0, <1>2, LeaveKeeps, Zenon DEF Expire, LoseLock, storeVars
<1>3. ASSUME NEW t \in Tailers, Poll(t) PROVE TailerInv'
  BY <1>0, <1>3, LeaveKeeps, Zenon DEF Poll, Step, Draining, TailerInv, TailerTypeOK
<1>4. ASSUME NEW t \in Tailers, ReadHead(t) PROVE TailerInv'
  BY <1>0, <1>4, LeaveKeeps, Zenon DEF ReadHead, Step, Draining, storeVars, TailerInv, TailerTypeOK
<1>5. ASSUME NEW t \in Tailers, LoadOffset(t) PROVE TailerInv'
  <2>1. FenceInv'
    BY <1>5 DEF LoadOffset, Step, storeVars, TailerInv, TailerTypeOK, FenceInv, Draining
  <2>2. Counted'
    BY <1>5, Zenon DEF LoadOffset, storeVars, TailerInv, Counted
  <2> QED
    BY <1>0, <2>1, <2>2, Zenon DEF TailerInv
<1>6. ASSUME NEW t \in Tailers, applyEvent(t) PROVE TailerInv'
  <2>1. FenceInv'
    BY <1>6, Zenon DEF applyEvent, Pending, storeVars, TailerInv, TailerTypeOK, FenceInv, Draining
  <2>2. Counted'
    BY <1>6, Zenon DEF applyEvent, storeVars, TailerInv, Counted
  <2> QED
    BY <1>0, <2>1, <2>2, Zenon DEF TailerInv
<1>7. ASSUME NEW t \in Tailers, commitEvent(t) \/ skipPoisonEvent(t) PROVE TailerInv'
  <2>1. CASE Accepts(t, pos[t] + 1)
    BY <1>0, <1>7, <2>1, AdvanceKeeps, Zenon
  <2>2. CASE ~Accepts(t, pos[t] + 1)
    BY <1>0, <1>7, <2>2, LeaveKeeps, Zenon
       DEF commitEvent, skipPoisonEvent, AdvanceIfOwner, Draining, TailerInv, TailerTypeOK
  <2> QED
    BY <2>1, <2>2, Zenon
<1>8. ASSUME NEW t \in Tailers, stopAtHead(t) \/ Abort(t) PROVE TailerInv'
  BY <1>0, <1>8, LeaveKeeps, Zenon
     DEF stopAtHead, Abort, Step, Draining, storeVars, TailerInv, TailerTypeOK
<1>9. ASSUME NEW t \in Tailers, Release(t) \/ Crash(t) PROVE TailerInv'
  BY <1>0, <1>9, LeaveKeeps, Zenon
     DEF Release, Crash, Forget, Step, Draining, storeVars, TailerInv, TailerTypeOK
<1>10. CASE UNCHANGED tailerAll
  BY <1>0, <1>10, LeaveKeeps, Zenon DEF tailerAll, storeVars, tailerVars
<1> QED
  BY <1>1, <1>2, <1>3, <1>4, <1>5, <1>6, <1>7, <1>8, <1>9, <1>10, Zenon DEF TailerNext, Drain

----------------------------------------------------------------------------
(* How often the tailers call Apply.                                       *)

\* The drain of t may still call Apply for entry n.
MayRun(t, n) ==
    \/ at[t] \in {"head", "load"} /\ n > offset
    \/ at[t] = "drain" /\ n > pos[t]
    \/ at[t] \in {"applied", "poison"} /\ n > pos[t] + 1

\* The drain of t has called it and not yet committed.
Holds(t, n) == at[t] \in {"applied", "poison"} /\ n = pos[t] + 1

\* The next holder of the lock may have to: the one there is, if any, will not, and the
\* checkpoint has not passed n.
NextMayRun(n) == n > offset /\ (lock = Nobody \/ ~(MayRun(lock, n) \/ Holds(lock, n)))

\* Everyone who may, Nobody standing for the next holder.
Runners(n) == {t \in Tailers : MayRun(t, n)} \cup (IF NextMayRun(n) THEN {Nobody} ELSE {})

\* The calls there have been and those that may come without another mishap are paid for.
Paid(n) == ran[n] + Cardinality(Runners(n)) <= 1 + mishaps

RunInv == \A n \in Positions : Paid(n)

\* How a finite set grows and shrinks.
LEMMA Counting ==
    ASSUME NEW S, IsFiniteSet(S), NEW T
    PROVE  /\ Cardinality(S) \in Nat
           /\ T \subseteq S => Cardinality(T) <= Cardinality(S)
           /\ \A b : T \subseteq S \cup {b} => Cardinality(T) <= Cardinality(S) + 1
           /\ \A a \in S : T \subseteq S \ {a} => Cardinality(T) <= Cardinality(S) - 1
           /\ \A a \in S : \A b : T \subseteq (S \ {a}) \cup {b} => Cardinality(T) <= Cardinality(S)
<1>1. Cardinality(S) \in Nat
  BY FS_CardinalityType, Zenon
<1>2. T \subseteq S => Cardinality(T) <= Cardinality(S)
  BY FS_Subset, Zenon
<1>3. ASSUME NEW b, T \subseteq S \cup {b} PROVE Cardinality(T) <= Cardinality(S) + 1
  <2>1. IsFiniteSet(S \cup {b})
    BY FS_AddElement, Zenon
  <2>2. Cardinality(T) <= Cardinality(S \cup {b}) /\ Cardinality(T) \in Nat
    BY <1>3, <2>1, FS_Subset, FS_CardinalityType, Zenon
  <2>3. Cardinality(S \cup {b}) = Cardinality(S) \/ Cardinality(S \cup {b}) = Cardinality(S) + 1
    BY FS_AddElement, Zenon
  <2> QED
    BY <1>1, <2>2, <2>3
<1>4. ASSUME NEW a \in S, T \subseteq S \ {a} PROVE Cardinality(T) <= Cardinality(S) - 1
  <2>1. IsFiniteSet(S \ {a}) /\ Cardinality(S \ {a}) = Cardinality(S) - 1
    BY FS_RemoveElement, Zenon
  <2>2. Cardinality(T) <= Cardinality(S \ {a})
    BY <1>4, <2>1, FS_Subset, Zenon
  <2> QED
    BY <2>1, <2>2, Zenon
<1>5. ASSUME NEW a \in S, NEW b, T \subseteq (S \ {a}) \cup {b} PROVE Cardinality(T) <= Cardinality(S)
  <2> DEFINE R == S \ {a}
  <2>1. IsFiniteSet(R) /\ Cardinality(R) = Cardinality(S) - 1
    BY FS_RemoveElement, Zenon
  <2>2. T \subseteq R \cup {b}
    BY <1>5, Zenon
  <2> HIDE DEF R
  <2>3. IsFiniteSet(R \cup {b})
    BY <2>1, FS_AddElement, Zenon
  <2>4. Cardinality(T) <= Cardinality(R \cup {b}) /\ Cardinality(T) \in Nat
    BY <2>2, <2>3, FS_Subset, FS_CardinalityType, Zenon
  <2>5. Cardinality(R \cup {b}) = Cardinality(R) \/ Cardinality(R \cup {b}) = Cardinality(R) + 1
    BY <2>1, FS_AddElement, Zenon
  <2> QED
    BY <1>1, <2>1, <2>4, <2>5
<1> QED
  BY <1>1, <1>2, <1>3, <1>4, <1>5, Zenon

\* The four ways in which a step may touch the account of entry n: it takes nothing out of
\* it, a mishap pays for another run, the right to run changes hands, or is used.
LEMMA StaysPaid ==
    ASSUME TailerTypeOK, TailerTypeOK', NEW n \in Positions, Paid(n),
           \/ ran'[n] = ran[n] /\ mishaps' = mishaps /\ Runners(n)' \subseteq Runners(n)
           \/ /\ ran'[n] = ran[n] /\ mishaps' = mishaps + 1
              /\ Runners(n)' \subseteq Runners(n) \cup {Nobody}
           \/ /\ ran'[n] = ran[n] /\ mishaps' = mishaps
              /\ \E a \in Runners(n) : \E b : Runners(n)' \subseteq (Runners(n) \ {a}) \cup {b}
           \/ /\ ran'[n] = ran[n] + 1 /\ mishaps' = mishaps
              /\ \E a \in Runners(n) : Runners(n)' \subseteq Runners(n) \ {a}
    PROVE  Paid(n)'
<1> DEFINE U == Tailers \cup {Nobody}
<1>1. IsFiniteSet(U)
  BY TailerAssumption, FS_AddElement, Zenon
<1>2. Runners(n) \subseteq U /\ Runners(n)' \subseteq U
  BY Zenon DEF Runners
<1> HIDE DEF U
<1>3. IsFiniteSet(Runners(n)) /\ IsFiniteSet(Runners(n)')
  BY <1>1, <1>2, FS_Subset, Zenon
<1>4. Cardinality(Runners(n)) \in Nat /\ Cardinality(Runners(n)') \in Nat
  BY <1>3, FS_CardinalityType, Zenon
<1>5. ran[n] \in Nat /\ mishaps \in Nat
  BY Zenon DEF TailerTypeOK
<1>6. \/ /\ ran'[n] = ran[n] /\ mishaps' = mishaps
         /\ Cardinality(Runners(n)') <= Cardinality(Runners(n))
      \/ /\ ran'[n] = ran[n] /\ mishaps' = mishaps + 1
         /\ Cardinality(Runners(n)') <= Cardinality(Runners(n)) + 1
      \/ /\ ran'[n] = ran[n] + 1 /\ mishaps' = mishaps
         /\ Cardinality(Runners(n)') <= Cardinality(Runners(n)) - 1
  BY <1>3, Counting, Zenon
<1>7. ran[n] + Cardinality(Runners(n)) <= 1 + mishaps
  BY Zenon DEF Paid
<1>8. ran'[n] + Cardinality(Runners(n)') <= 1 + mishaps'
  BY <1>4, <1>5, <1>6, <1>7
<1> QED
  BY <1>8, Zenon DEF Paid

\* No one gets the right to run.
LEMMA RunnersShrink ==
    ASSUME NEW n, \A u \in Tailers : MayRun(u, n)' => MayRun(u, n), NextMayRun(n)' => NextMayRun(n)
    PROVE  Runners(n)' \subseteq Runners(n)
  BY Zenon DEF Runners

\* The next holder of the lock gets the right that a had.
LEMMA RunnersSwap ==
    ASSUME NEW n, NEW a \in Runners(n), ~MayRun(a, n)', a # Nobody,
           \A u \in Tailers : MayRun(u, n)' => MayRun(u, n)
    PROVE  Runners(n)' \subseteq (Runners(n) \ {a}) \cup {Nobody}
  BY Zenon DEF Runners

\* Before the first poll there is the next holder of the lock, and no one else.
LEMMA InitRunInv == StoreInit /\ TailerInit => RunInv
<1> SUFFICES ASSUME StoreInit, TailerInit, NEW n \in Positions PROVE Paid(n)
  BY Zenon DEF RunInv
<1>1. \A t \in Tailers : ~MayRun(t, n)
  BY Zenon DEF TailerInit, MayRun
<1>2. Runners(n) \subseteq {} \cup {Nobody}
  BY <1>1, Zenon DEF Runners
<1>3. Cardinality(Runners(n)) <= 0 + 1
  BY <1>2, FS_EmptySet, Counting, Zenon
<1>4. Cardinality(Runners(n)) \in Nat
  BY <1>2, FS_EmptySet, FS_AddElement, FS_Subset, FS_CardinalityType, Zenon
<1>5. ran[n] = 0 /\ mishaps = 0
  BY Zenon DEF TailerInit
<1> QED
  BY <1>3, <1>4, <1>5 DEF Paid

\* A tailer that is in no drain has no part in the account.
LEMMA Outside ==
    ASSUME NEW t \in Tailers, at[t] \in {"idle", "release"}, NEW n
    PROVE  ~MayRun(t, n) /\ ~Holds(t, n)
  BY DEF MayRun, Holds

\* Someone else's step leaves a tailer its part, if the checkpoint stays.
LEMMA SamePart ==
    ASSUME NEW u \in Tailers, NEW n, at'[u] = at[u], pos'[u] = pos[u], offset' = offset
    PROVE  (MayRun(u, n)' <=> MayRun(u, n)) /\ (Holds(u, n)' <=> Holds(u, n))
  BY Zenon DEF MayRun, Holds

\* Steps at which the parts of all stay the same, and the lock is where it was.
LEMMA SameParts ==
    ASSUME NEW n, UNCHANGED <<offset, lock>>, lock \in Tailers \cup {Nobody},
           \A u \in Tailers : (MayRun(u, n)' <=> MayRun(u, n)) /\ (Holds(u, n)' <=> Holds(u, n))
    PROVE  Runners(n)' \subseteq Runners(n)
<1>1. NextMayRun(n)' => NextMayRun(n)
  BY Zenon DEF NextMayRun
<1> QED
  BY <1>1, RunnersShrink, Zenon

\* A mishap: at worst the next holder of the lock gets the right to run.
LEMMA MishapIsPaid ==
    ASSUME TailerTypeOK, TailerTypeOK', NEW n \in Positions, Paid(n),
           ran' = ran, mishaps' = mishaps + 1,
           \A u \in Tailers : MayRun(u, n)' => MayRun(u, n)
    PROVE  Paid(n)'
<1>1. Runners(n)' \subseteq Runners(n) \cup {Nobody}
  BY Zenon DEF Runners
<1> QED
  BY <1>1, StaysPaid, Zenon

\* A drain that ends leaves the others their parts, and has none itself.
LEMMA LeaverOut ==
    ASSUME NEW n, NEW t \in Tailers, at'[t] \in {"idle", "release"}, offset' = offset,
           \A u \in Tailers : u # t => at'[u] = at[u] /\ pos'[u] = pos[u]
    PROVE  /\ ~MayRun(t, n)'
           /\ \A u \in Tailers : MayRun(u, n)' => MayRun(u, n)
<1>1. ~MayRun(t, n)'
  BY DEF MayRun
<1> QED
  BY <1>1, SamePart, Zenon

\* A drain that ends hands its right to run, if it holds the lock, to the next holder.
LEMMA LeaverHandsOver ==
    ASSUME TailerTypeOK, TailerTypeOK', NEW n \in Positions, Paid(n), NEW t \in Tailers,
           at'[t] \in {"idle", "release"}, UNCHANGED <<offset, lock, ran, mishaps>>,
           \A u \in Tailers : u # t => at'[u] = at[u] /\ pos'[u] = pos[u],
           lock # t \/ (Holds(t, n) => ~(n > offset))
    PROVE  Paid(n)'
<1>1. ~MayRun(t, n)' /\ \A u \in Tailers : MayRun(u, n)' => MayRun(u, n)
  BY LeaverOut, Zenon
<1>2. CASE NextMayRun(n)' => NextMayRun(n)
  <2>1. Runners(n)' \subseteq Runners(n)
    BY <1>1, <1>2, RunnersShrink, Zenon
  <2> QED
    BY <2>1, StaysPaid, Zenon
<1>3. CASE NextMayRun(n)' /\ ~NextMayRun(n)
  <2>1. n > offset /\ lock # Nobody /\ (MayRun(lock, n) \/ Holds(lock, n))
    BY <1>3, Zenon DEF NextMayRun
  <2>2. lock = t
    <3> SUFFICES ASSUME lock # t PROVE FALSE
      OBVIOUS
    <3>1. lock \in Tailers
      BY <2>1, Zenon DEF TailerTypeOK
    <3>2. PICK u \in Tailers : u = lock
      BY <3>1, Zenon
    <3>3. (MayRun(u, n)' <=> MayRun(u, n)) /\ (Holds(u, n)' <=> Holds(u, n))
      BY <3>2, SamePart, Zenon
    <3>4. lock' = u /\ lock' # Nobody
      BY <2>1, <3>2, Zenon
    <3>5. ~(MayRun(u, n)' \/ Holds(u, n)')
      BY <1>3, <3>4, Zenon DEF NextMayRun, MayRun, Holds
    <3> QED
      BY <2>1, <3>2, <3>3, <3>5, Zenon
  <2>3. MayRun(t, n)
    BY <2>1, <2>2, Zenon
  <2>4. t \in Runners(n) /\ t # Nobody
    BY <2>3, StoreAssumption, Zenon DEF Runners
  <2>5. Runners(n)' \subseteq (Runners(n) \ {t}) \cup {Nobody}
    BY <1>1, <2>4, RunnersSwap, Zenon
  <2> QED
    BY <2>4, <2>5, StaysPaid, Zenon
<1> QED
  BY <1>2, <1>3, Zenon

\* The lock goes from Nobody to the tailer that polls, and with it the right to run.
LEMMA PollIsPaid ==
    ASSUME TailerTypeOK, TailerTypeOK', NEW n \in Positions, Paid(n), NEW t \in Tailers, Poll(t)
    PROVE  Paid(n)'
<1>1. /\ lock = Nobody /\ lock' = t /\ at[t] = "idle" /\ at'[t] = "head"
      /\ UNCHANGED <<offset, pos, ran, mishaps>>
      /\ \A u \in Tailers : u # t => at'[u] = at[u]
  BY Zenon DEF Poll, Step, TailerTypeOK
<1>2. \A u \in Tailers : u # t => (MayRun(u, n)' => MayRun(u, n))
  BY <1>1, SamePart, Zenon
<1>3. MayRun(t, n)' <=> n > offset
  BY <1>1 DEF MayRun
<1>4. ~NextMayRun(n)'
  BY <1>1, <1>3, StoreAssumption, Zenon DEF NextMayRun, MayRun
<1>5. CASE n > offset
  <2>1. Nobody \in Runners(n)
    BY <1>1, <1>5, Zenon DEF Runners, NextMayRun
  <2>2. Runners(n)' \subseteq (Runners(n) \ {Nobody}) \cup {t}
    BY <1>2, <1>4, StoreAssumption, Zenon DEF Runners
  <2> QED
    BY <1>1, <2>1, <2>2, StaysPaid, Zenon
<1>6. CASE ~(n > offset)
  <2>1. \A u \in Tailers : MayRun(u, n)' => MayRun(u, n)
    BY <1>2, <1>3, <1>6, Zenon
  <2>2. Runners(n)' \subseteq Runners(n)
    BY <1>4, <2>1, RunnersShrink, Zenon
  <2> QED
    BY <1>1, <2>2, StaysPaid, Zenon
<1> QED
  BY <1>5, <1>6, Zenon

\* A call of Apply uses up the right to it.
LEMMA ApplyIsPaid ==
    ASSUME TailerTypeOK, TailerTypeOK', NEW n \in Positions, Paid(n), NEW t \in Tailers, applyEvent(t)
    PROVE  Paid(n)'
<1>1. /\ at[t] = "drain" /\ at'[t] \in {"applied", "poison"}
      /\ UNCHANGED <<offset, lock, pos, mishaps>>
      /\ ran' = [ran EXCEPT ![pos[t] + 1] = @ + 1]
      /\ \A u \in Tailers : u # t => at'[u] = at[u]
  BY Zenon DEF applyEvent, storeVars, TailerTypeOK
<1>2. \A u \in Tailers : u # t => (MayRun(u, n)' <=> MayRun(u, n)) /\ (Holds(u, n)' <=> Holds(u, n))
  BY <1>1, SamePart, Zenon
<1>3. pos[t] \in Nat /\ n \in Nat /\ pos'[t] = pos[t]
  <2>1. n \in 1 .. MaxJournal
    BY Zenon DEF Positions
  <2>2. pos[t] \in Nat /\ pos'[t] = pos[t]
    BY <1>1, Zenon DEF TailerTypeOK
  <2> QED
    BY <2>1, <2>2
<1>4. CASE n = pos[t] + 1
  <2>1. MayRun(t, n) /\ ~MayRun(t, n)' /\ Holds(t, n)'
    BY <1>1, <1>3, <1>4 DEF MayRun, Holds
  <2>2. t \in Runners(n) /\ t # Nobody
    BY <2>1, StoreAssumption, Zenon DEF Runners
  <2>3. NextMayRun(n)' => NextMayRun(n)
    <3>1. CASE lock = t
      BY <1>1, <2>1, <2>2, <3>1, Zenon DEF NextMayRun, MayRun, Holds
    <3>2. CASE lock # t
      BY <1>1, <1>2, <3>2, Zenon DEF NextMayRun, MayRun, Holds, TailerTypeOK
    <3> QED
      BY <3>1, <3>2, Zenon
  <2>4. Runners(n)' \subseteq Runners(n) \ {t}
    BY <1>2, <2>1, <2>2, <2>3, Zenon DEF Runners
  <2>5. ran'[n] = ran[n] + 1
    BY <1>1, <1>4, Zenon DEF TailerTypeOK
  <2> QED
    BY <1>1, <2>2, <2>4, <2>5, StaysPaid, Zenon
<1>5. CASE n # pos[t] + 1
  <2>1. (MayRun(t, n)' <=> MayRun(t, n)) /\ (Holds(t, n)' <=> Holds(t, n))
    BY <1>1, <1>3, <1>5 DEF MayRun, Holds
  <2>2. Runners(n)' \subseteq Runners(n)
    BY <1>1, <1>2, <2>1, SameParts, Zenon DEF TailerTypeOK
  <2>3. ran'[n] = ran[n]
    BY <1>1, <1>5, Zenon DEF TailerTypeOK
  <2> QED
    BY <1>1, <2>2, <2>3, StaysPaid, Zenon
<1> QED
  BY <1>4, <1>5, Zenon

\* An accepted write takes the checkpoint past the entry: nobody will run it again who would
\* not have before.
LEMMA AcceptIsPaid ==
    ASSUME TailerInv, TailerTypeOK', NEW n \in Positions, Paid(n), NEW t \in Tailers,
           commitEvent(t) \/ skipPoisonEvent(t), Accepts(t, pos[t] + 1)
    PROVE  Paid(n)'
<1>0. TailerTypeOK
  BY Zenon DEF TailerInv
<1>1. /\ pos[t] = offset /\ offset' = offset + 1
      /\ pos' = [pos EXCEPT ![t] = offset + 1] /\ at' = [at EXCEPT ![t] = "drain"]
  BY AdvanceKeeps, Zenon
<1>2. at[t] \in {"applied", "poison"} /\ UNCHANGED <<lock, ran, mishaps>>
  BY Zenon DEF commitEvent, skipPoisonEvent
<1>3. /\ at'[t] = "drain" /\ pos'[t] = offset + 1
      /\ \A u \in Tailers : u # t => at'[u] = at[u] /\ pos'[u] = pos[u]
  BY <1>0, <1>1, Zenon DEF TailerTypeOK
<1>4. n \in Nat /\ offset \in Nat
  BY <1>0 DEF TailerTypeOK, Positions
<1>5. MayRun(t, n)' <=> MayRun(t, n)
  BY <1>1, <1>2, <1>3 DEF MayRun
<1>6. ASSUME NEW u \in Tailers, u # t
      PROVE  /\ MayRun(u, n)' => MayRun(u, n)
             /\ Holds(u, n)' <=> Holds(u, n)
             /\ n > offset + 1 => (MayRun(u, n)' <=> MayRun(u, n))
  <2>1. at'[u] = at[u] /\ pos'[u] = pos[u]
    BY <1>3, <1>6, Zenon
  <2>2. n > offset' => n > offset
    BY <1>1, <1>4
  <2>3. n > offset + 1 => n > offset /\ n > offset'
    BY <1>1, <1>4
  <2> QED
    BY <2>1, <2>2, <2>3, Zenon DEF MayRun, Holds
<1>7. NextMayRun(n)' => NextMayRun(n)
  <2> SUFFICES ASSUME NextMayRun(n)' PROVE NextMayRun(n)
    OBVIOUS
  <2>1. n > offset + 1 /\ n > offset /\ n # pos[t] + 1
    <3>1. n > offset + 1
      BY <1>1, Zenon DEF NextMayRun
    <3> QED
      BY <1>1, <1>4, <3>1
  <2>2. CASE lock = Nobody
    BY <2>1, <2>2, Zenon DEF NextMayRun
  <2>3. CASE lock = t
    <3>1. ~MayRun(t, n)'
      BY <1>2, <2>3, StoreAssumption, Zenon DEF NextMayRun, MayRun
    <3>2. ~MayRun(t, n) /\ ~Holds(t, n)
      BY <1>5, <2>1, <3>1, Zenon DEF Holds
    <3> QED
      BY <2>1, <2>3, <3>2, Zenon DEF NextMayRun
  <2>4. CASE lock # t /\ lock # Nobody
    <3>1. PICK u \in Tailers : u = lock /\ u # t
      BY <1>0, <2>4, Zenon DEF TailerTypeOK
    <3>2. ~MayRun(u, n)' /\ ~Holds(u, n)'
      BY <1>2, <2>4, <3>1, Zenon DEF NextMayRun, MayRun, Holds
    <3>3. ~MayRun(u, n) /\ ~Holds(u, n)
      BY <1>6, <2>1, <3>1, <3>2, Zenon
    <3> QED
      BY <2>1, <3>1, <3>3, Zenon DEF NextMayRun
  <2> QED
    BY <2>2, <2>3, <2>4, Zenon
<1>8. Runners(n)' \subseteq Runners(n)
  BY <1>5, <1>6, <1>7, RunnersShrink, Zenon
<1> QED
  BY <1>0, <1>2, <1>8, StaysPaid, Zenon

\* The lock is released, or its lease runs out, after the drain.
LEMMA UnlockIsPaid ==
    ASSUME TailerTypeOK, TailerTypeOK', NEW n \in Positions, Paid(n),
           Expire \/ \E t \in Tailers : Release(t)
    PROVE  Paid(n)'
<1>1. PICK t \in Tailers :
          /\ at[t] \in {"idle", "release"} /\ at'[t] = "idle" /\ UNCHANGED <<offset, ran, mishaps>>
          /\ \A u \in Tailers : u # t => at'[u] = at[u] /\ pos'[u] = pos[u]
          /\ lock' = IF lock = t THEN Nobody ELSE lock
  <2>1. CASE Expire
    <3>1. lock \in Tailers
      BY <2>1, Zenon DEF Expire, TailerTypeOK
    <3> QED
      BY <2>1, <3>1, Zenon DEF Expire, storeVars
  <2>2. ASSUME NEW t \in Tailers, Release(t)
        PROVE  /\ at[t] \in {"idle", "release"} /\ at'[t] = "idle" /\ UNCHANGED <<offset, ran, mishaps>>
               /\ \A u \in Tailers : u # t => at'[u] = at[u] /\ pos'[u] = pos[u]
               /\ lock' = IF lock = t THEN Nobody ELSE lock
    BY <2>2, Zenon DEF Release, Forget, Step, storeVars, TailerTypeOK
  <2> QED
    BY <2>1, <2>2, Zenon
<1>2. ~MayRun(t, n) /\ ~Holds(t, n)
  BY <1>1, Outside, Zenon
<1>3. \A u \in Tailers : MayRun(u, n)' => MayRun(u, n)
  BY <1>1, LeaverOut, Zenon
<1>4. NextMayRun(n)' => NextMayRun(n)
  <2> SUFFICES ASSUME NextMayRun(n)' PROVE NextMayRun(n)
    OBVIOUS
  <2>1. n > offset
    BY <1>1, Zenon DEF NextMayRun
  <2>2. CASE lock \in {t, Nobody}
    BY <1>2, <2>1, <2>2, Zenon DEF NextMayRun
  <2>3. CASE lock \notin {t, Nobody}
    <3>1. PICK u \in Tailers : u = lock /\ u # t
      BY <2>3, Zenon DEF TailerTypeOK
    <3>2. lock' = lock
      BY <1>1, <2>3, Zenon
    <3>3. ~MayRun(u, n)' /\ ~Holds(u, n)'
      BY <2>3, <3>1, <3>2, Zenon DEF NextMayRun, MayRun, Holds
    <3>4. ~MayRun(u, n) /\ ~Holds(u, n)
      BY <1>1, <3>1, <3>3, SamePart, Zenon
    <3> QED
      BY <2>1, <3>1, <3>4, Zenon DEF NextMayRun
  <2> QED
    BY <2>2, <2>3, Zenon
<1>5. Runners(n)' \subseteq Runners(n)
  BY <1>3, <1>4, RunnersShrink, Zenon
<1> QED
  BY <1>1, <1>5, StaysPaid, Zenon

\* The reads of a drain, and the steps that are not of a tailer.
LEMMA ReadIsPaid ==
    ASSUME TailerTypeOK, TailerTypeOK', NEW n \in Positions, Paid(n),
           TailerAppend \/ UNCHANGED tailerAll \/ \E t \in Tailers : ReadHead(t) \/ LoadOffset(t)
    PROVE  Paid(n)'
<1>1. UNCHANGED <<offset, lock, ran, mishaps>>
  BY Zenon DEF TailerAppend, JournalGrows, ReadHead, LoadOffset, tailerAll, tailerVars, storeVars
<1>2. ASSUME NEW u \in Tailers
      PROVE  (MayRun(u, n)' <=> MayRun(u, n)) /\ (Holds(u, n)' <=> Holds(u, n))
  <2>1. \/ at'[u] = at[u] /\ pos'[u] = pos[u]
        \/ at[u] = "head" /\ at'[u] = "load"
        \/ at[u] = "load" /\ at'[u] = "drain" /\ pos'[u] = offset
    BY Zenon DEF TailerAppend, JournalGrows, ReadHead, LoadOffset, Step, tailerAll, tailerVars, TailerTypeOK
  <2>2. CASE at'[u] = at[u] /\ pos'[u] = pos[u]
    BY <1>1, <2>2, SamePart, Zenon
  <2>3. CASE at[u] = "head" /\ at'[u] = "load"
    BY <1>1, <2>3 DEF MayRun, Holds
  <2>4. CASE at[u] = "load" /\ at'[u] = "drain" /\ pos'[u] = offset
    BY <1>1, <2>4 DEF MayRun, Holds
  <2> QED
    BY <2>1, <2>2, <2>3, <2>4, Zenon
<1>3. Runners(n)' \subseteq Runners(n)
  BY <1>1, <1>2, SameParts, Zenon DEF TailerTypeOK
<1> QED
  BY <1>1, <1>3, StaysPaid, Zenon

\* Every step keeps the account.
LEMMA NextRunInv ==
    ASSUME TailerInv, RunInv, [TailerNext]_tailerAll
    PROVE  RunInv'
<1> SUFFICES ASSUME NEW n \in Positions PROVE Paid(n)'
  BY Zenon DEF RunInv
<1>0. TailerTypeOK /\ TailerTypeOK' /\ Paid(n)
  BY NextTailerTypeOK, Zenon DEF TailerInv, RunInv
<1>1. CASE TailerAppend \/ UNCHANGED tailerAll \/ \E t \in Tailers : ReadHead(t) \/ LoadOffset(t)
  BY <1>0, <1>1, ReadIsPaid, Zenon
<1>2. CASE Expire \/ \E t \in Tailers : Release(t)
  BY <1>0, <1>2, UnlockIsPaid, Zenon
<1>3. CASE LoseLock
  <2>1. UNCHANGED <<at, pos, offset, ran>> /\ mishaps' = mishaps + 1
    BY <1>3, Zenon DEF LoseLock, Mishap, storeVars
  <2>2. \A u \in Tailers : MayRun(u, n)' => MayRun(u, n)
    BY <2>1, SamePart, Zenon
  <2> QED
    BY <1>0, <2>1, <2>2, MishapIsPaid, Zenon
<1>4. ASSUME NEW t \in Tailers, Poll(t) PROVE Paid(n)'
  BY <1>0, <1>4, PollIsPaid, Zenon
<1>5. ASSUME NEW t \in Tailers, applyEvent(t) PROVE Paid(n)'
  BY <1>0, <1>5, ApplyIsPaid, Zenon
<1>6. ASSUME NEW t \in Tailers, commitEvent(t) \/ skipPoisonEvent(t) PROVE Paid(n)'
  <2>1. CASE Accepts(t, pos[t] + 1)
    BY <1>0, <1>6, <2>1, AcceptIsPaid, Zenon
  <2>2. CASE ~Accepts(t, pos[t] + 1)
    <3>1. /\ at'[t] = "release" /\ UNCHANGED <<offset, lock, ran, mishaps>>
          /\ \A u \in Tailers : u # t => at'[u] = at[u] /\ pos'[u] = pos[u]
      BY <1>0, <1>6, <2>2, Zenon DEF commitEvent, skipPoisonEvent, AdvanceIfOwner, TailerTypeOK
    <3>2. Holds(t, n) => ~(n > offset)
      BY <2>2, Zenon DEF Holds, Accepts
    <3> QED
      BY <1>0, <3>1, <3>2, LeaverHandsOver, Zenon
  <2> QED
    BY <2>1, <2>2, Zenon
<1>7. ASSUME NEW t \in Tailers, stopAtHead(t) PROVE Paid(n)'
  <2>1. /\ at'[t] = "release" /\ UNCHANGED <<offset, lock, ran, mishaps>>
        /\ \A u \in Tailers : u # t => at'[u] = at[u] /\ pos'[u] = pos[u]
    BY <1>0, <1>7, Zenon DEF stopAtHead, Step, storeVars, TailerTypeOK
  <2>2. ~Holds(t, n)
    BY <1>7 DEF stopAtHead, Step, Holds
  <2> QED
    BY <1>0, <2>1, <2>2, LeaverHandsOver, Zenon
<1>8. ASSUME NEW t \in Tailers, Abort(t) \/ Crash(t) PROVE Paid(n)'
  <2>1. /\ at'[t] \in {"idle", "release"} /\ UNCHANGED <<offset, lock, ran>>
        /\ \A u \in Tailers : u # t => at'[u] = at[u] /\ pos'[u] = pos[u]
    BY <1>0, <1>8, Zenon DEF Abort, Crash, Forget, storeVars, TailerTypeOK
  <2>2. mishaps' = mishaps + 1 \/ (mishaps' = mishaps /\ lock # t)
    BY <1>8, Zenon DEF Abort, Crash, Mishap
  <2>3. CASE mishaps' = mishaps + 1
    <3>1. \A u \in Tailers : MayRun(u, n)' => MayRun(u, n)
      BY <2>1, LeaverOut, Zenon
    <3> QED
      BY <1>0, <2>1, <2>3, <3>1, MishapIsPaid, Zenon
  <2>4. CASE mishaps' = mishaps /\ lock # t
    BY <1>0, <2>1, <2>4, LeaverHandsOver, Zenon
  <2> QED
    BY <2>2, <2>3, <2>4, Zenon
<1> QED
  BY <1>1, <1>2, <1>3, <1>4, <1>5, <1>6, <1>7, <1>8, Zenon DEF TailerNext, Drain

----------------------------------------------------------------------------
(* The projection coordinator.                                             *)

Deliveries(h) ==
    [at : {"idle", "gate", "parked", "begun", "loaded"}, pos : 0 .. h, read : Nat, tries : Nat]

Rebuilds(h) ==
    [at : {"idle", "admitted", "head0", "reset", "wiped", "query", "drain", "loaded", "drained",
           "head1", "handoff", "opened"},
     head0 : 0 .. h, through : 0 .. h, snap : 0 .. h, pos : 0 .. h, read : Nat, kept : 0 .. h,
     canceled : BOOLEAN, gap : BOOLEAN]

ProjectionTypeOK ==
    /\ head \in 0 .. MaxJournal
    /\ offset \in 0 .. head
    /\ applied \in [Positions -> Nat]
    /\ phase \in {"live", "stopped", "reset", "replay", "catchup"}
    /\ gate \in {"open", "shut"}
    /\ seen \in 0 .. head
    /\ live \in Deliveries(head)
    /\ reb \in Rebuilds(head)
    /\ clean \in BOOLEAN

PastGate == live.at \in {"begun", "loaded"}

Resetting == reb.at \in {"reset", "wiped"}

Replaying == reb.at \in {"query", "drain", "loaded", "drained", "head1", "handoff"}

\* Where the rebuild is, in its own state, in the phase and at the gate.
Shape ==
    /\ reb.at = "idle" <=> phase = "live"
    /\ reb.at \in {"admitted", "head0"} => phase = "stopped"
    /\ Resetting => phase = "reset"
    /\ reb.at \in {"query", "drain", "loaded", "drained"} => phase \in {"replay", "catchup"}
    /\ reb.at \in {"head1", "handoff"} => phase = "catchup"
    /\ reb.at = "head0" \/ Resetting \/ Replaying => gate = "shut"
    /\ live.at # "idle" => live.pos \in Own /\ live.pos <= seen

\* The events the bus has delivered beyond n: at most the one at hand.
Covered(n, ats) == \A m \in Own : n < m /\ m <= seen => live.at \in ats /\ m = live.pos

\* Live delivery misses nothing, and has its read to itself.
LiveOK ==
    clean /\ ~Replaying =>
        /\ Covered(offset, {"gate", "parked", "begun", "loaded"})
        /\ live.at = "loaded" => live.read = offset

\* Between the first head and the reset the handler past the gate is behind the head.
ResetOK ==
    Resetting =>
        /\ reb.through = reb.head0
        /\ reb.gap \/ Covered(reb.head0, {"gate", "parked"})
        /\ PastGate => live.pos <= reb.head0

\* After the reset the rebuild is alone, and every entry it has passed is covered.
ReplayOK ==
    clean /\ Replaying =>
        /\ ~PastGate
        /\ reb.head0 <= reb.through
        /\ phase = "replay" \/ reb.at = "head1" =>
              /\ reb.through = reb.head0
              /\ reb.gap \/ Covered(reb.head0, {"gate", "parked"})
        /\ phase = "catchup" /\ reb.at \in {"query", "drain", "loaded", "drained"} =>
              Covered(reb.through, {"gate", "parked"})
        /\ reb.at \in {"query", "drain"} => reb.pos <= offset
        /\ reb.at \in {"drain", "loaded"} => reb.through <= reb.snap
        /\ reb.at = "loaded" => reb.read = offset /\ reb.pos <= offset + 1
        /\ reb.at \in {"drained", "head1"} => reb.through <= offset
        /\ reb.at = "handoff" => Covered(offset, {"gate", "parked"})

ProjectionInv ==
    /\ driver = "coordinator" /\ ProjectionTypeOK /\ Shape
    /\ LiveOK /\ ResetOK /\ ReplayOK
    /\ NoHole

\* What of the state is a number, and how they are ordered.
LEMMA Numbers ==
    ASSUME ProjectionTypeOK
    PROVE  /\ head \in Nat /\ offset \in Nat /\ seen \in Nat
           /\ live.pos \in Nat /\ live.read \in Nat
           /\ reb.head0 \in Nat /\ reb.through \in Nat /\ reb.snap \in Nat
           /\ reb.pos \in Nat /\ reb.read \in Nat /\ reb.kept \in Nat
           /\ head <= MaxJournal /\ offset <= head /\ seen <= head
           /\ Own \subseteq Nat /\ \A m \in Own : m \in Positions /\ 0 < m
  BY StoreAssumption, ProjectionAssumption DEF ProjectionTypeOK, Deliveries, Rebuilds, Positions

Less == OpToRel(<, Nat)

\* Numbers are well ordered.
LEMMA Least ==
    ASSUME NEW S \in SUBSET Nat, S # {}
    PROVE  Min(S) \in S /\ \A y \in S : Min(S) <= y
<1>1. \A x, y \in Nat : y < x => <<y, x>> \in Less
  <2> SUFFICES ASSUME NEW x \in Nat, NEW y \in Nat, y < x PROVE <<y, x>> \in Less
    OBVIOUS
  <2>1. <<y, x>> \in Nat \X Nat /\ <<y, x>>[1] < <<y, x>>[2]
    OBVIOUS
  <2> QED
    BY <2>1, Zenon DEF Less, OpToRel
<1>2. IsWellFoundedOn(Less, Nat)
  BY NatLessThanWellFounded, Zenon DEF Less
<1>3. PICK x \in S : \A y \in S : ~(<<y, x>> \in Less)
  BY <1>2, WFMin, Zenon
<1>4. \A y \in S : x <= y
  <2>1. \A y \in S : x \in Nat /\ y \in Nat /\ ~(y < x)
    BY <1>1, <1>3, Zenon
  <2> QED
    BY <2>1
<1> QED
  BY <1>4, Zenon DEF Min

\* The bus delivers the first of the events that wait.
LEMMA FirstWaiting ==
    ASSUME ProjectionTypeOK, Waiting # {}
    PROVE  /\ Min(Waiting) \in Own /\ seen < Min(Waiting) /\ Min(Waiting) <= head
           /\ Min(Waiting) \in Nat
           /\ \A m \in Own : m <= Min(Waiting) => m <= seen \/ m = Min(Waiting)
<1>1. Waiting \in SUBSET Nat
  BY Numbers, Zenon DEF Waiting
<1>2. Min(Waiting) \in Waiting /\ \A y \in Waiting : Min(Waiting) <= y
  BY <1>1, Least, Zenon
<1> HIDE DEF Waiting
<1>3. PICK k \in Nat : k = Min(Waiting)
  BY <1>1, <1>2, Zenon
<1>4. k \in Waiting /\ \A y \in Waiting : k <= y
  BY <1>2, <1>3, Zenon
<1>5. k \in Own /\ seen < k /\ k <= head
  BY <1>4, Zenon DEF Waiting
<1>6. ASSUME NEW m \in Own, m <= k PROVE m <= seen \/ m = k
  BY <1>4, <1>5, <1>6, Numbers DEF Waiting
<1> QED
  BY <1>3, <1>5, <1>6, Zenon

\* The fields of a rebuild may be assigned one by one.
LEMMA RebuildTyped ==
    ASSUME NEW h \in Nat, NEW r \in Rebuilds(h),
           NEW a \in {"idle", "admitted", "head0", "reset", "wiped", "query", "drain", "loaded",
                      "drained", "head1", "handoff", "opened"},
           NEW n \in 0 .. h, NEW m \in 0 .. h, NEW k \in Nat
    PROVE  /\ [r EXCEPT !.at = a] \in Rebuilds(h)
           /\ [r EXCEPT !.at = a, !.head0 = n, !.through = n] \in Rebuilds(h)
           /\ [r EXCEPT !.at = a, !.pos = n, !.kept = m] \in Rebuilds(h)
           /\ [r EXCEPT !.at = a, !.snap = n] \in Rebuilds(h)
           /\ [r EXCEPT !.at = a, !.pos = n, !.read = k] \in Rebuilds(h)
           /\ [r EXCEPT !.at = a, !.pos = n, !.through = m] \in Rebuilds(h)
<1>1. /\ [r EXCEPT !.at = a] \in Rebuilds(h)
      /\ [r EXCEPT !.at = a, !.head0 = n, !.through = n] \in Rebuilds(h)
  BY Zenon DEF Rebuilds
<1>2. /\ [r EXCEPT !.at = a, !.pos = n, !.kept = m] \in Rebuilds(h)
      /\ [r EXCEPT !.at = a, !.snap = n] \in Rebuilds(h)
  BY Zenon DEF Rebuilds
<1>3. /\ [r EXCEPT !.at = a, !.pos = n, !.read = k] \in Rebuilds(h)
      /\ [r EXCEPT !.at = a, !.pos = n, !.through = m] \in Rebuilds(h)
  BY Zenon DEF Rebuilds
<1> QED
  BY <1>1, <1>2, <1>3, Zenon

\* Nothing has been delivered yet.
LEMMA InitProjectionInv ==
    ASSUME StoreInit, ProjectionInit, driver = "coordinator"
    PROVE  ProjectionInv
<1> USE DEF StoreInit, ProjectionInit
<1>1. ProjectionTypeOK
  BY StoreAssumption DEF ProjectionTypeOK, Deliveries, Rebuilds, NoDelivery, NoRebuild
<1>2. live.at = "idle" /\ reb.at = "idle"
  BY Zenon DEF NoDelivery, NoRebuild
<1>3. Shape /\ ResetOK /\ ReplayOK
  BY <1>2, Zenon DEF Shape, ResetOK, ReplayOK, Resetting, Replaying
<1>4. LiveOK
  BY <1>1, <1>2, Numbers DEF LiveOK, Covered
<1>5. NoHole
  BY StoreAssumption DEF NoHole, Positions
<1> QED
  BY <1>1, <1>3, <1>4, <1>5, Zenon DEF ProjectionInv

----------------------------------------------------------------------------
(* Steps of the bus and of the live handler.                               *)

\* The steps that change neither the read model nor the rebuild, and leave the handler
\* outside the gate or where it was.
LEMMA DeliverKeeps ==
    ASSUME ProjectionInv, Deliver \/ \E n \in Own : Redeliver(n)
    PROVE  ProjectionInv'
<1> USE DEF ProjectionInv
<1>0. UNCHANGED <<driver, head, offset, applied, phase, gate, reb, clean>> /\ live.at = "idle"
  BY Zenon DEF Deliver, Redeliver, storeVars
<1>1. PICK n \in Own :
          /\ live' = [NoDelivery EXCEPT !.at = "gate", !.pos = n]
          /\ n <= seen' /\ seen' <= head /\ seen' \in Nat
          /\ \A m \in Own : m <= seen' => m <= seen \/ m = n
  <2>1. CASE Deliver
    <3>1. Waiting # {} /\ seen' = Min(Waiting) /\ live' = [NoDelivery EXCEPT !.at = "gate", !.pos = seen']
      BY <2>1, Zenon DEF Deliver
    <3>2. PICK n \in Own : n = Min(Waiting)
      BY <3>1, FirstWaiting, Zenon
    <3>3. n \in Nat /\ n <= head /\ \A m \in Own : m <= n => m <= seen \/ m = n
      BY <3>1, <3>2, FirstWaiting, Zenon
    <3>4. seen' = n /\ live' = [NoDelivery EXCEPT !.at = "gate", !.pos = n]
      BY <3>1, <3>2, Zenon
    <3>5. n <= n
      BY <3>3, SMTT(30)
    <3> QED
      BY <3>3, <3>4, <3>5, Zenon
  <2>2. CASE \E n \in Own : Redeliver(n)
    <3>1. PICK n \in Own : Redeliver(n)
      BY <2>2, Zenon
    <3>2. seen' = seen /\ head' = head /\ n <= seen /\ live' = [NoDelivery EXCEPT !.at = "gate", !.pos = n]
      BY <3>1, Zenon DEF Redeliver, storeVars
    <3>3. seen \in Nat /\ seen <= head
      BY Numbers, Zenon
    <3> QED
      BY <3>2, <3>3, Zenon
  <2> QED
    BY <2>1, <2>2, Zenon
<1>2. live'.at = "gate" /\ live'.pos = n /\ live'.read = 0 /\ live'.tries = 0
  BY <1>1, Zenon DEF NoDelivery
<1>3. ProjectionTypeOK'
  <2>1. live' \in Deliveries(head)
    <3>1. n \in 0 .. head
      BY <1>1, Numbers
    <3>2. live' = [at |-> "gate", pos |-> n, read |-> 0, tries |-> 0]
      BY <1>1, Zenon DEF NoDelivery
    <3> QED
      BY <3>1, <3>2, Zenon DEF Deliveries
  <2> QED
    BY <1>0, <1>1, <2>1, Numbers DEF ProjectionTypeOK
<1>5. Shape'
  BY <1>0, <1>1, <1>2, Zenon DEF Shape, Resetting, Replaying
<1>6. LiveOK'
  <2> SUFFICES ASSUME clean, ~Replaying
               PROVE  Covered(offset, {"gate", "parked", "begun", "loaded"})'
    BY <1>0, <1>2, Zenon DEF LiveOK, Replaying
  <2>1. Covered(offset, {"gate", "parked", "begun", "loaded"})
    BY Zenon DEF LiveOK
  <2> QED
    BY <1>0, <1>1, <1>2, <2>1, Numbers, Zenon DEF Covered
<1>7. ResetOK'
  <2>1. Covered(reb.head0, {"gate", "parked"}) => Covered(reb.head0, {"gate", "parked"})'
    BY <1>0, <1>1, <1>2, Numbers, Zenon DEF Covered
  <2> QED
    BY <1>0, <1>2, <2>1, Zenon DEF ResetOK, PastGate, Resetting
<1>8. ReplayOK'
  <2>1. /\ Covered(reb.head0, {"gate", "parked"}) => Covered(reb.head0, {"gate", "parked"})'
        /\ Covered(reb.through, {"gate", "parked"}) => Covered(reb.through, {"gate", "parked"})'
        /\ Covered(offset, {"gate", "parked"}) => Covered(offset, {"gate", "parked"})'
    BY <1>0, <1>1, <1>2, Numbers, Zenon DEF Covered
  <2> QED
    BY <1>0, <1>2, <2>1, Zenon DEF ReplayOK, Replaying, PastGate
<1>9. NoHole'
  BY <1>0, Zenon DEF NoHole
<1> QED
  BY <1>0, <1>3, <1>5, <1>6, <1>7, <1>8, <1>9, Zenon

\* The bus loses an event: nothing is promised any more, but a rebuild that is about to
\* reset notes what it may miss.
LEMMA LoseKeeps ==
    ASSUME ProjectionInv, Lose
    PROVE  ProjectionInv'
<1> USE DEF ProjectionInv
<1>0. /\ UNCHANGED <<driver, head, offset, applied, phase, gate, live>>
      /\ clean' = FALSE /\ Waiting # {} /\ seen' = Min(Waiting)
      /\ reb' = [reb EXCEPT !.gap = @ \/ (Resetting /\ reb.head0 < seen')]
  BY Zenon DEF Lose, storeVars, Resetting
<1>1. seen' \in Nat /\ seen' <= head /\ seen <= seen'
  BY <1>0, FirstWaiting, Numbers
<1>2. /\ reb'.at = reb.at /\ reb'.head0 = reb.head0 /\ reb'.through = reb.through
      /\ reb'.gap = (reb.gap \/ (Resetting /\ reb.head0 < seen'))
  BY <1>0, Zenon DEF ProjectionTypeOK, Rebuilds
<1>3. ProjectionTypeOK'
  <2>1. PICK g \in BOOLEAN : reb' = [reb EXCEPT !.gap = g]
    BY <1>0, Zenon
  <2>2. reb' \in Rebuilds(head)
    BY <2>1, Zenon DEF ProjectionTypeOK, Rebuilds
  <2>3. seen' \in 0 .. head
    BY <1>1, Numbers
  <2>4. clean' \in BOOLEAN
    BY <1>0, Zenon
  <2> QED
    BY <1>0, <2>2, <2>3, <2>4, Zenon DEF ProjectionTypeOK
<1>4. Shape'
  BY <1>0, <1>1, <1>2, Numbers DEF Shape, Resetting, Replaying
<1>5. ResetOK'
  <2> SUFFICES ASSUME Resetting, ~(reb.head0 < seen')
               PROVE  Covered(reb.head0, {"gate", "parked"})'
    BY <1>0, <1>2, Zenon DEF ResetOK, PastGate, Resetting
  <2> QED
    BY <1>1, <1>2, Numbers DEF Covered
<1> QED
  BY <1>0, <1>3, <1>4, <1>5, Zenon DEF LiveOK, ReplayOK, NoHole

\* The handler at the gate.
LEMMA GateKeeps ==
    ASSUME ProjectionInv, enterGate
    PROVE  ProjectionInv'
<1> USE DEF ProjectionInv
<1>0. /\ UNCHANGED <<driver, head, offset, applied, phase, gate, seen, reb, clean>>
      /\ live.at = "gate"
      /\ live' = [live EXCEPT !.at = IF gate = "open" THEN "begun" ELSE "parked"]
  BY Zenon DEF enterGate, storeVars
<1>1. /\ live'.at = IF gate = "open" THEN "begun" ELSE "parked"
      /\ live'.pos = live.pos
  BY <1>0, Zenon DEF ProjectionTypeOK, Deliveries
<1>2. ProjectionTypeOK'
  BY <1>0, Zenon DEF ProjectionTypeOK, Deliveries
<1>3. Shape'
  BY <1>0, <1>1, Zenon DEF Shape, Resetting, Replaying
<1>4. LiveOK'
  BY <1>0, <1>1 DEF LiveOK, Replaying, Covered
<1>5. CASE gate = "open"
  BY <1>0, <1>1, <1>2, <1>3, <1>4, <1>5, Zenon DEF ResetOK, ReplayOK, NoHole, Shape, Resetting, Replaying
<1>6. CASE gate # "open"
  <2>1. live'.at = "parked"
    BY <1>1, <1>6, Zenon
  <2>2. ResetOK'
    BY <1>0, <1>1, <2>1, Zenon DEF ResetOK, Covered, PastGate, Resetting
  <2>3. ReplayOK'
    <3>1. ASSUME NEW k, Covered(k, {"gate", "parked"})
          PROVE  \A m \in Own : k < m /\ m <= seen => live'.at \in {"gate", "parked"} /\ m = live'.pos
      BY <1>1, <2>1, <3>1, Zenon DEF Covered
    <3> QED
      BY <1>0, <2>1, <3>1, Zenon DEF ReplayOK, Replaying, PastGate, Covered
  <2> QED
    BY <1>0, <1>2, <1>3, <1>4, <2>2, <2>3, Zenon DEF NoHole
<1> QED
  BY <1>5, <1>6, Zenon

\* A handler past the gate is there before the reset, or the read model is not clean.
LEMMA PastGateIsAlone ==
    ASSUME ProjectionInv, PastGate
    PROVE  /\ clean => ~Replaying
           /\ Resetting => reb.gap \/ \A m \in Own : m <= seen => m <= reb.head0
<1>1. clean => ~Replaying
  BY Zenon DEF ProjectionInv, ReplayOK
<1>2. ASSUME Resetting, ~reb.gap, NEW m \in Own, m <= seen PROVE m <= reb.head0
  <2>1. Covered(reb.head0, {"gate", "parked"})
    BY <1>2, Zenon DEF ProjectionInv, ResetOK, Resetting
  <2>2. ~(reb.head0 < m)
    BY <1>2, <2>1, Zenon DEF Covered, PastGate
  <2> QED
    BY <2>2, Numbers DEF ProjectionInv
<1> QED
  BY <1>1, <1>2, Zenon

\* The live handler reads the checkpoint.
LEMMA LoadKeeps ==
    ASSUME ProjectionInv, liveLoad
    PROVE  ProjectionInv'
<1> USE DEF ProjectionInv
<1>0. /\ UNCHANGED <<driver, head, offset, applied, phase, gate, seen, reb, clean>>
      /\ live.at = "begun"
      /\ live' = [live EXCEPT !.at = "loaded", !.read = offset]
  BY Zenon DEF liveLoad, storeVars
<1>1. live'.at = "loaded" /\ live'.pos = live.pos /\ live'.read = offset /\ PastGate
  BY <1>0, Zenon DEF ProjectionTypeOK, Deliveries, PastGate
<1>2. ProjectionTypeOK'
  BY <1>0, Numbers, Zenon DEF ProjectionTypeOK, Deliveries
<1>3. Shape'
  BY <1>0, <1>1, Zenon DEF Shape, Resetting, Replaying
<1>4. LiveOK'
  BY <1>0, <1>1, Zenon DEF LiveOK, Replaying, Covered
<1>5. ResetOK'
  BY <1>0, <1>1, PastGateIsAlone, Numbers, Zenon DEF ResetOK, Covered, PastGate, Resetting
<1>6. ReplayOK'
  BY <1>0, <1>1, PastGateIsAlone, Zenon DEF ReplayOK, Replaying
<1> QED
  BY <1>0, <1>2, <1>3, <1>4, <1>5, <1>6, Zenon DEF NoHole

\* The handler commits the entry that comes next, or one that the checkpoint covers.
LEMMA CommitKeeps ==
    ASSUME ProjectionInv, liveCommit
    PROVE  ProjectionInv'
<1> USE DEF ProjectionInv
<1>0. /\ UNCHANGED <<driver, head, phase, gate, seen, clean>>
      /\ live.at = "loaded" /\ live' = NoDelivery
      /\ reb' \in {reb, [reb EXCEPT !.kept = live.pos], [reb EXCEPT !.kept = reb.kept]}
  BY Zenon DEF liveCommit
<1>1. live'.at = "idle" /\ PastGate
  BY <1>0, Zenon DEF NoDelivery, PastGate
<1>2. live.pos \in Own /\ live.pos <= seen /\ live.pos \in Positions
  BY <1>0, Numbers, Zenon DEF Shape, Resetting
<1>3. /\ reb' \in Rebuilds(head) /\ reb'.at = reb.at /\ reb'.head0 = reb.head0
       /\ reb'.through = reb.through /\ reb'.gap = reb.gap
  <2>1. reb \in Rebuilds(head) /\ head \in Nat /\ live.pos \in 0 .. head /\ reb.kept \in 0 .. head
    BY Numbers, Zenon DEF ProjectionTypeOK, Deliveries, Rebuilds
  <2>2. PICK k \in 0 .. head : reb' \in {reb, [reb EXCEPT !.kept = k]}
    BY <1>0, <2>1, Zenon
  <2>3. [reb EXCEPT !.kept = k] \in Rebuilds(head)
    BY <2>1, Zenon DEF Rebuilds
  <2> QED
    BY <2>1, <2>2, <2>3, Zenon DEF Rebuilds
<1>4. \/ /\ live.pos > live.read /\ offset' = live.pos
         /\ applied' = [applied EXCEPT ![live.pos] = @ + 1]
      \/ ~(live.pos > live.read) /\ UNCHANGED <<offset, applied>>
  BY Zenon DEF liveCommit, Proceeds, Apply, SaveOffset
<1>5. ProjectionTypeOK'
  <2>1. live' \in Deliveries(head)
    BY <1>0, Numbers DEF NoDelivery, Deliveries
  <2>2. offset' \in 0 .. head
    BY <1>2, <1>4, Numbers
  <2>3. applied' \in [Positions -> Nat]
    BY <1>2, <1>4 DEF ProjectionTypeOK
  <2> QED
    BY <1>0, <1>3, <2>1, <2>2, <2>3, Zenon DEF ProjectionTypeOK
<1>6. Shape'
  BY <1>0, <1>1, <1>3, Zenon DEF Shape, Resetting, Replaying
<1>7. ASSUME clean
      PROVE  /\ live.read = offset
             /\ \A m \in Own : offset < m /\ m <= seen => m = live.pos
  BY <1>0, <1>1, <1>7, PastGateIsAlone, Zenon DEF LiveOK, Covered
<1>8. LiveOK'
  <2> SUFFICES ASSUME clean, NEW m \in Own, offset' < m, m <= seen PROVE FALSE
    BY <1>0, <1>1, Zenon DEF LiveOK, Covered
  <2> QED
    BY <1>4, <1>7, Numbers
<1>9. ResetOK'
  BY <1>0, <1>1, <1>3, PastGateIsAlone, Numbers, Zenon DEF ResetOK, Resetting, Covered, PastGate
<1>10. ReplayOK'
  BY <1>0, <1>1, <1>3, PastGateIsAlone, Zenon DEF ReplayOK, Replaying
<1>11. NoHole'
  <2> SUFFICES ASSUME clean, NEW n \in Positions
               PROVE  applied'[n] = IF n \in Own /\ n <= offset' THEN 1 ELSE 0
    BY <1>0, Zenon DEF NoHole
  <2>1. applied[n] = (IF n \in Own /\ n <= offset THEN 1 ELSE 0) /\ n \in Nat
    BY DEF NoHole, Positions
  <2>2. CASE UNCHANGED <<offset, applied>>
    BY <2>1, <2>2, Zenon
  <2>3. CASE /\ live.pos > live.read /\ offset' = live.pos
             /\ applied' = [applied EXCEPT ![live.pos] = @ + 1]
    <3>1. offset < live.pos
      BY <1>7, <2>3, Numbers, Zenon
    <3>2. CASE n = live.pos
      <4>1. applied[n] = 0 /\ n <= offset' /\ n \in Own
        BY <1>2, <2>1, <2>3, <3>1, <3>2, Numbers
      <4>2. applied'[n] = 1
        BY <2>3, <3>2, <4>1 DEF ProjectionTypeOK
      <4> QED
        BY <4>1, <4>2, Zenon
    <3>3. CASE n # live.pos
      <4>1. applied'[n] = applied[n]
        BY <2>3, <3>3, Zenon DEF ProjectionTypeOK
      <4>2. n \in Own => (n <= offset' <=> n <= offset)
        BY <1>2, <1>7, <2>1, <2>3, <3>1, <3>3, Numbers
      <4> QED
        BY <2>1, <4>1, <4>2, Zenon
    <3> QED
      BY <3>2, <3>3, Zenon
  <2> QED
    BY <1>4, <2>2, <2>3, Zenon
<1> QED
  BY <1>0, <1>5, <1>6, <1>8, <1>9, <1>10, <1>11, Zenon

\* The handler fails, and the event is delivered again or given up.
LEMMA ErrorKeeps ==
    ASSUME ProjectionInv, liveError
    PROVE  ProjectionInv'
<1> USE DEF ProjectionInv
<1>0. /\ UNCHANGED <<driver, head, offset, applied, phase, gate, seen, reb>> /\ PastGate
      /\ \/ live' = [live EXCEPT !.at = "gate", !.tries = @ + 1] /\ clean' = clean
         \/ live' = NoDelivery /\ clean' = FALSE
  BY Zenon DEF liveError, storeVars, PastGate
<1>1. \/ live'.at = "gate" /\ live'.pos = live.pos /\ clean' = clean
      \/ live'.at = "idle" /\ clean' = FALSE
  <2>1. CASE live' = [live EXCEPT !.at = "gate", !.tries = @ + 1] /\ clean' = clean
    BY <2>1, Zenon DEF ProjectionTypeOK, Deliveries
  <2>2. CASE live' = NoDelivery /\ clean' = FALSE
    BY <2>2, Zenon DEF NoDelivery
  <2> QED
    BY <1>0, <2>1, <2>2, Zenon
<1>2. ProjectionTypeOK'
  <2>1. NoDelivery \in Deliveries(head)
    BY Numbers DEF NoDelivery, Deliveries
  <2>2. [live EXCEPT !.at = "gate", !.tries = @ + 1] \in Deliveries(head)
    <3>1. live \in Deliveries(head) /\ live.tries \in Nat
      BY Zenon DEF ProjectionTypeOK, Deliveries
    <3>2. PICK k \in Nat : k = live.tries + 1
      BY <3>1
    <3>3. [live EXCEPT !.at = "gate", !.tries = k] \in Deliveries(head)
      BY <3>1, Zenon DEF Deliveries
    <3> QED
      BY <3>2, <3>3, Zenon
  <2> QED
    BY <1>0, <2>1, <2>2, Zenon DEF ProjectionTypeOK
<1>3. Shape'
  BY <1>0, <1>1, Zenon DEF Shape, Resetting, Replaying, PastGate
<1>4. LiveOK'
  BY <1>0, <1>1, Zenon DEF LiveOK, Replaying, Covered
<1>5. ResetOK'
  BY <1>0, <1>1, PastGateIsAlone, Numbers, Zenon DEF ResetOK, Covered, PastGate, Resetting
<1>6. ReplayOK'
  BY <1>0, <1>1, PastGateIsAlone, Zenon DEF ReplayOK, Replaying
<1> QED
  BY <1>0, <1>1, <1>2, <1>3, <1>4, <1>5, <1>6 DEF NoHole

----------------------------------------------------------------------------
(* Steps of the rebuild.                                                   *)

\* Before the reset, and after the handoff, the rebuild does not touch what live
\* delivery rests on.
LEMMA OutsideKeeps ==
    ASSUME ProjectionInv, ProjectionTypeOK', Shape',
           UNCHANGED <<driver, offset, applied, seen, live, clean>>,
           ~Replaying, ~Replaying', ResetOK'
    PROVE  ProjectionInv'
<1>1. LiveOK'
  BY Zenon DEF ProjectionInv, LiveOK, Covered
<1>2. ReplayOK' /\ NoHole'
  BY Zenon DEF ProjectionInv, ReplayOK, NoHole
<1> QED
  BY <1>1, <1>2, Zenon DEF ProjectionInv

\* The journal grows, or a rebuild is admitted, shuts the gate, takes its head, begins to
\* reset or is over.
LEMMA BeginKeeps ==
    ASSUME ProjectionInv,
           ProjectionAppend \/ Rebuild \/ shutGate \/ captureHead \/ onReset \/ backToLive
    PROVE  ProjectionInv'
<1> USE DEF ProjectionInv
<1>1. CASE ProjectionAppend
  <2>1. /\ head' = head + 1 /\ head < MaxJournal
        /\ UNCHANGED <<driver, offset, applied, phase, gate, seen, live, reb, clean>>
    BY <1>1, Zenon DEF ProjectionAppend, JournalGrows, projectionVars
  <2>2. 0 .. head \subseteq 0 .. head + 1 /\ head + 1 \in 0 .. MaxJournal
    BY <2>1, Numbers, StoreAssumption
  <2>3. live \in Deliveries(head + 1)
    BY <2>2, Zenon DEF ProjectionTypeOK, Deliveries
  <2>4. reb \in Rebuilds(head + 1)
    BY <2>2, Zenon DEF ProjectionTypeOK, Rebuilds
  <2>5. ProjectionTypeOK'
    BY <2>1, <2>2, <2>3, <2>4, Zenon DEF ProjectionTypeOK
  <2>6. Shape' /\ LiveOK' /\ ResetOK'
    BY <2>1, Zenon DEF Shape, LiveOK, ResetOK, Resetting, Replaying, Covered, PastGate
  <2>7. ReplayOK'
    BY <2>1, Zenon DEF ReplayOK, Replaying, Covered, PastGate
  <2> QED
    BY <2>1, <2>5, <2>6, <2>7, Zenon DEF NoHole
<1>2. CASE Rebuild \/ backToLive
  <2>1. /\ UNCHANGED <<driver, head, offset, applied, gate, seen, live, clean>>
        /\ \/ phase = "live" /\ phase' = "stopped" /\ reb' = [NoRebuild EXCEPT !.at = "admitted"]
           \/ reb.at = "opened" /\ phase' = "live" /\ reb' = NoRebuild
    BY <1>2, Zenon DEF Rebuild, backToLive, storeVars
  <2>2. \/ phase' = "stopped" /\ reb'.at = "admitted" /\ reb.at = "idle"
        \/ phase' = "live" /\ reb'.at = "idle" /\ reb.at = "opened"
    BY <2>1 DEF NoRebuild, Shape, Resetting
  <2>3. reb' \in Rebuilds(head)
    <3>1. head \in Nat /\ 0 \in 0 .. head
      BY Numbers
    <3>2. NoRebuild \in Rebuilds(head)
      BY <3>1, Zenon DEF NoRebuild, Rebuilds
    <3> QED
      BY <2>1, <3>1, <3>2, RebuildTyped, Zenon
  <2>4. ProjectionTypeOK'
    BY <2>1, <2>2, <2>3, Zenon DEF ProjectionTypeOK
  <2>5. Shape' /\ ~Replaying /\ ~Replaying' /\ ResetOK'
    BY <2>1, <2>2, Zenon DEF Shape, Resetting, Replaying, ResetOK
  <2> QED
    BY <2>1, <2>4, <2>5, OutsideKeeps, Zenon
<1>3. CASE shutGate
  <2>1. /\ UNCHANGED <<driver, head, offset, applied, phase, seen, live, clean>>
        /\ gate' = "shut" /\ reb.at = "admitted" /\ reb' = [reb EXCEPT !.at = "head0"]
    BY <1>3, Zenon DEF shutGate, RebuildAt, storeVars
  <2>2. reb'.at = "head0" /\ reb' \in Rebuilds(head)
    BY <2>1, Zenon DEF ProjectionTypeOK, Rebuilds
  <2>3. ProjectionTypeOK'
    BY <2>1, <2>2, Zenon DEF ProjectionTypeOK
  <2>4. Shape' /\ ~Replaying /\ ~Replaying' /\ ResetOK'
    BY <2>1, <2>2, Zenon DEF Shape, Resetting, Replaying, ResetOK
  <2> QED
    BY <2>1, <2>3, <2>4, OutsideKeeps, Zenon
<1>4. CASE captureHead
  <2>1. /\ UNCHANGED <<driver, head, offset, applied, gate, seen, live, clean>>
        /\ reb.at = "head0" /\ phase' = "reset"
        /\ reb' = [reb EXCEPT !.at = "reset", !.head0 = head, !.through = head]
    BY <1>4, Zenon DEF captureHead, storeVars
  <2>2. reb'.at = "reset" /\ reb'.head0 = head /\ reb'.through = head /\ reb' \in Rebuilds(head)
    <3>1. head \in Nat /\ head \in 0 .. head /\ reb \in Rebuilds(head)
      BY Numbers DEF ProjectionTypeOK
    <3>2. reb' \in Rebuilds(head)
      BY <2>1, <3>1, RebuildTyped, Zenon
    <3> QED
      BY <2>1, <3>1, <3>2, Zenon DEF Rebuilds
  <2>3. ProjectionTypeOK'
    BY <2>1, <2>2, Zenon DEF ProjectionTypeOK
  <2>4. Shape' /\ ~Replaying /\ ~Replaying'
    BY <2>1, <2>2, Zenon DEF Shape, Resetting, Replaying
  <2>5. ResetOK'
    BY <2>1, <2>2, Numbers DEF ResetOK, Covered, PastGate, Shape, Resetting
  <2> QED
    BY <2>1, <2>3, <2>4, <2>5, OutsideKeeps, Zenon
<1>5. CASE onReset
  <2>1. /\ UNCHANGED <<driver, head, offset, applied, phase, gate, seen, live, clean>>
        /\ reb.at = "reset" /\ reb' = [reb EXCEPT !.at = "wiped"]
    BY <1>5, Zenon DEF onReset, RebuildAt, storeVars
  <2>2. /\ reb'.at = "wiped" /\ reb'.head0 = reb.head0 /\ reb'.through = reb.through
        /\ reb'.gap = reb.gap /\ reb' \in Rebuilds(head)
    BY <2>1, Zenon DEF ProjectionTypeOK, Rebuilds
  <2>3. ProjectionTypeOK'
    BY <2>1, <2>2, Zenon DEF ProjectionTypeOK
  <2>4. Shape' /\ ~Replaying /\ ~Replaying'
    BY <2>1, <2>2, Zenon DEF Shape, Resetting, Replaying
  <2>5. ResetOK'
    BY <2>1, <2>2, Zenon DEF ResetOK, Resetting, Covered, PastGate
  <2> QED
    BY <2>1, <2>3, <2>4, <2>5, OutsideKeeps, Zenon
<1> QED
  BY <1>1, <1>2, <1>3, <1>4, <1>5, Zenon

\* The reset: from here on the read model is clean, unless a handler is past the gate or
\* has committed since OnReset.
LEMMA ResetKeeps ==
    ASSUME ProjectionInv, commitReset
    PROVE  ProjectionInv'
<1> USE DEF ProjectionInv
<1>1. /\ UNCHANGED <<driver, head, gate, seen, live>>
      /\ applied' = [n \in Positions |-> IF n = reb.kept THEN 1 ELSE 0]
      /\ offset' = 0 /\ phase' = "replay"
      /\ reb.at = "wiped" /\ reb' = [reb EXCEPT !.at = "query", !.pos = 0, !.kept = 0]
      /\ clean' = (reb.kept = 0 /\ ~PastGate)
  BY Zenon DEF commitReset, SaveOffset, PastGate
<1>2. /\ reb'.at = "query" /\ reb'.pos = 0 /\ reb'.head0 = reb.head0
      /\ reb'.through = reb.through /\ reb'.gap = reb.gap
      /\ reb' \in Rebuilds(head)
  <2>1. head \in Nat /\ 0 \in 0 .. head /\ reb \in Rebuilds(head)
    BY Numbers DEF ProjectionTypeOK
  <2>2. reb' \in Rebuilds(head)
    BY <1>1, <2>1, RebuildTyped, Zenon
  <2> QED
    BY <1>1, <2>1, <2>2, Zenon DEF Rebuilds
<1>3. ProjectionTypeOK'
  <2>1. applied' \in [Positions -> Nat] /\ offset' \in 0 .. head
    BY <1>1, Numbers
  <2> QED
    BY <1>1, <1>2, <2>1, Zenon DEF ProjectionTypeOK
<1>4. Shape'
  BY <1>1, <1>2, Zenon DEF Shape, Resetting, Replaying
<1>5. LiveOK' /\ ResetOK'
  BY <1>2, Zenon DEF LiveOK, ResetOK, Resetting, Replaying
<1>6. ReplayOK'
  <2> SUFFICES ASSUME clean' PROVE ReplayOK'
    BY Zenon DEF ReplayOK
  <2>1. ~PastGate
    BY <1>1, Zenon
  <2>2. ~PastGate'
    BY <1>1, <2>1, Zenon DEF PastGate
  <2>3. reb.through = reb.head0 /\ reb.head0 \in Nat
    BY <1>1, Numbers, Zenon DEF ResetOK, Resetting
  <2>4. reb.gap \/ Covered(reb.head0, {"gate", "parked"})'
    BY <1>1, <1>2, Zenon DEF ResetOK, Resetting, Covered
  <2> QED
    BY <1>1, <1>2, <2>2, <2>3, <2>4 DEF ReplayOK, Covered
<1>7. NoHole'
  <2>1. \A n \in Positions : ~(n <= 0) /\ n # 0
    BY DEF Positions
  <2> QED
    BY <1>1, <2>1, Zenon DEF NoHole
<1> QED
  BY <1>1, <1>3, <1>4, <1>5, <1>6, <1>7, Zenon

\* The steps of a drain that read.
LEMMA ReadKeeps ==
    ASSUME ProjectionInv, query \/ drainLoad
    PROVE  ProjectionInv'
<1> USE DEF ProjectionInv
<1>0. UNCHANGED <<driver, head, offset, applied, phase, gate, seen, live, clean>>
  BY Zenon DEF query, drainLoad, storeVars
<1>1. /\ reb.at \in {"query", "drain"} /\ reb'.at \in {"drain", "loaded"}
      /\ reb'.head0 = reb.head0 /\ reb'.through = reb.through /\ reb'.gap = reb.gap
      /\ reb' \in Rebuilds(head)
      /\ reb'.at = "drain" => reb'.pos = reb.pos /\ reb'.snap = head
      /\ reb'.at = "loaded" => /\ reb.at = "drain" /\ reb'.pos = reb.pos + 1
                               /\ reb'.read = offset /\ reb'.snap = reb.snap
  <2>1. CASE query
    <3>1. head \in Nat /\ head \in 0 .. head /\ reb \in Rebuilds(head)
      BY Numbers DEF ProjectionTypeOK
    <3>2. reb.at = "query" /\ reb' = [reb EXCEPT !.at = "drain", !.snap = head]
      BY <2>1, Zenon DEF query
    <3>3. reb' \in Rebuilds(head)
      BY <3>1, <3>2, RebuildTyped, Zenon
    <3> QED
      BY <3>1, <3>2, <3>3, Zenon DEF Rebuilds
  <2>2. CASE drainLoad
    <3>1. reb.pos + 1 \in 0 .. head /\ reb \in Rebuilds(head) /\ offset \in Nat
      BY <2>2, Numbers DEF drainLoad, ProjectionTypeOK, Rebuilds
    <3>2. reb.at = "drain" /\ reb' = [reb EXCEPT !.at = "loaded", !.pos = reb.pos + 1, !.read = offset]
      BY <2>2, Zenon DEF drainLoad
    <3> HIDE DEF ProjectionInv
    <3> QED
      BY <3>1, <3>2, Zenon DEF Rebuilds
  <2> QED
    BY <2>1, <2>2, Zenon
<1>2. ProjectionTypeOK'
  BY <1>0, <1>1, Zenon DEF ProjectionTypeOK
<1>3. Shape'
  BY <1>0, <1>1, Zenon DEF Shape, Resetting, Replaying
<1>4. LiveOK' /\ ResetOK'
  BY <1>1, Zenon DEF LiveOK, ResetOK, Resetting, Replaying
<1>5. ReplayOK'
  <2>1. Replaying /\ reb.through <= head
    BY <1>1 DEF Replaying, ProjectionTypeOK, Rebuilds
  <2> QED
    BY <1>0, <1>1, <2>1, Numbers DEF ReplayOK, Replaying, PastGate, Covered
<1> QED
  BY <1>0, <1>2, <1>3, <1>4, <1>5, Zenon DEF NoHole

\* A drain commits the entry that comes next, or one that the checkpoint covers.
LEMMA DrainCommitKeeps ==
    ASSUME ProjectionInv, drainCommit
    PROVE  ProjectionInv'
<1> USE DEF ProjectionInv
<1>0. UNCHANGED <<driver, head, phase, gate, seen, live, clean>> /\ reb.at = "loaded"
  BY Zenon DEF drainCommit
<1>1. \/ /\ reb.pos > reb.read /\ offset' = reb.pos
         /\ applied' = IF reb.pos \in Own THEN [applied EXCEPT ![reb.pos] = @ + 1] ELSE applied
      \/ ~(reb.pos > reb.read) /\ UNCHANGED <<offset, applied>>
  BY Zenon DEF drainCommit, Proceeds, Apply, SaveOffset
<1>2. PICK a \in {"drain", "drained"} :
          reb' = [reb EXCEPT !.at = a] /\ (a = "drained" => reb.pos >= reb.through)
  BY Zenon DEF drainCommit
<1>3. /\ reb'.at = a /\ reb'.head0 = reb.head0 /\ reb'.through = reb.through /\ reb'.gap = reb.gap
      /\ reb'.pos = reb.pos /\ reb'.snap = reb.snap
      /\ reb' \in Rebuilds(head)
  <2>1. reb \in Rebuilds(head) /\ head \in Nat
    BY Numbers, Zenon DEF ProjectionTypeOK
  <2>2. reb' \in Rebuilds(head)
    BY <1>2, <2>1, Zenon DEF Rebuilds
  <2> QED
    BY <1>2, <2>1, <2>2, Zenon DEF Rebuilds
<1>4. reb.pos <= head
  BY DEF ProjectionTypeOK, Rebuilds
<1>5. ProjectionTypeOK'
  <2>1. offset' \in 0 .. head
    BY <1>1, <1>4, Numbers
  <2>2. applied' \in [Positions -> Nat]
    BY <1>1 DEF ProjectionTypeOK
  <2> QED
    BY <1>0, <1>3, <2>1, <2>2, Zenon DEF ProjectionTypeOK
<1>6. Shape'
  BY <1>0, <1>3, Zenon DEF Shape, Resetting, Replaying
<1>7. LiveOK' /\ ResetOK'
  BY <1>3, Zenon DEF LiveOK, ResetOK, Resetting, Replaying
<1>8. ASSUME clean
      PROVE  /\ reb.read = offset /\ reb.pos <= offset + 1 /\ reb.through <= reb.snap
             /\ offset' \in Nat /\ reb.pos <= offset' /\ offset <= offset'
             /\ offset' # offset => offset' = offset + 1 /\ reb.pos = offset + 1
  <2>1. reb.read = offset /\ reb.pos <= offset + 1 /\ reb.through <= reb.snap
    BY <1>0, <1>8, Zenon DEF ReplayOK, Replaying
  <2> QED
    BY <1>1, <2>1, Numbers
<1>9. ReplayOK'
  <2> SUFFICES ASSUME clean PROVE ReplayOK'
    BY <1>0, Zenon DEF ReplayOK
  <2>1. /\ ~PastGate /\ reb.head0 <= reb.through
        /\ phase = "replay" => /\ reb.through = reb.head0
                               /\ reb.gap \/ Covered(reb.head0, {"gate", "parked"})
        /\ phase = "catchup" => Covered(reb.through, {"gate", "parked"})
    BY <1>0, Zenon DEF ReplayOK, Replaying
  <2>2. a = "drained" => reb.through <= offset'
    BY <1>2, <1>8, Numbers
  <2> QED
    BY <1>0, <1>3, <1>8, <2>1, <2>2, Zenon DEF ReplayOK, Replaying, PastGate, Covered
<1>10. NoHole'
  <2> SUFFICES ASSUME clean, NEW n \in Positions
               PROVE  applied'[n] = IF n \in Own /\ n <= offset' THEN 1 ELSE 0
    BY <1>0, Zenon DEF NoHole
  <2>1. applied[n] = (IF n \in Own /\ n <= offset THEN 1 ELSE 0) /\ n \in Nat
    BY DEF NoHole, Positions
  <2>2. CASE offset' = offset
    <3>1. ~(reb.pos > reb.read)
      BY <1>1, <1>8, <2>2, Numbers
    <3> QED
      BY <1>1, <2>1, <3>1, Zenon
  <2>3. CASE offset' # offset
    <3>1. /\ offset' = offset + 1 /\ reb.pos = offset + 1
          /\ applied' = IF reb.pos \in Own THEN [applied EXCEPT ![reb.pos] = @ + 1] ELSE applied
      BY <1>1, <1>8, <2>3, Zenon
    <3>2. CASE n = reb.pos
      <4>1. applied[n] = 0 /\ n <= offset'
        BY <2>1, <3>1, <3>2, Numbers
      <4>2. applied'[n] = IF n \in Own THEN 1 ELSE 0
        BY <3>1, <3>2, <4>1 DEF ProjectionTypeOK
      <4> QED
        BY <4>1, <4>2, Zenon
    <3>3. CASE n # reb.pos
      <4>1. applied'[n] = applied[n]
        BY <3>1, <3>3, Zenon DEF ProjectionTypeOK
      <4>2. n <= offset' <=> n <= offset
        BY <2>1, <3>1, <3>3, Numbers
      <4> QED
        BY <2>1, <4>1, <4>2, Zenon
    <3> QED
      BY <3>2, <3>3, Zenon
  <2> QED
    BY <2>2, <2>3, Zenon
<1> QED
  BY <1>0, <1>5, <1>6, <1>7, <1>9, <1>10, Zenon

\* A drain ends at its cutoff or at the end of what the query has seen.
LEMMA DrainDoneKeeps ==
    ASSUME ProjectionInv, drainDone
    PROVE  ProjectionInv'
<1> USE DEF ProjectionInv
<1>0. /\ UNCHANGED <<driver, head, offset, applied, gate, seen, live, clean>>
      /\ reb.at = "drained" \/ (reb.at = "drain" /\ reb.pos >= reb.snap)
      /\ reb' = [reb EXCEPT !.at = IF phase = "replay" THEN "head1" ELSE "handoff"]
      /\ phase' = IF phase = "replay" THEN "catchup" ELSE phase
  BY Zenon DEF drainDone, storeVars
<1>1. PICK a \in {"head1", "handoff"} :
          /\ reb' = [reb EXCEPT !.at = a]
          /\ a = "head1" <=> phase = "replay"
  BY <1>0, Zenon
<1>2. /\ reb'.at = a /\ reb'.head0 = reb.head0 /\ reb'.through = reb.through /\ reb'.gap = reb.gap
      /\ reb' \in Rebuilds(head)
  <2>1. reb \in Rebuilds(head) /\ head \in Nat
    BY Numbers, Zenon DEF ProjectionTypeOK
  <2>2. reb' \in Rebuilds(head)
    BY <1>1, <2>1, Zenon DEF Rebuilds
  <2> QED
    BY <1>1, <2>1, <2>2, Zenon DEF Rebuilds
<1>3. phase \in {"replay", "catchup"} /\ phase' = "catchup" /\ gate = "shut"
  BY <1>0, Zenon DEF Shape, Resetting, Replaying
<1>4. ProjectionTypeOK'
  BY <1>0, <1>2, <1>3, Zenon DEF ProjectionTypeOK
<1>5. Shape'
  BY <1>0, <1>2, <1>3, Zenon DEF Shape, Resetting, Replaying
<1>6. LiveOK' /\ ResetOK'
  BY <1>2, Zenon DEF LiveOK, ResetOK, Resetting, Replaying
<1>7. ReplayOK'
  <2> SUFFICES ASSUME clean PROVE ReplayOK'
    BY <1>0, Zenon DEF ReplayOK
  <2>1. ~PastGate /\ reb.head0 <= reb.through /\ reb.through <= offset
    BY <1>0, Numbers DEF ReplayOK, Replaying
  <2>2. CASE a = "head1"
    <3>1. reb.through = reb.head0 /\ (reb.gap \/ Covered(reb.head0, {"gate", "parked"}))
      BY <1>0, <1>1, <2>2, Zenon DEF ReplayOK, Replaying
    <3> QED
      BY <1>0, <1>2, <2>1, <2>2, <3>1, Zenon DEF ReplayOK, Replaying, PastGate, Covered
  <2>3. CASE a = "handoff"
    <3>1. Covered(reb.through, {"gate", "parked"})
      BY <1>0, <1>1, <1>3, <2>3, Zenon DEF ReplayOK, Replaying
    <3>2. Covered(offset, {"gate", "parked"})
      BY <2>1, <3>1, Numbers DEF Covered
    <3> QED
      BY <1>0, <1>2, <2>1, <2>3, <3>2, Zenon DEF ReplayOK, Replaying, PastGate, Covered
  <2> QED
    BY <2>2, <2>3, Zenon
<1> QED
  BY <1>0, <1>4, <1>5, <1>6, <1>7, Zenon DEF NoHole

\* The catchup begins with a second head, or is left out.
LEMMA CatchupKeeps ==
    ASSUME ProjectionInv, catchupPhase
    PROVE  ProjectionInv'
<1> USE DEF ProjectionInv
<1>0. /\ UNCHANGED <<driver, head, offset, applied, phase, gate, seen, live>> /\ reb.at = "head1"
      /\ \/ /\ reb' = [reb EXCEPT !.at = "query", !.pos = reb.head0, !.through = head]
            /\ clean' = clean
         \/ /\ reb' = [reb EXCEPT !.at = "handoff"]
            /\ clean' = (clean /\ ~reb.gap)
  BY Zenon DEF catchupPhase, storeVars
<1>1. reb \in Rebuilds(head) /\ head \in Nat /\ reb.head0 \in 0 .. head /\ head \in 0 .. head
  BY Numbers DEF ProjectionTypeOK, Rebuilds
<1>2. reb' \in Rebuilds(head) /\ clean' \in BOOLEAN
  <2>1. reb' \in Rebuilds(head)
    BY <1>0, <1>1, Zenon DEF Rebuilds
  <2>2. clean' \in BOOLEAN
    BY <1>0, Zenon DEF ProjectionTypeOK
  <2> QED
    BY <2>1, <2>2, Zenon
<1>3. phase = "catchup" /\ gate = "shut"
  BY <1>0, Zenon DEF Shape, Resetting, Replaying
<1>4. ProjectionTypeOK'
  BY <1>0, <1>2, Zenon DEF ProjectionTypeOK
<1>5. ASSUME clean
      PROVE  /\ ~PastGate /\ reb.through = reb.head0 /\ reb.through <= offset
             /\ reb.gap \/ Covered(reb.head0, {"gate", "parked"})
  BY <1>0, <1>5, Zenon DEF ReplayOK, Replaying
<1>6. CASE reb' = [reb EXCEPT !.at = "query", !.pos = reb.head0, !.through = head] /\ clean' = clean
  <2>1. reb'.at = "query" /\ reb'.pos = reb.head0 /\ reb'.through = head /\ reb'.head0 = reb.head0
    BY <1>1, <1>6, Zenon DEF Rebuilds
  <2>2. Shape' /\ LiveOK' /\ ResetOK'
    BY <1>0, <1>3, <2>1, Zenon DEF Shape, LiveOK, ResetOK, Resetting, Replaying
  <2>3. Covered(head, {"gate", "parked"})
    BY Numbers DEF Covered
  <2>4. ReplayOK'
    BY <1>0, <1>1, <1>3, <1>5, <1>6, <2>1, <2>3, Numbers DEF ReplayOK, Replaying, PastGate, Covered
  <2> QED
    BY <1>0, <1>4, <1>6, <2>2, <2>4, Zenon DEF NoHole
<1>7. CASE reb' = [reb EXCEPT !.at = "handoff"] /\ clean' = (clean /\ ~reb.gap)
  <2>1. reb'.at = "handoff" /\ reb'.through = reb.through /\ reb'.head0 = reb.head0
    BY <1>1, <1>7, Zenon DEF Rebuilds
  <2>2. Shape' /\ LiveOK' /\ ResetOK'
    BY <1>0, <1>3, <2>1, Zenon DEF Shape, LiveOK, ResetOK, Resetting, Replaying
  <2>3. ASSUME clean, ~reb.gap PROVE Covered(offset, {"gate", "parked"})
    BY <1>5, <2>3, Numbers DEF Covered
  <2>4. ReplayOK'
    BY <1>0, <1>1, <1>3, <1>5, <1>7, <2>1, <2>3, Numbers, Zenon DEF ReplayOK, Replaying, PastGate, Covered
  <2> QED
    BY <1>0, <1>4, <1>7, <2>2, <2>4, Zenon DEF NoHole
<1> QED
  BY <1>0, <1>6, <1>7, Zenon

\* The gate opens: after a rebuild to its end, or after one that has failed.
LEMMA OpenKeeps ==
    ASSUME ProjectionInv, handoff \/ failRebuild
    PROVE  ProjectionInv'
<1> USE DEF ProjectionInv
<1>0. /\ UNCHANGED <<driver, head, offset, applied, phase, seen>>
      /\ gate' = "open"
      /\ live' = IF live.at = "parked" THEN [live EXCEPT !.at = "begun"] ELSE live
      /\ reb.at \in {"handoff", "head0", "reset", "wiped", "query", "drain", "loaded", "head1"}
      /\ reb' = [reb EXCEPT !.at = "opened"]
  BY Zenon DEF handoff, failRebuild, openGate, RebuildAt, Failing, storeVars
<1>1. \/ clean' = clean /\ reb.at = "handoff"
      \/ clean' = (clean /\ phase \notin {"replay", "catchup"})
  BY Zenon DEF handoff, failRebuild, RebuildAt
<1>2. reb'.at = "opened" /\ reb' \in Rebuilds(head)
  <2>1. reb \in Rebuilds(head) /\ head \in Nat
    BY Numbers, Zenon DEF ProjectionTypeOK
  <2>2. reb' \in Rebuilds(head)
    BY <1>0, <2>1, Zenon DEF Rebuilds
  <2> QED
    BY <1>0, <2>1, <2>2, Zenon DEF Rebuilds
<1>3. /\ live'.pos = live.pos /\ live' \in Deliveries(head)
      /\ live'.at = IF live.at = "parked" THEN "begun" ELSE live.at
      /\ live'.read = live.read
  <2>1. live \in Deliveries(head) /\ head \in Nat
    BY Numbers, Zenon DEF ProjectionTypeOK
  <2>2. CASE live.at = "parked"
    <3>1. live' = [live EXCEPT !.at = "begun"]
      BY <1>0, <2>2, Zenon
    <3> QED
      BY <2>1, <2>2, <3>1, Zenon DEF Deliveries
  <2>3. CASE live.at # "parked"
    BY <1>0, <2>1, <2>3, Zenon
  <2> QED
    BY <2>2, <2>3, Zenon
<1>4. ProjectionTypeOK'
  <2>1. clean' \in BOOLEAN
    BY <1>1, Zenon DEF ProjectionTypeOK
  <2> QED
    BY <1>0, <1>2, <1>3, <2>1, Zenon DEF ProjectionTypeOK
<1>5. Shape'
  BY <1>0, <1>2, <1>3, Zenon DEF Shape, Resetting, Replaying
<1>6. ResetOK' /\ ReplayOK'
  BY <1>2, Zenon DEF ResetOK, ReplayOK, Resetting, Replaying
<1>7. clean' => clean
  BY <1>1, Zenon
<1>8. LiveOK'
  <2> SUFFICES ASSUME clean'
               PROVE  /\ Covered(offset, {"gate", "parked", "begun", "loaded"})'
                      /\ live'.at = "loaded" => live'.read = offset'
    BY Zenon DEF LiveOK
  <2>1. CASE reb.at = "handoff"
    <3>1. ~PastGate /\ Covered(offset, {"gate", "parked"})
      BY <1>7, <2>1, Zenon DEF ReplayOK, Replaying
    <3> QED
      BY <1>0, <1>3, <3>1 DEF PastGate, Covered
  <2>2. CASE reb.at # "handoff"
    <3>1. phase \notin {"replay", "catchup"}
      BY <1>1, <2>2, Zenon
    <3>2. ~Replaying
      BY <3>1, Zenon DEF Shape, Resetting, Replaying
    <3>3. /\ Covered(offset, {"gate", "parked", "begun", "loaded"})
          /\ live.at = "loaded" => live.read = offset
      BY <1>7, <3>2, Zenon DEF LiveOK
    <3> QED
      BY <1>0, <1>3, <3>3 DEF Covered
  <2> QED
    BY <2>1, <2>2, Zenon
<1> QED
  BY <1>0, <1>4, <1>5, <1>6, <1>7, <1>8, Zenon DEF NoHole

\* Close cancels, and cancels only.
LEMMA CloseKeeps ==
    ASSUME ProjectionInv, Close
    PROVE  ProjectionInv'
<1> USE DEF ProjectionInv
<1>0. /\ UNCHANGED <<driver, head, offset, applied, phase, gate, seen, live, clean>>
      /\ reb' = [reb EXCEPT !.canceled = reb.at \notin {"idle", "admitted"}]
  BY Zenon DEF Close, storeVars
<1>1. PICK c \in BOOLEAN : reb' = [reb EXCEPT !.canceled = c]
  BY <1>0, Zenon
<1>2. reb \in Rebuilds(head) /\ head \in Nat
  BY Numbers, Zenon DEF ProjectionTypeOK
<1>3. reb' \in Rebuilds(head)
  BY <1>1, <1>2, Zenon DEF Rebuilds
<1>4. /\ reb'.at = reb.at /\ reb'.head0 = reb.head0 /\ reb'.through = reb.through
      /\ reb'.gap = reb.gap /\ reb'.pos = reb.pos /\ reb'.snap = reb.snap /\ reb'.read = reb.read
  BY <1>1, <1>2, Zenon DEF Rebuilds
<1>5. ProjectionTypeOK'
  BY <1>0, <1>3, Zenon DEF ProjectionTypeOK
<1>6. Shape' /\ LiveOK' /\ ResetOK'
  BY <1>0, <1>4, Zenon DEF Shape, LiveOK, ResetOK, Resetting, Replaying, Covered, PastGate
<1>7. ReplayOK'
  BY <1>0, <1>4, Zenon DEF ReplayOK, Replaying, Covered, PastGate
<1> QED
  BY <1>0, <1>5, <1>6, <1>7, Zenon DEF NoHole

\* The process starts again, with what the bus held up to n lost.
LEMMA RestartKeeps ==
    ASSUME ProjectionInv, NEW n \in seen .. head, RestartProjection(n)
    PROVE  ProjectionInv'
<1> USE DEF ProjectionInv
<1>0. /\ UNCHANGED <<driver, head, offset, applied>>
      /\ phase' = "live" /\ gate' = "open" /\ seen' = n
      /\ live' = NoDelivery /\ reb' = NoRebuild
      /\ clean' = (clean /\ live.at = "idle" /\ phase \notin {"replay", "catchup"}
                        /\ \A m \in Waiting : m > n)
  BY Zenon DEF RestartProjection, storeVars
<1>1. live'.at = "idle" /\ reb'.at = "idle"
  BY <1>0, Zenon DEF NoDelivery, NoRebuild
<1>2. n \in Nat /\ seen <= n /\ n <= head
  BY Numbers
<1>3. ProjectionTypeOK'
  <2>1. NoDelivery \in Deliveries(head) /\ n \in 0 .. head
    BY <1>2, Numbers DEF NoDelivery, Deliveries
  <2>2. NoRebuild \in Rebuilds(head)
    BY Numbers DEF NoRebuild, Rebuilds
  <2>3. clean' \in BOOLEAN
    BY <1>0, Zenon DEF ProjectionTypeOK
  <2> QED
    BY <1>0, <2>1, <2>2, <2>3, Zenon DEF ProjectionTypeOK
<1>4. Shape' /\ ResetOK' /\ ReplayOK'
  BY <1>0, <1>1, Zenon DEF Shape, ResetOK, ReplayOK, Resetting, Replaying
<1>5. LiveOK'
  <2> SUFFICES ASSUME clean', NEW m \in Own, offset < m, m <= n PROVE FALSE
    BY <1>0, <1>1, Zenon DEF LiveOK, Covered
  <2>1. clean /\ live.at = "idle" /\ ~Replaying /\ \A k \in Waiting : k > n
    BY <1>0, Zenon DEF Shape, Resetting, Replaying
  <2>2. ~(m <= seen)
    BY <2>1, Zenon DEF LiveOK, Covered
  <2>3. m \in Waiting
    BY <1>2, <2>2, Numbers DEF Waiting
  <2> QED
    BY <1>2, <2>1, <2>3, Numbers
<1>6. NoHole'
  BY <1>0, Zenon DEF NoHole
<1> QED
  BY <1>0, <1>3, <1>4, <1>5, <1>6, Zenon

\* ProjectionInv is inductive.
LEMMA NextProjectionInv ==
    ASSUME ProjectionInv, ProjectionNext
    PROVE  ProjectionInv'
  BY DeliverKeeps, LoseKeeps, GateKeeps, LoadKeeps, CommitKeeps, ErrorKeeps, BeginKeeps, ResetKeeps,
     ReadKeeps, DrainCommitKeeps, DrainDoneKeeps, CatchupKeeps, OpenKeeps, CloseKeeps, RestartKeeps, Zenon
     DEF ProjectionNext, Handler, RebuildStep

\* Nothing happens.
LEMMA IdleProjectionInv ==
    ASSUME ProjectionInv, UNCHANGED <<storeVars, projectionVars>>
    PROVE  ProjectionInv'
<1> USE DEF ProjectionInv, storeVars, projectionVars
<1>1. ProjectionTypeOK'
  BY Zenon DEF ProjectionTypeOK
<1>2. Shape' /\ LiveOK' /\ ResetOK' /\ ReplayOK'
  BY DEF Shape, LiveOK, ResetOK, ReplayOK, Resetting, Replaying, Covered, PastGate
<1> QED
  BY <1>1, <1>2, Zenon DEF NoHole

----------------------------------------------------------------------------
(* Theorems.                                                               *)

ReadModelsInv ==
    /\ driver \in {"coordinator", "tailer"}
    /\ driver = "tailer" => TailerInv /\ RunInv
    /\ driver = "coordinator" => ProjectionInv

\* A step of the tailers takes the driver for granted.
LEMMA TailerKeepsDriver == TailerNext => UNCHANGED driver
  BY Zenon DEF TailerNext, TailerAppend, JournalGrows, Expire, LoseLock, Poll, Drain, ReadHead, LoadOffset,
         applyEvent, commitEvent, AdvanceIfOwner, Apply, skipPoisonEvent, stopAtHead, Release, Abort,
         Crash, storeVars

\* Every read model keeps the invariant of its driver.
THEOREM ReadModelsInvariant == Spec => []ReadModelsInv
<1>1. Init => ReadModelsInv
  BY InitTailerInv, InitRunInv, InitProjectionInv, Zenon DEF Init, StoreInit, ReadModelsInv
<1>2. ReadModelsInv /\ [Next]_vars => ReadModelsInv'
  <2> SUFFICES ASSUME ReadModelsInv, [Next]_vars PROVE ReadModelsInv'
    OBVIOUS
  <2>1. CASE ProjectionNext
    <3>1. ProjectionInv'
      BY <2>1, NextProjectionInv, Zenon DEF ProjectionNext, ReadModelsInv
    <3> QED
      BY <3>1, Zenon DEF ReadModelsInv, ProjectionInv
  <2>2. CASE TailerNext
    <3>1. driver = "tailer" /\ driver' = driver
      BY <2>2, TailerKeepsDriver, Zenon DEF TailerNext
    <3>2. TailerInv' /\ RunInv'
      BY <2>2, <3>1, NextTailerInv, NextRunInv, Zenon DEF ReadModelsInv
    <3> QED
      BY <3>1, <3>2, Zenon DEF ReadModelsInv
  <2>3. CASE UNCHANGED vars
    <3>1. driver = "tailer" => TailerInv' /\ RunInv'
      BY <2>3, NextTailerInv, NextRunInv, Zenon DEF ReadModelsInv, vars, tailerAll
    <3>2. driver = "coordinator" => ProjectionInv'
      BY <2>3, IdleProjectionInv, Zenon DEF ReadModelsInv, vars
    <3> QED
      BY <2>3, <3>1, <3>2, Zenon DEF ReadModelsInv, vars, storeVars
  <2> QED
    BY <2>1, <2>2, <2>3, Zenon DEF Next
<1> QED
  BY <1>1, <1>2, PTL DEF Spec

\* Live delivery, replay and catchup add up: as long as nothing is lost, dead-lettered
\* or abandoned, the read model of a projection reflects every own entry up to the
\* checkpoint exactly once, for any journal and any number of rebuilds.
THEOREM ProjectionHasNoHole == Spec => []NoHole
<1>1. ReadModelsInv => NoHole
  BY Zenon DEF ReadModelsInv, ProjectionInv, NoHole
<1> QED
  BY <1>1, ReadModelsInvariant, PTL

\* commitEvent and skipPoisonEvent behind AdvanceIfOwner: what is committed for an entry up
\* to the checkpoint is one application or one dead letter, for any number of tailers that
\* drain at once and whatever the lock does, if Apply writes in the transaction it is
\* called in.
THEOREM TailerCommitsOnce == Spec => []CommittedOnce
<1>1. ReadModelsInv => CommittedOnce
  BY Zenon DEF ReadModelsInv, TailerInv, Counted, CommittedOnce
<1> QED
  BY <1>1, ReadModelsInvariant, PTL

\* The lock around the drain (pollOnce, watchLock): Apply is called for an entry at most once
\* more than there have been mishaps, for any number of tailers and of mishaps.
THEOREM TailerDuplicatesBounded == Spec => []DuplicateApplyBounded
<1>1. ASSUME TailerTypeOK, RunInv, NEW n \in Positions PROVE ran[n] <= 1 + mishaps
  <2>1. IsFiniteSet(Runners(n))
    <3>1. IsFiniteSet(Tailers \cup {Nobody})
      BY TailerAssumption, FS_AddElement, Zenon
    <3>2. Runners(n) \subseteq Tailers \cup {Nobody}
      BY Zenon DEF Runners
    <3> QED
      BY <3>1, <3>2, FS_Subset, Zenon
  <2>2. Cardinality(Runners(n)) \in Nat
    BY <2>1, FS_CardinalityType, Zenon
  <2>3. ran[n] \in Nat /\ mishaps \in Nat /\ ran[n] + Cardinality(Runners(n)) <= 1 + mishaps
    BY <1>1, Zenon DEF RunInv, Paid, TailerTypeOK
  <2> QED
    BY <2>2, <2>3
<1>2. ReadModelsInv => DuplicateApplyBounded
  BY <1>1, Zenon DEF ReadModelsInv, TailerInv, DuplicateApplyBounded
<1> QED
  BY <1>2, ReadModelsInvariant, PTL

\* The checkpoint moves by one entry at a time and never back.
InOrder == [][driver = "tailer" => offset' = offset \/ offset' = offset + 1]_vars

\* The fenced checkpoint (AdvanceIfOwner) takes the entries in the order of the journal.
THEOREM TailerInOrder == Spec => InOrder
<1>1. ASSUME TailerInv, TailerNext PROVE offset' = offset \/ offset' = offset + 1
  <2>1. ASSUME NEW t \in Tailers, commitEvent(t) \/ skipPoisonEvent(t), offset' # offset
        PROVE  offset' = offset + 1
    <3>1. Draining(t) /\ pos[t] < through[t]
      BY <1>1, <2>1, Zenon DEF commitEvent, skipPoisonEvent, Draining, TailerInv, FenceInv
    <3>2. Accepts(t, pos[t] + 1) /\ offset' = pos[t] + 1
      BY <2>1, Zenon DEF commitEvent, skipPoisonEvent, AdvanceIfOwner
    <3>3. pos[t] = offset
      BY <1>1, <3>1, <3>2, AcceptedIsNext, Zenon
    <3> QED
      BY <3>2, <3>3, Zenon
  <2> QED
    BY <1>1, <2>1, Zenon
       DEF TailerNext, Drain, TailerAppend, JournalGrows, Expire, LoseLock, Poll, ReadHead, LoadOffset,
           applyEvent, stopAtHead, Release, Abort, Crash, storeVars
<1>2. ReadModelsInv /\ [Next]_vars =>
          [driver = "tailer" => offset' = offset \/ offset' = offset + 1]_vars
  BY <1>1, Zenon DEF ReadModelsInv, Next, ProjectionNext
<1> QED
  BY <1>2, ReadModelsInvariant, PTL DEF Spec, InOrder

=============================================================================
