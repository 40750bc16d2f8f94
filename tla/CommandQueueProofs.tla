------------------------- MODULE CommandQueueProofs -------------------------
(* For any commands, handlers and plans: the device quota holds, two active    *)
(* commands never share a key, an outcome a caller was told stays in force,    *)
(* and the sweeper ends nothing early.                                         *)
EXTENDS CommandQueue, FiniteSetTheorems, TLAPS

Selected(p) == tx[p].at = "selected"

QueueTypeOK ==
    /\ plan \in Plans
    /\ row \in [Commands -> {"none"} \cup Stored]
    /\ tx \in [Procs -> {Idle} \cup EnqueueTx \cup EndTx]
    /\ told \in [Commands -> SUBSET Terminal]
    /\ now \in Nat

\* Two open Enqueues differ in command, key and (under a quota) device; two open
\* Acks in command.
Apart ==
    \A p, q \in Procs : p # q =>
        /\ Enqueueing(p) /\ Enqueueing(q) =>
              /\ tx[p].cmd # tx[q].cmd
              /\ KeyOf(tx[p].cmd) # NoKey => KeyOf(tx[p].cmd) # KeyOf(tx[q].cmd)
              /\ Capped => DeviceOf(tx[p].cmd) # DeviceOf(tx[q].cmd)
        /\ Selected(p) /\ Selected(q) => tx[p].cmd # tx[q].cmd

\* The command of an open Enqueue is not stored and its key is free.
Fresh ==
    \A p \in Procs : Enqueueing(p) =>
        /\ row[tx[p].cmd] = "none"
        /\ ~KeyHeld(tx[p].cmd)

\* A count taken under the advisory lock still holds when the transaction commits.
CountStands ==
    \A p \in Procs : Capped /\ tx[p].at = "counted" =>
        Cardinality(PendingOf(DeviceOf(tx[p].cmd)) \cup {tx[p].cmd}) <= MaxPendingPerDevice

\* A status read FOR UPDATE is still the row's status when it is acted on.
ReadStands == \A p \in Procs : Selected(p) => tx[p].read = row[tx[p].cmd]

\* The inductive invariant.
IInv ==
    /\ QueueTypeOK
    /\ Apart
    /\ Fresh
    /\ CountStands
    /\ ReadStands
    /\ PendingCap
    /\ OneActivePerKey
    /\ OneOutcome

(* -------------------------------- Lemmas ----------------------------------- *)

\* What a transaction record looks like, by the step it is at.
LEMMA TxShape ==
    ASSUME QueueTypeOK, NEW p \in Procs
    PROVE  /\ tx[p] = Idle => ~Enqueueing(p) /\ ~Selected(p)
           /\ Enqueueing(p) => tx[p] \in EnqueueTx
           /\ Selected(p) => tx[p] \in EndTx
BY DEF QueueTypeOK, Idle, EnqueueTx, EndTx, Enqueueing, Selected

\* The Pending commands of a device are finitely many.
LEMMA PendingFinite ==
    ASSUME NEW d
    PROVE  IsFiniteSet(PendingOf(d))
BY CommandAssumption, FS_Subset, Zenon DEF PendingOf

\* Counting fewer commands gives no larger number.
LEMMA FewerIsLess ==
    ASSUME NEW S, NEW T, IsFiniteSet(T), S \subseteq T, NEW n \in Nat, Cardinality(T) <= n
    PROVE  Cardinality(S) <= n
BY FS_Subset, FS_CardinalityType

\* The quota of every plan is a number.
LEMMA LimitIsNat == QueueTypeOK => MaxPendingPerDevice \in Nat
BY CommandAssumption, Zenon DEF QueueTypeOK, MaxPendingPerDevice

\* The empty table satisfies the inductive invariant.
LEMMA InitIInv == Init => IInv
<1> SUFFICES ASSUME Init PROVE IInv
  OBVIOUS
<1>1. QueueTypeOK
  BY Zenon DEF Init, QueueTypeOK, Procs
<1>2. \A p \in Procs : ~Enqueueing(p) /\ ~Selected(p) /\ tx[p].at # "counted"
  BY Zenon DEF Init, Idle, Enqueueing, Selected
<1>3. PendingCap
  <2>1. \A d : PendingOf(d) = {}
    BY Zenon DEF Init, PendingOf
  <2>2. QED
    BY <2>1, <1>1, FS_EmptySet, LimitIsNat DEF PendingCap
<1>4. OneActivePerKey /\ OneOutcome
  BY Zenon DEF Init, OneActivePerKey, OneOutcome, Active
<1>5. QED
  BY <1>1, <1>2, <1>3, <1>4, Zenon DEF IInv, Apart, Fresh, CountStands, ReadStands

\* No command becomes active or Pending, and none is forgotten.
NoneAdded ==
    /\ plan' = plan
    /\ \A c \in Commands :
          /\ row'[c] = "pending" => row[c] = "pending"
          /\ row'[c] \in Active => row[c] \in Active
          /\ row[c] = "none" => row'[c] = "none"

\* Such a step keeps the quota and the keys.
LEMMA NoneAddedKeeps ==
    ASSUME IInv, NoneAdded
    PROVE  /\ PendingCap' /\ OneActivePerKey'
           /\ \A c \in Commands : ~KeyHeld(c) => ~KeyHeld(c)'
           /\ \A d : PendingOf(d)' \subseteq PendingOf(d)
<1>1. \A d : PendingOf(d)' \subseteq PendingOf(d)
  BY Zenon DEF NoneAdded, PendingOf, DeviceOf
<1>2. \A c \in Commands : ~KeyHeld(c) => ~KeyHeld(c)'
  BY Zenon DEF NoneAdded, KeyHeld, KeyOf
<1>3. OneActivePerKey'
  BY Zenon DEF IInv, OneActivePerKey, NoneAdded, KeyOf
<1>4. PendingCap'
  <2> SUFFICES ASSUME Capped', NEW c \in Commands
               PROVE  Cardinality(PendingOf(DeviceOf(c)))' <= MaxPendingPerDevice'
    BY Zenon DEF PendingCap
  <2>1. Cardinality(PendingOf(DeviceOf(c))) <= MaxPendingPerDevice
    BY Zenon DEF IInv, PendingCap, NoneAdded, Capped, MaxPendingPerDevice
  <2>2. PendingOf(DeviceOf(c))' \subseteq PendingOf(DeviceOf(c))
    BY <1>1, Zenon DEF NoneAdded, DeviceOf, PendingOf
  <2>3. Cardinality(PendingOf(DeviceOf(c))') <= MaxPendingPerDevice
    BY <2>1, <2>2, PendingFinite, FewerIsLess, LimitIsNat, Zenon DEF IInv
  <2>4. QED
    BY <2>3, Zenon DEF NoneAdded, MaxPendingPerDevice
<1>5. QED
  BY <1>1, <1>2, <1>3, <1>4, Zenon

\* A transaction that ends without writing leaves everything in order.
LEMMA LeaveKeeps ==
    ASSUME IInv, NEW p \in Procs, tx' = [tx EXCEPT ![p] = Idle],
           UNCHANGED <<plan, row, told, now>>
    PROVE  IInv'
<1>1. NoneAdded
  BY Zenon DEF NoneAdded
<1>2. QueueTypeOK'
  BY Zenon DEF IInv, QueueTypeOK
<1>3. /\ ~Enqueueing(p)' /\ ~Selected(p)' /\ ~(tx[p].at = "counted")'
      /\ \A q \in Procs : q # p => tx'[q] = tx[q]
  BY Zenon DEF IInv, QueueTypeOK, Idle, Enqueueing, Selected
<1>4. Apart'
  BY <1>3 DEF IInv, Apart, Enqueueing, Selected, Capped, KeyOf, DeviceOf, MaxPendingPerDevice
<1>5. Fresh'
  BY <1>3 DEF IInv, Fresh, Enqueueing, KeyHeld, KeyOf
<1>6. CountStands'
  BY <1>3 DEF IInv, CountStands, Capped, DeviceOf, MaxPendingPerDevice, PendingOf
<1>7. ReadStands' /\ OneOutcome'
  BY <1>3, Zenon DEF IInv, ReadStands, Selected, OneOutcome
<1>8. QED
  BY <1>1, <1>2, <1>4, <1>5, <1>6, <1>7, NoneAddedKeeps, Zenon DEF IInv

\* insertEntry: the advisory lock and the index keep the new row apart.
LEMMA InsertKeeps ==
    ASSUME IInv, NEW p \in Procs, NEW c \in Commands, insertEntry(p, c)
    PROVE  IInv'
<1> DEFINE t == [at |-> IF Capped THEN "inserted" ELSE "counted", cmd |-> c, created |-> now]
<1>1. NoneAdded
  BY Zenon DEF NoneAdded, insertEntry
<1>2. t \in EnqueueTx /\ t.cmd = c /\ (Capped => t.at # "counted") /\ t.at # "selected"
  BY Zenon DEF IInv, QueueTypeOK, EnqueueTx
<1>3. tx' = [tx EXCEPT ![p] = t]
  BY Zenon DEF insertEntry
<1> HIDE DEF t
<1>4. QueueTypeOK'
  BY <1>2, <1>3 DEF IInv, QueueTypeOK, insertEntry
<1>5. tx'[p] = t /\ \A q \in Procs : q # p => tx'[q] = tx[q]
  BY <1>3, Zenon DEF IInv, QueueTypeOK
<1>6. \A q \in Procs : q # p /\ Enqueueing(q) =>
         /\ tx[q].cmd # c
         /\ KeyOf(c) # NoKey => KeyOf(tx[q].cmd) # KeyOf(c)
         /\ Capped => DeviceOf(tx[q].cmd) # DeviceOf(c)
  BY Zenon DEF insertEntry, IndexFree, DeviceFree
<1>7. Apart'
  <2>1. ~Selected(p)' /\ tx'[p].cmd = c /\ plan' = plan
    BY <1>2, <1>5, Zenon DEF Selected, insertEntry
  <2>2. QED
    BY <1>5, <1>6, <2>1 DEF IInv, Apart, Enqueueing, Selected, Capped, KeyOf, DeviceOf,
                             MaxPendingPerDevice
<1>8. Fresh'
  BY <1>2, <1>5 DEF IInv, Fresh, Enqueueing, KeyHeld, KeyOf, insertEntry
<1>9. CountStands'
  BY <1>2, <1>5 DEF IInv, CountStands, Capped, DeviceOf, MaxPendingPerDevice, PendingOf, insertEntry
<1>10. ReadStands' /\ OneOutcome'
  BY <1>2, <1>5 DEF IInv, ReadStands, Selected, OneOutcome, insertEntry
<1>11. QED
  BY <1>1, <1>4, <1>7, <1>8, <1>9, <1>10, NoneAddedKeeps, Zenon DEF IInv

\* enforcePendingLimit: what was counted is within the quota.
LEMMA CountKeeps ==
    ASSUME IInv, NEW p \in Procs, enforcePendingLimit(p)
    PROVE  IInv'
<1> DEFINE c == tx[p].cmd
           n == Cardinality(PendingOf(DeviceOf(c)) \cup {c})
           t == [tx[p] EXCEPT !.at = "counted"]
<1>1. CASE n > MaxPendingPerDevice
  BY <1>1, LeaveKeeps, Zenon DEF enforcePendingLimit
<1>2. CASE ~(n > MaxPendingPerDevice)
  <2>1. tx' = [tx EXCEPT ![p] = t] /\ UNCHANGED <<plan, row, told, now>>
    BY <1>2, Zenon DEF enforcePendingLimit
  <2>2. tx[p] \in EnqueueTx /\ Enqueueing(p)
    BY TxShape, Zenon DEF IInv, enforcePendingLimit, Enqueueing
  <2>3. t \in EnqueueTx /\ t.cmd = c /\ t.at = "counted"
    BY <2>2, Zenon DEF EnqueueTx
  <2>4. n <= MaxPendingPerDevice
    <3>1. n \in Nat
      BY PendingFinite, FS_AddElement, FS_CardinalityType, Zenon
    <3>2. QED
      BY <3>1, <1>2, LimitIsNat DEF IInv
  <2> HIDE DEF t
  <2>5. QueueTypeOK'
    BY <2>1, <2>3, Zenon DEF IInv, QueueTypeOK
  <2>6. tx'[p] = t /\ \A q \in Procs : q # p => tx'[q] = tx[q]
    BY <2>1, Zenon DEF IInv, QueueTypeOK
  <2>7. Apart'
    BY <2>1, <2>2, <2>3, <2>6 DEF IInv, Apart, Enqueueing, Selected, Capped, KeyOf, DeviceOf,
                                  MaxPendingPerDevice
  <2>8. Fresh'
    BY <2>1, <2>2, <2>3, <2>6 DEF IInv, Fresh, Enqueueing, KeyHeld, KeyOf
  <2>9. CountStands'
    <3> SUFFICES ASSUME NEW q \in Procs, Capped', tx'[q].at = "counted"
                 PROVE  (Cardinality(PendingOf(DeviceOf(tx[q].cmd)) \cup {tx[q].cmd})
                            <= MaxPendingPerDevice)'
      BY Zenon DEF CountStands
    <3>1. tx'[q].cmd = tx[q].cmd
      BY <2>3, <2>6, Zenon
    <3>2. Cardinality(PendingOf(DeviceOf(tx[q].cmd)) \cup {tx[q].cmd}) <= MaxPendingPerDevice
      <4>1. CASE q = p
        BY <4>1, <2>4, Zenon
      <4>2. CASE q # p
        BY <4>2, <2>1, <2>6, Zenon DEF IInv, CountStands, Capped, MaxPendingPerDevice
      <4>3. QED
        BY <4>1, <4>2, Zenon
    <3>3. QED
      BY <3>1, <3>2, <2>1, Zenon DEF PendingOf, DeviceOf, MaxPendingPerDevice
  <2>10. ReadStands' /\ OneOutcome'
    BY <2>1, <2>3, <2>6, Zenon DEF IInv, ReadStands, Selected, OneOutcome
  <2>11. NoneAdded
    BY <2>1, Zenon DEF NoneAdded
  <2>12. QED
    BY <2>5, <2>7, <2>8, <2>9, <2>10, <2>11, NoneAddedKeeps, Zenon DEF IInv
<1>3. QED
  BY <1>1, <1>2, Zenon

\* commitEnqueue: the row appears with its key free and within the quota.
LEMMA CommitKeeps ==
    ASSUME IInv, NEW p \in Procs, commitEnqueue(p)
    PROVE  IInv'
<1> DEFINE c == tx[p].cmd
<1>1. tx[p] \in EnqueueTx /\ Enqueueing(p) /\ c \in Commands
  BY TxShape, Zenon DEF IInv, commitEnqueue, Enqueueing, EnqueueTx
<1>2. /\ row' = [row EXCEPT ![c] = "pending"]
      /\ tx' = [tx EXCEPT ![p] = Idle]
      /\ UNCHANGED <<plan, told, now>>
  BY Zenon DEF commitEnqueue
<1>3. row[c] = "none" /\ ~KeyHeld(c)
  BY <1>1, Zenon DEF IInv, Fresh
<1> HIDE DEF c
<1>4. QueueTypeOK'
  BY <1>1, <1>2, Zenon DEF IInv, QueueTypeOK, Stored, Active
<1>5. /\ ~Enqueueing(p)' /\ ~Selected(p)' /\ ~(tx[p].at = "counted")'
      /\ \A q \in Procs : q # p => tx'[q] = tx[q]
  BY <1>2, Zenon DEF IInv, QueueTypeOK, Idle, Enqueueing, Selected
<1>6. /\ row'[c] = "pending"
      /\ \A o \in Commands : o # c => row'[o] = row[o]
  BY <1>1, <1>2, Zenon DEF IInv, QueueTypeOK
<1>7. \A q \in Procs : q # p /\ Enqueueing(q) =>
         /\ tx[q].cmd # c
         /\ KeyOf(tx[q].cmd) # NoKey => KeyOf(tx[q].cmd) # KeyOf(c)
         /\ Capped => DeviceOf(tx[q].cmd) # DeviceOf(c)
  BY <1>1, Zenon DEF IInv, Apart, c
<1>8. Apart'
  BY <1>2, <1>5 DEF IInv, Apart, Enqueueing, Selected, Capped, KeyOf, DeviceOf, MaxPendingPerDevice
<1>9. Fresh'
  <2> SUFFICES ASSUME NEW q \in Procs, q # p, Enqueueing(q)
               PROVE  row'[tx[q].cmd] = "none" /\ ~KeyHeld(tx[q].cmd)'
    BY <1>5, Zenon DEF Fresh, Enqueueing, KeyHeld, KeyOf
  <2>1. row[tx[q].cmd] = "none" /\ ~KeyHeld(tx[q].cmd) /\ tx[q].cmd \in Commands
    BY TxShape, Zenon DEF IInv, Fresh, EnqueueTx
  <2>2. tx'[q] = tx[q]
    BY <1>5, Zenon
  <2>3. QED
    BY <2>1, <2>2, <1>2, <1>6, <1>7, Zenon DEF KeyHeld, KeyOf
<1>10. CountStands'
  <2> SUFFICES ASSUME NEW q \in Procs, q # p, Capped, tx[q].at = "counted"
               PROVE  (Cardinality(PendingOf(DeviceOf(tx[q].cmd)) \cup {tx[q].cmd})
                          <= MaxPendingPerDevice)'
    BY <1>2, <1>5, Zenon DEF CountStands, Capped, MaxPendingPerDevice
  <2>1. DeviceOf(tx[q].cmd) # DeviceOf(c)
    BY <1>7, Zenon DEF Enqueueing
  <2>2. PendingOf(DeviceOf(tx[q].cmd))' = PendingOf(DeviceOf(tx[q].cmd))
    BY <2>1, <1>2, <1>5, <1>6, Zenon DEF PendingOf, DeviceOf
  <2>3. Cardinality(PendingOf(DeviceOf(tx[q].cmd)) \cup {tx[q].cmd}) <= MaxPendingPerDevice
    BY Zenon DEF IInv, CountStands
  <2>4. QED
    BY <2>2, <2>3, <1>2, <1>5, Zenon DEF MaxPendingPerDevice
<1>11. ReadStands'
  <2> SUFFICES ASSUME NEW q \in Procs, q # p, Selected(q)
               PROVE  tx[q].read = row'[tx[q].cmd]
    BY <1>5, Zenon DEF ReadStands, Selected
  <2>1. tx[q] \in EndTx /\ tx[q].read = row[tx[q].cmd]
    BY TxShape, Zenon DEF IInv, ReadStands
  <2>2. tx[q].cmd # c
    BY <2>1, <1>3, Zenon DEF EndTx, Stored, Active, Terminal
  <2>3. QED
    BY <2>1, <2>2, <1>6, Zenon DEF EndTx
<1>12. PendingCap'
  <2> SUFFICES ASSUME Capped, NEW o \in Commands
               PROVE  Cardinality(PendingOf(DeviceOf(o)))' <= MaxPendingPerDevice'
    BY <1>2, Zenon DEF PendingCap, Capped, MaxPendingPerDevice
  <2>1. CASE DeviceOf(o) = DeviceOf(c)
    <3>1. PendingOf(DeviceOf(o))' = PendingOf(DeviceOf(c)) \cup {c}
      BY <2>1, <1>1, <1>2, <1>6, Zenon DEF PendingOf, DeviceOf
    <3>2. Cardinality(PendingOf(DeviceOf(c)) \cup {c}) <= MaxPendingPerDevice
      BY Zenon DEF IInv, CountStands, commitEnqueue, c
    <3>3. QED
      BY <3>1, <3>2, <1>2, Zenon DEF MaxPendingPerDevice
  <2>2. CASE DeviceOf(o) # DeviceOf(c)
    <3>1. PendingOf(DeviceOf(o))' = PendingOf(DeviceOf(o))
      BY <2>2, <1>1, <1>2, <1>6, Zenon DEF PendingOf, DeviceOf
    <3>2. QED
      BY <3>1, <1>2, Zenon DEF IInv, PendingCap, MaxPendingPerDevice
  <2>3. QED
    BY <2>1, <2>2, Zenon
<1>13. OneActivePerKey'
  BY <1>1, <1>2, <1>3, <1>6, Zenon DEF IInv, OneActivePerKey, KeyHeld, KeyOf
<1>14. OneOutcome'
  BY <1>2, <1>3, <1>6, Zenon DEF IInv, OneOutcome, QueueTypeOK, Terminal
<1>15. QED
  BY <1>4, <1>8, <1>9, <1>10, <1>11, <1>12, <1>13, <1>14, Zenon DEF IInv

\* The read FOR UPDATE: no one else has the row.
LEMMA SelectKeeps ==
    ASSUME IInv, NEW p \in Procs, NEW c \in Commands, NEW op \in {"ack", "cancel"},
           NEW to \in Terminal, selectStatusForUpdate(p, c, op, to),
           UNCHANGED <<plan, row, told, now>>
    PROVE  IInv'
<1> DEFINE t == [at |-> "selected", cmd |-> c, op |-> op, to |-> to, read |-> row[c]]
<1>1. NoneAdded
  BY Zenon DEF NoneAdded
<1>2. t \in EndTx /\ t.at = "selected" /\ t.cmd = c /\ t.read = row[c]
  BY Zenon DEF IInv, QueueTypeOK, EndTx, selectStatusForUpdate
<1>3. tx' = [tx EXCEPT ![p] = t]
  BY Zenon DEF selectStatusForUpdate
<1> HIDE DEF t
<1>4. QueueTypeOK'
  BY <1>2, <1>3, Zenon DEF IInv, QueueTypeOK
<1>5. tx'[p] = t /\ \A q \in Procs : q # p => tx'[q] = tx[q]
  BY <1>3, Zenon DEF IInv, QueueTypeOK
<1>6. \A q \in Procs : Selected(q) => tx[q].cmd # c
  BY Zenon DEF selectStatusForUpdate, RowFree, Locked, Selected
<1>7. Apart'
  BY <1>2, <1>5, <1>6 DEF IInv, Apart, Enqueueing, Selected, Capped, KeyOf, DeviceOf,
                          MaxPendingPerDevice
<1>8. Fresh'
  BY <1>2, <1>5 DEF IInv, Fresh, Enqueueing, KeyHeld, KeyOf
<1>9. CountStands'
  BY <1>2, <1>5 DEF IInv, CountStands, Capped, DeviceOf, MaxPendingPerDevice, PendingOf
<1>10. ReadStands' /\ OneOutcome'
  BY <1>2, <1>5, Zenon DEF IInv, ReadStands, Selected, OneOutcome
<1>11. QED
  BY <1>1, <1>4, <1>7, <1>8, <1>9, <1>10, NoneAddedKeeps, Zenon DEF IInv

\* A step of rows no transaction has locked and no caller was told the end of.
LEMMA RowKeeps ==
    ASSUME IInv, NoneAdded, UNCHANGED <<tx, told, now>>,
           row' \in [Commands -> {"none"} \cup Stored],
           \A c \in Commands : row'[c] # row[c] => ~Locked(c) /\ row[c] \in Active
    PROVE  IInv'
<1>1. QueueTypeOK'
  BY Zenon DEF IInv, QueueTypeOK, NoneAdded
<1>2. Apart'
  BY Zenon DEF IInv, Apart, NoneAdded, Enqueueing, Selected, Capped, KeyOf, DeviceOf, MaxPendingPerDevice
<1>3. Fresh'
  <2> SUFFICES ASSUME NEW p \in Procs, Enqueueing(p)
               PROVE  row'[tx[p].cmd] = "none" /\ ~KeyHeld(tx[p].cmd)'
    BY Zenon DEF Fresh, Enqueueing
  <2>1. row[tx[p].cmd] = "none" /\ ~KeyHeld(tx[p].cmd) /\ tx[p].cmd \in Commands
    BY TxShape, Zenon DEF IInv, Fresh, EnqueueTx
  <2>2. QED
    BY <2>1, NoneAddedKeeps, Zenon DEF NoneAdded, KeyHeld, KeyOf
<1>4. CountStands'
  <2> SUFFICES ASSUME NEW p \in Procs, Capped, tx[p].at = "counted"
               PROVE  (Cardinality(PendingOf(DeviceOf(tx[p].cmd)) \cup {tx[p].cmd})
                          <= MaxPendingPerDevice)'
    BY Zenon DEF CountStands, NoneAdded, Capped, MaxPendingPerDevice
  <2> DEFINE c == tx[p].cmd
  <2>1. PendingOf(DeviceOf(c))' \subseteq PendingOf(DeviceOf(c))
    BY Zenon DEF NoneAdded, PendingOf, DeviceOf
  <2>2. Cardinality(PendingOf(DeviceOf(c)) \cup {c}) <= MaxPendingPerDevice
    BY Zenon DEF IInv, CountStands
  <2>3. IsFiniteSet(PendingOf(DeviceOf(c)) \cup {c})
    BY PendingFinite, FS_AddElement, Zenon
  <2>4. PendingOf(DeviceOf(c))' \cup {c} \subseteq PendingOf(DeviceOf(c)) \cup {c}
    BY <2>1, Zenon
  <2>5. Cardinality(PendingOf(DeviceOf(c))' \cup {c}) <= MaxPendingPerDevice
    BY <2>2, <2>3, <2>4, FewerIsLess, LimitIsNat, Zenon DEF IInv
  <2>6. QED
    BY <2>5, Zenon DEF NoneAdded, MaxPendingPerDevice
<1>5. ReadStands'
  BY TxShape, Zenon DEF IInv, ReadStands, Selected, Locked, EndTx
<1>6. OneOutcome'
  BY Zenon DEF IInv, OneOutcome, QueueTypeOK, Terminal, Active
<1>7. QED
  BY <1>1, <1>2, <1>3, <1>4, <1>5, <1>6, NoneAddedKeeps, Zenon DEF IInv

\* Dequeue takes unlocked Pending rows.
LEMMA DequeueKeeps ==
    ASSUME IInv, NEW d, NEW n, Dequeue(d, n)
    PROVE  IInv'
<1>1. PICK S \in SUBSET PendingOf(d) :
         /\ Batch(d, n, S)
         /\ row' = [c \in Commands |-> IF c \in S THEN "sent" ELSE row[c]]
  BY Zenon DEF Dequeue
<1>2. UNCHANGED <<plan, tx, told, now>>
  BY Zenon DEF Dequeue
<1>3. \A c \in S : c \in Commands /\ row[c] = "pending" /\ ~Locked(c)
  BY <1>1, Zenon DEF Batch, PendingOf
<1>4. NoneAdded
  BY <1>1, <1>2, <1>3, Zenon DEF NoneAdded, Active
<1>5. row' \in [Commands -> {"none"} \cup Stored]
  BY <1>1, Zenon DEF IInv, QueueTypeOK, Stored, Active
<1>6. \A c \in Commands : row'[c] # row[c] => ~Locked(c) /\ row[c] \in Active
  BY <1>1, <1>3, Zenon DEF Active
<1>7. QED
  BY <1>2, <1>4, <1>5, <1>6, RowKeeps, Zenon

\* Report moves an unlocked Sent row.
LEMMA ReportKeeps ==
    ASSUME IInv, NEW c \in Commands, Report(c)
    PROVE  IInv'
<1>1. UNCHANGED <<plan, tx, told, now>> /\ NoneAdded
  BY Zenon DEF Report, NoneAdded, Active, IInv, QueueTypeOK
<1>2. row' \in [Commands -> {"none"} \cup Stored]
  BY Zenon DEF Report, IInv, QueueTypeOK, Stored, Active
<1>3. \A o \in Commands : row'[o] # row[o] => ~Locked(o) /\ row[o] \in Active
  BY Zenon DEF Report, IInv, QueueTypeOK, Active
<1>4. QED
  BY <1>1, <1>2, <1>3, RowKeeps, Zenon

\* ackInTx: the row has the status that was read, so a second outcome is refused.
LEMMA EndKeeps ==
    ASSUME IInv, NEW p \in Procs, ackInTx(p)
    PROVE  IInv'
<1> DEFINE c == tx[p].cmd
           to == tx[p].to
           ok == tx[p].read \in Active /\ to \in statusTransitions[tx[p].read]
<1>1. /\ tx[p] \in EndTx /\ Selected(p) /\ tx[p].read = row[c]
      /\ c \in Commands /\ to \in Terminal
  BY TxShape, Zenon DEF IInv, ackInTx, Selected, EndTx, ReadStands
<1>2. tx' = [tx EXCEPT ![p] = Idle] /\ UNCHANGED <<plan, now>>
  BY Zenon DEF ackInTx
<1>3. /\ ok => row' = [row EXCEPT ![c] = to]
      /\ ~ok => row' = row
      /\ ok \/ AlreadySo(p) => told' = [told EXCEPT ![c] = @ \cup {to}]
      /\ ~(ok \/ AlreadySo(p)) => told' = told
  BY Zenon DEF ackInTx
<1>4. ok => row[c] \in Active
  BY <1>1, Zenon
<1>5. AlreadySo(p) => row[c] = to
  BY <1>1, Zenon DEF AlreadySo
<1> HIDE DEF c, to, ok
<1>6. QueueTypeOK'
  BY <1>1, <1>2, <1>3 DEF IInv, QueueTypeOK, Stored
<1>7. /\ ~Enqueueing(p)' /\ ~Selected(p)' /\ ~(tx[p].at = "counted")'
      /\ \A q \in Procs : q # p => tx'[q] = tx[q]
  BY <1>2, Zenon DEF IInv, QueueTypeOK, Idle, Enqueueing, Selected
<1>8. /\ \A o \in Commands : o # c => row'[o] = row[o]
      /\ row'[c] # row[c] => row[c] \in Active /\ row'[c] = to
  BY <1>1, <1>3, <1>4, Zenon DEF IInv, QueueTypeOK
<1>9. NoneAdded
  BY <1>1, <1>2, <1>8, Zenon DEF NoneAdded, Active, Terminal
<1>10. Apart'
  BY <1>2, <1>7 DEF IInv, Apart, Enqueueing, Selected, Capped, KeyOf, DeviceOf, MaxPendingPerDevice
<1>11. Fresh'
  <2> SUFFICES ASSUME NEW q \in Procs, q # p, Enqueueing(q)
               PROVE  row'[tx[q].cmd] = "none" /\ ~KeyHeld(tx[q].cmd)'
    BY <1>7, Zenon DEF Fresh, Enqueueing, KeyHeld, KeyOf
  <2>1. row[tx[q].cmd] = "none" /\ ~KeyHeld(tx[q].cmd) /\ tx[q].cmd \in Commands
    BY TxShape, Zenon DEF IInv, Fresh, EnqueueTx
  <2>2. tx'[q] = tx[q]
    BY <1>7, Zenon
  <2>3. QED
    BY <2>1, <2>2, <1>9, Zenon DEF NoneAdded, KeyHeld, KeyOf
<1>12. CountStands'
  <2> SUFFICES ASSUME NEW q \in Procs, q # p, Capped, tx[q].at = "counted"
               PROVE  (Cardinality(PendingOf(DeviceOf(tx[q].cmd)) \cup {tx[q].cmd})
                          <= MaxPendingPerDevice)'
    BY <1>2, <1>7, Zenon DEF CountStands, Capped, MaxPendingPerDevice
  <2> DEFINE o == tx[q].cmd
  <2>1. tx'[q].cmd = o
    BY <1>7, Zenon
  <2> HIDE DEF o
  <2>2. PendingOf(DeviceOf(o))' \subseteq PendingOf(DeviceOf(o))
    BY <2>1, <1>9, Zenon DEF NoneAdded, PendingOf, DeviceOf, o
  <2>3. Cardinality(PendingOf(DeviceOf(o)) \cup {o}) <= MaxPendingPerDevice
    BY Zenon DEF IInv, CountStands, o
  <2>4. IsFiniteSet(PendingOf(DeviceOf(o)) \cup {o})
    BY PendingFinite, FS_AddElement, Zenon
  <2>5. QED
    BY <2>1, <2>2, <2>3, <2>4, <1>2, FewerIsLess, LimitIsNat
    DEF IInv, MaxPendingPerDevice, PendingOf, DeviceOf, o
<1>13. ReadStands'
  <2> SUFFICES ASSUME NEW q \in Procs, q # p, Selected(q)
               PROVE  tx[q].read = row'[tx[q].cmd]
    BY <1>7, Zenon DEF ReadStands, Selected
  <2>1. tx[q] \in EndTx /\ tx[q].read = row[tx[q].cmd] /\ tx[q].cmd # c
    BY TxShape, <1>1, Zenon DEF IInv, ReadStands, Apart, c
  <2>2. QED
    BY <2>1, <1>8, Zenon DEF EndTx
<1>14. OneOutcome'
  <2>1. \A o \in Commands : o # c => told'[o] = told[o]
    BY <1>3, <1>1, Zenon DEF IInv, QueueTypeOK
  <2>2. told'[c] \subseteq {row'[c]}
    <3>1. CASE ok
      <4>1. told[c] = {}
        BY <3>1, <1>1, <1>4, Zenon DEF IInv, OneOutcome, QueueTypeOK, Active, Terminal
      <4>2. QED
        BY <4>1, <3>1, <1>1, <1>3, Zenon DEF IInv, QueueTypeOK
    <3>2. CASE ~ok /\ AlreadySo(p)
      BY <3>2, <1>1, <1>3, <1>5 DEF IInv, OneOutcome, QueueTypeOK
    <3>3. CASE ~ok /\ ~AlreadySo(p)
      BY <3>3, <1>1, <1>3, Zenon DEF IInv, OneOutcome
    <3>4. QED
      BY <3>1, <3>2, <3>3, Zenon
  <2>3. QED
    BY <2>1, <2>2, <1>8, Zenon DEF IInv, OneOutcome
<1>15. QED
  BY <1>6, <1>9, <1>10, <1>11, <1>12, <1>13, <1>14, NoneAddedKeeps, Zenon DEF IInv

\* Every step of a handler, of the sweeper and of the clock preserves it.
LEMMA NextIInv == IInv /\ [Next]_vars => IInv'
<1> SUFFICES ASSUME IInv, [Next]_vars PROVE IInv'
  OBVIOUS
<1>1. ASSUME NEW p \in Handlers, NEW c \in Commands, insertEntry(p, c) PROVE IInv'
  BY <1>1, InsertKeeps, Zenon DEF Procs
<1>2. ASSUME NEW p \in Handlers, NEW c \in Commands, Cancel(p, c) PROVE IInv'
  BY <1>2, SelectKeeps, Zenon DEF Procs, Cancel, Terminal
<1>3. ASSUME NEW p \in Handlers, NEW c \in Commands, NEW to \in AckReasons, Ack(p, c, to)
      PROVE  IInv'
  <2>1. to \in Terminal
    BY CommandAssumption, Zenon DEF Terminal
  <2>2. QED
    BY <1>3, <2>1, SelectKeeps, Zenon DEF Procs, Ack
<1>4. ASSUME NEW p \in Procs, enforcePendingLimit(p) PROVE IInv'
  BY <1>4, CountKeeps, Zenon
<1>5. ASSUME NEW p \in Procs, commitEnqueue(p) PROVE IInv'
  BY <1>5, CommitKeeps, Zenon
<1>6. ASSUME NEW p \in Procs, ackInTx(p) PROVE IInv'
  BY <1>6, EndKeeps, Zenon
<1>7. ASSUME NEW p \in Procs, Rollback(p) PROVE IInv'
  BY <1>7, LeaveKeeps, Zenon DEF Rollback
<1>8. ASSUME NEW d, NEW n, Dequeue(d, n) PROVE IInv'
  BY <1>8, DequeueKeeps, Zenon
<1>9. ASSUME NEW c \in Commands, Report(c) PROVE IInv'
  BY <1>9, ReportKeeps, Zenon
<1>10. ASSUME NEW c \in Commands, SweepAck(c) PROVE IInv'
  BY <1>10, SelectKeeps, Zenon DEF Procs, SweepAck, Terminal
<1>11. CASE SweepTick \/ Tick \/ UNCHANGED vars
  <2>1. UNCHANGED <<plan, row, tx, told>> /\ now' \in Nat
    BY <1>11 DEF SweepTick, Tick, vars, IInv, QueueTypeOK
  <2>2. NoneAdded
    BY <2>1, Zenon DEF NoneAdded
  <2>3. QueueTypeOK'
    BY <2>1, Zenon DEF IInv, QueueTypeOK
  <2>4. Apart' /\ Fresh' /\ ReadStands' /\ OneOutcome'
    BY <2>1 DEF IInv, Apart, Fresh, ReadStands, OneOutcome, Enqueueing, Selected, Capped, KeyOf,
                DeviceOf, MaxPendingPerDevice, KeyHeld
  <2>5. CountStands'
    BY <2>1, Zenon DEF IInv, CountStands, Capped, DeviceOf, MaxPendingPerDevice, PendingOf
  <2>6. QED
    BY <2>2, <2>3, <2>4, <2>5, NoneAddedKeeps, Zenon DEF IInv
<1>12. QED
  BY <1>1, <1>2, <1>3, <1>4, <1>5, <1>6, <1>7, <1>8, <1>9, <1>10, <1>11, Zenon DEF Next

(* ------------------------------- Deadlines --------------------------------- *)

\* Some deadline of c has passed.
Overdue(c) == \E ph \in Phases : DeadlineFor(c, ph) # 0 /\ DeadlineFor(c, ph) < now

\* Only commands past one of their deadlines are expired.  The deadline for being sent
\* counts whether or not the command has been sent, as in checkExpiry, and not only "from
\* creation (Pending) to Sent", as entry.go has it.
ExpiredPastDeadline == \A c \in Commands : row[c] = "expired" => Overdue(c)

\* A command has a time it was sent at only after Dequeue.
Dated ==
    /\ created \in [Commands -> Nat]
    /\ sent \in [Commands -> Nat \cup {-1}]
    /\ \A c \in Commands : sent[c] # -1 => row[c] \notin {"none", "pending"}

\* What the sweep has decided to end, and what it is about to end, is overdue.
SweepIsRight ==
    /\ todo \subseteq Commands
    /\ \A c \in todo : row[c] # "none" /\ Overdue(c)
    /\ \A p \in Procs : Selected(p) /\ tx[p].to = "expired" => Overdue(tx[p].cmd)
    /\ ExpiredPastDeadline

\* The clock goes forward, and no step changes the times a stored command has.
TimesStay ==
    /\ plan' = plan
    /\ now' \in Nat /\ now <= now'
    /\ created' \in [Commands -> Nat]
    /\ sent' \in [Commands -> Nat \cup {-1}]
    /\ \A c \in Commands : row[c] # "none" =>
          /\ row'[c] # "none"
          /\ created'[c] = created[c]
          /\ sent'[c] = sent[c] \/ sent[c] = -1

\* A command that is overdue stays so, although Dequeue gives it a deadline more.
LEMMA OverdueStays ==
    ASSUME IInv, Dated, TimesStay, NEW c \in Commands, row[c] # "none", Overdue(c)
    PROVE  Overdue(c)'
<1>1. PICK ph \in Phases : DeadlineFor(c, ph) # 0 /\ DeadlineFor(c, ph) < now
  BY Zenon DEF Overdue
<1>2. DeadlineFor(c, ph)' = DeadlineFor(c, ph)
  BY <1>1, Zenon DEF DeadlineFor, Timeouts, TimesStay
<1>3. DeadlineFor(c, ph) \in Nat
  <2>1. Timeouts(c)[ph] \in Nat
    BY CommandAssumption, Zenon DEF IInv, QueueTypeOK, Timeouts, Phases
  <2>2. created[c] \in Nat /\ (sent[c] = -1 \/ sent[c] \in Nat)
    BY Zenon DEF Dated
  <2> QED
    BY <2>1, <2>2 DEF DeadlineFor
<1>4. DeadlineFor(c, ph) < now'
  BY <1>1, <1>3 DEF TimesStay, IInv, QueueTypeOK
<1> QED
  BY <1>1, <1>2, <1>4, Zenon DEF Overdue

\* Every step leaves the times of stored commands alone.
LEMMA NextTimes ==
    ASSUME IInv, Dated, [Next]_vars
    PROVE  TimesStay /\ Dated'
<1> USE DEF IInv, QueueTypeOK, Dated, TimesStay
<1>1. ASSUME NEW p \in Procs, commitEnqueue(p) PROVE TimesStay /\ Dated'
  <2>1. tx[p] \in EnqueueTx /\ Enqueueing(p)
    BY <1>1, TxShape, Zenon DEF commitEnqueue, Enqueueing
  <2>2. row[tx[p].cmd] = "none" /\ tx[p].cmd \in Commands /\ tx[p].created \in Nat
    BY <2>1, Zenon DEF Fresh, EnqueueTx
  <2>3. sent[tx[p].cmd] = -1
    BY <2>2, Zenon
  <2> QED
    BY <1>1, <2>2, <2>3 DEF commitEnqueue
<1>2. ASSUME NEW p \in Procs, ackInTx(p) PROVE TimesStay /\ Dated'
  <2>1. tx[p] \in EndTx
    BY <1>2, TxShape, Zenon DEF ackInTx, Selected
  <2>2. /\ tx[p].to \notin {"none", "pending"}
        /\ tx[p].cmd \in Commands
    BY <2>1, Zenon DEF EndTx, Terminal
  <2>3. /\ row' \in [Commands -> {"none"} \cup Stored]
        /\ \A c \in Commands : row'[c] = row[c] \/ row'[c] \notin {"none", "pending"}
    BY <1>2, <2>2, <2>1, Zenon DEF ackInTx, EndTx, Stored
  <2> QED
    BY <1>2, <2>3 DEF ackInTx
<1>3. ASSUME NEW d, NEW n, Dequeue(d, n) PROVE TimesStay /\ Dated'
  BY <1>3 DEF Dequeue, PendingOf
<1>4. ASSUME NEW c \in Commands, Report(c) PROVE TimesStay /\ Dated'
  BY <1>4 DEF Report
<1>5. CASE UNCHANGED <<plan, row, created, sent, now>> \/ Tick
  BY <1>5 DEF Tick
<1>6. ASSUME NEW p \in Procs, NEW c \in Commands,
             \/ insertEntry(p, c) \/ Cancel(p, c) \/ SweepAck(c)
             \/ \E to \in AckReasons : Ack(p, c, to)
      PROVE  UNCHANGED <<plan, row, created, sent, now>>
  BY <1>6, Zenon DEF insertEntry, Cancel, SweepAck, Ack
<1>7. ASSUME NEW p \in Procs, enforcePendingLimit(p) \/ Rollback(p)
      PROVE  UNCHANGED <<plan, row, created, sent, now>>
  BY <1>7, Zenon DEF enforcePendingLimit, Rollback
<1>8. SweepTick \/ UNCHANGED vars => UNCHANGED <<plan, row, created, sent, now>>
  BY Zenon DEF SweepTick, vars
<1> QED
  BY <1>1, <1>2, <1>3, <1>4, <1>5, <1>6, <1>7, <1>8, Zenon DEF Next, Procs

\* The sweeper decides rightly, and what it decided is right when it acts on it.
LEMMA NextSweep ==
    ASSUME IInv, Dated, SweepIsRight, TimesStay, Dated', [Next]_vars
    PROVE  SweepIsRight'
<1> USE DEF IInv, QueueTypeOK
<1>1. ASSUME NEW c \in Commands, row[c] # "none", Overdue(c) PROVE Overdue(c)' /\ row'[c] # "none"
  BY <1>1, OverdueStays, Zenon DEF TimesStay
<1>2. todo' \subseteq Commands /\ \A c \in todo' : row'[c] # "none" /\ Overdue(c)'
  <2>1. CASE SweepTick
    <3>1. \A c \in todo' : c \in Commands /\ row[c] # "none" /\ checkExpiry(c, now)
      BY <2>1, Zenon DEF SweepTick, ScanActive, Active
    <3>2. ASSUME NEW c \in Commands, checkExpiry(c, now) PROVE Overdue(c)
      <4>1. PICK ph \in Phases : DeadlineFor(c, ph) # 0 /\ now > DeadlineFor(c, ph)
        BY <3>2, Zenon DEF checkExpiry
      <4> QED
        BY <4>1, Zenon DEF Overdue
    <3> QED
      BY <1>1, <3>1, <3>2, Zenon
  <2>2. CASE todo' \subseteq todo
    BY <1>1, <2>2, Zenon DEF SweepIsRight
  <2>3. ~SweepTick => todo' \subseteq todo
    BY Zenon DEF Next, vars, Procs, insertEntry, Cancel, Ack, enforcePendingLimit, commitEnqueue, ackInTx,
        Rollback, Dequeue, Report, SweepAck, Tick
  <2> QED
    BY <2>1, <2>2, <2>3, Zenon
<1>3. ASSUME NEW p \in Procs, Selected(p)', tx'[p].to = "expired"
      PROVE  Overdue(tx[p].cmd)'
  <2>1. CASE tx'[p] = tx[p]
    <3>1. Selected(p) /\ tx[p].to = "expired" /\ tx[p] \in EndTx
      BY <1>3, <2>1, TxShape, Zenon DEF Selected
    <3>2. tx[p].cmd \in Commands /\ row[tx[p].cmd] # "none"
      BY <3>1, Zenon DEF ReadStands, EndTx, Stored, Active, Terminal
    <3> QED
      BY <1>1, <2>1, <3>1, <3>2, Zenon DEF SweepIsRight
  <2>2. CASE \E c \in Commands : SweepAck(c)
    <3>1. PICK c \in Commands : SweepAck(c)
      BY <2>2, Zenon
    <3>2. c \in todo /\ (p = Sweeper => tx'[p].cmd = c) /\ (p # Sweeper => tx'[p] = tx[p])
      BY <3>1, Zenon DEF SweepAck, selectStatusForUpdate, Procs
    <3> QED
      BY <1>1, <2>1, <3>2, Zenon DEF SweepIsRight
  <2>3. ASSUME tx'[p] # tx[p], ~\E c \in Commands : SweepAck(c) PROVE FALSE
    <3>1. ASSUME NEW q \in Procs, NEW c \in Commands, NEW op, NEW to, to # "expired",
                 selectStatusForUpdate(q, c, op, to)
          PROVE  FALSE
      BY <1>3, <2>3, <3>1, Zenon DEF selectStatusForUpdate
    <3>2. ASSUME NEW q \in Procs, NEW c \in Commands, insertEntry(q, c) PROVE FALSE
      BY <1>3, <2>3, <3>2, Zenon DEF insertEntry, Selected
    <3>3. ASSUME NEW q \in Procs, enforcePendingLimit(q) PROVE FALSE
      <4>1. tx[q] \in EnqueueTx
        BY <3>3, TxShape, Zenon DEF enforcePendingLimit, Enqueueing
      <4>2. tx'[q].at \in {"idle", "counted"} /\ \A r \in Procs : r # q => tx'[r] = tx[r]
        BY <3>3, <4>1, Zenon DEF enforcePendingLimit, Idle, EnqueueTx
      <4> QED
        BY <1>3, <2>3, <4>2, Zenon DEF Selected
    <3>4. ASSUME NEW q \in Procs, commitEnqueue(q) \/ ackInTx(q) \/ Rollback(q) PROVE FALSE
      <4>1. tx' = [tx EXCEPT ![q] = Idle]
        BY <3>4, Zenon DEF commitEnqueue, ackInTx, Rollback
      <4> QED
        BY <1>3, <2>3, <4>1, Zenon DEF Selected, Idle
    <3>5. ASSUME NEW q \in Procs, NEW c \in Commands,
                 Cancel(q, c) \/ \E to \in AckReasons : Ack(q, c, to)
          PROVE  FALSE
      BY <3>1, <3>5, CommandAssumption, Zenon DEF Cancel, Ack
    <3>6. tx' # tx
      BY <2>3, Zenon
    <3>7. ASSUME NEW d, NEW n, Dequeue(d, n) PROVE FALSE
      BY <3>6, <3>7, Zenon DEF Dequeue
    <3>8. ~(SweepTick \/ Tick \/ UNCHANGED vars \/ \E c \in Commands : Report(c))
      BY <3>6, Zenon DEF SweepTick, Tick, vars, Report
    <3> QED
      BY <2>3, <3>2, <3>3, <3>4, <3>5, <3>7, <3>8, Zenon DEF Next, Procs
  <2> QED
    BY <2>1, <2>2, <2>3, Zenon
<1>4. ASSUME NEW c \in Commands, row'[c] = "expired" PROVE Overdue(c)'
  <2>1. CASE row[c] = "expired"
    BY <1>1, <2>1, Zenon DEF SweepIsRight, ExpiredPastDeadline
  <2>2. CASE \E p \in Procs : ackInTx(p)
    <3>1. PICK p \in Procs : ackInTx(p)
      BY <2>2, Zenon
    <3>2. Selected(p) /\ tx[p] \in EndTx
      BY <3>1, TxShape, Zenon DEF ackInTx, Selected
    <3>3. CASE c = tx[p].cmd /\ tx[p].to = "expired"
      <4>1. row[c] # "none"
        BY <3>2, <3>3, Zenon DEF ReadStands, EndTx, Stored, Active, Terminal
      <4> QED
        BY <1>1, <3>2, <3>3, <4>1, Zenon DEF SweepIsRight
    <3>4. CASE ~(c = tx[p].cmd /\ tx[p].to = "expired")
      <4>1. row[c] = "expired"
        BY <1>4, <3>1, <3>2, <3>4, Zenon DEF ackInTx, EndTx
      <4> QED
        BY <2>1, <4>1, Zenon
    <3> QED
      BY <3>3, <3>4, Zenon
  <2>3. ASSUME row[c] # "expired", ~\E p \in Procs : ackInTx(p) PROVE FALSE
    <3>1. row'[c] # row[c]
      BY <1>4, <2>3, Zenon
    <3>2. ASSUME NEW p \in Procs, commitEnqueue(p) PROVE FALSE
      <4>1. tx[p].cmd \in Commands
        BY <3>2, TxShape, Zenon DEF commitEnqueue, Enqueueing, EnqueueTx
      <4> QED
        BY <1>4, <3>1, <3>2, <4>1, Zenon DEF commitEnqueue
    <3>3. ASSUME NEW d, NEW n, Dequeue(d, n) PROVE FALSE
      BY <1>4, <3>1, <3>3, Zenon DEF Dequeue
    <3>4. ASSUME NEW o \in Commands, Report(o) PROVE FALSE
      BY <1>4, <3>1, <3>4, Zenon DEF Report
    <3> QED
      BY <2>3, <3>1, <3>2, <3>3, <3>4, Zenon DEF Next, vars, Procs, insertEntry, Cancel, Ack,
          enforcePendingLimit, Rollback, SweepAck, SweepTick, Tick
  <2> QED
    BY <2>1, <2>2, <2>3, Zenon
<1> QED
  BY <1>2, <1>3, <1>4, Zenon DEF SweepIsRight, ExpiredPastDeadline

(* ------------------------------- Theorems ---------------------------------- *)

\* The inductive invariant holds in every reachable state.
THEOREM QueueInvariant == Spec => []IInv
BY InitIInv, NextIInv, PTL DEF Spec

\* For any number of racing Enqueue calls the quota is a hard limit: the advisory
\* lock makes the count good until the commit.
THEOREM QueueKeepsQuota == Spec => []PendingCap
<1>1. IInv => PendingCap
  BY Zenon DEF IInv
<1>2. QED
  BY QueueInvariant, <1>1, PTL

\* At most one active command per idempotency key, for any commands and keys.
THEOREM QueueKeepsKeysUnique == Spec => []OneActivePerKey
<1>1. IInv => OneActivePerKey
  BY Zenon DEF IInv
<1>2. QED
  BY QueueInvariant, <1>1, PTL

\* However Acks, Cancels and timeouts race, every success answer stays true.
THEOREM QueueHasOneOutcome == Spec => []OneOutcome
<1>1. IInv => OneOutcome
  BY Zenon DEF IInv
<1>2. QED
  BY QueueInvariant, <1>1, PTL

\* A command is expired only when some deadline that checkExpiry looks at has passed: the
\* snapshot the sweeper acts on may be stale, but what it found overdue stays overdue,
\* although Dequeue, in between, gives the command another deadline.
THEOREM QueueExpiresNothingEarly == Spec => []ExpiredPastDeadline
<1>1. Init => Dated /\ SweepIsRight
  BY DEF Init, Dated, SweepIsRight, ExpiredPastDeadline, Selected, Idle
<1>2. IInv /\ Dated /\ SweepIsRight /\ [Next]_vars => Dated' /\ SweepIsRight'
  BY NextTimes, NextSweep, Zenon
<1>3. SweepIsRight => ExpiredPastDeadline
  BY Zenon DEF SweepIsRight
<1> QED
  BY QueueInvariant, <1>1, <1>2, <1>3, PTL DEF Spec
=============================================================================
