----------------------------- MODULE SagaProofs -----------------------------
(* For any sagas, coordinators, definitions, deployments and mishaps: the log  *)
(* of a saga reads as one run and replays its status, rollbacks are declared   *)
(* and complete, Run and Compensate are invoked no more often than mishaps     *)
(* account for, and the coordinators implement SagaPromise.                    *)
EXTENDS Saga, TLAPS

Kinds == StepKinds \cup {"CompensationStarted"} \cup Terminal
Events == [kind : Kinds, step : Nat]
Statuses == {"absent"} \cup Open \cup Terminal
Places == {"idle", "lead", "begin", "mark", "preflight", "run", "commit", "failed",
           "rollback", "walk", "record"}
Drives == [at : Places, was : Statuses, seen : Nat, attempt : 0 .. MaxAttempts, want : Statuses,
           todo : SUBSET Nat, step : Nat, bad : BOOLEAN, ok : BOOLEAN]

SagaTypeOK ==
    /\ status \in [Instances -> Statuses]
    /\ log \in [Instances -> Seq(Events)]
    /\ lease \in [Instances -> Coordinators \cup {Nobody}]
    /\ live \in [Instances -> BOOLEAN]
    /\ drive \in [Coordinators -> [Instances -> Drives]]
    /\ known \in [Coordinators -> BOOLEAN]
    /\ deploy \in Deployments
    /\ mishaps \in [Instances -> Nat]
    /\ ran \in [Instances -> [Steps -> Nat]]
    /\ undos \in [Instances -> [Steps -> Nat]]
    /\ undone \in [Instances -> SUBSET Steps]

----------------------------------------------------------------------------
(* The inductive invariant, over the values of one instance: its status st,    *)
(* its log l, its undone steps u and a drive d of it; r says that the          *)
(* definition may be removed.                                                  *)

Started(l) == \E n \in DOMAIN l : l[n].kind = "CompensationStarted"

\* The conjuncts of LogIsOneRun.
OneRun(l) ==
    /\ \A n \in DOMAIN l : l[n].kind = "StepCompleted" => l[n].step = n
    /\ \A m, n \in DOMAIN l : m < n =>
        /\ l[m].kind \notin Terminal
        /\ l[n].kind \in Forward => l[m].kind = "StepCompleted"
        /\ l[m].kind \in Backward /\ l[n].kind \in Backward => l[m].step # l[n].step
        /\ l[n].kind = "CompensationStarted" => l[m].kind = "StepCompleted"
    /\ \A n \in DOMAIN l : l[n].kind \in Backward =>
        l[n].step \in Compensable \cap StepsOf(l, "StepCompleted")

NothingToUndo(l) == PositionsOf(l, "StepCompleted") = {} \/ Compensable = {}

\* The completed steps are the beginning of the log; a compensation outcome is behind
\* the start of a rollback, and a failed step is on the log of a saga without one.
LogOK(l) ==
    /\ OneRun(l)
    /\ cursor(l) \in 0 .. NSteps
    /\ PositionsOf(l, "StepCompleted") = 1 .. cursor(l)
    /\ \A n \in DOMAIN l : l[n].kind \in Backward => Started(l)
    /\ FoldFails(l) => NothingToUndo(l)

\* Every committed step that can be undone is in u, or waits at a position of todo.
Covered(l, u, todo) ==
    \A n \in PositionsOf(l, "StepCompleted") :
        l[n].step \in Compensable => l[n].step \in u \/ n \in todo

StatusOK(st, l, u, r) ==
    /\ st = "absent" => l = <<>>
    /\ st # "absent" => st = Folded(l)
    /\ \A n \in DOMAIN l : l[n].kind = "StepCompensated" => l[n].step \in u
    /\ st = "succeeded" => cursor(l) = NSteps /\ ~Started(l)
    /\ st = "failed" => r \/ NothingToUndo(l)
    /\ st = "compensated" => Covered(l, u, {})

\* What holds of a drive whether or not its lease is still current.
DriveOK(d, l, u, r) ==
    /\ d.seen <= Len(l)
    /\ d.at \in {"lead", "begin", "preflight"} => d.attempt = 0
    /\ d.was = "compensating" => Started(l)
    /\ d.at \in {"preflight", "run", "commit", "failed"} => cursor(SubSeq(l, 1, d.seen)) < NSteps
    /\ d.at = "mark" =>
        /\ d.want \in Terminal
        /\ d.want = "succeeded" => cursor(l) = NSteps
        /\ d.want = "failed" => r \/ FoldFails(l)
        /\ d.want = "compensated" => Started(l) /\ Covered(l, u, {})
    /\ d.at \in {"rollback", "walk", "record"} => Started(l)
    /\ d.at = "rollback" => PositionsOf(l, "StepCompleted") \subseteq 1 .. d.seen
    /\ d.todo \subseteq PositionsOf(l, "StepCompleted")
    /\ d.at \in {"walk", "record"} /\ ~d.bad => Covered(l, u, d.todo)
    /\ d.at = "record" =>
        /\ d.step \in Compensable \cap StepsOf(l, "StepCompleted")
        /\ d.ok => d.step \in u
        /\ ~d.ok => d.bad

\* What holds of the drive that has the lease: nobody else has written since its claim.
HolderOK(d, st, l) ==
    /\ d.at # "idle" => st \in Open
    /\ d.at \in {"lead", "begin"} => d.was = st
    /\ d.at \in {"preflight", "run", "commit", "failed"} =>
        st \in {"pending", "running"} /\ d.seen = Len(l) /\ ~FoldFails(l)
    /\ d.at \in {"rollback", "walk", "record"} => st = "compensating"
    /\ d.at = "rollback" => \A n \in DOMAIN l : l[n].kind \in Backward => n <= d.seen
    /\ d.at \in {"walk", "record"} => \A n \in d.todo : l[n].step \notin settled(l)
    /\ d.at = "record" => d.step \notin settled(l) /\ \A n \in d.todo : l[n].step # d.step

SagaInv ==
    /\ SagaTypeOK
    /\ \A c \in Coordinators : ~known[c] => deploy.removable
    /\ \A i \in Instances :
        /\ LogOK(log[i])
        /\ StatusOK(status[i], log[i], undone[i], deploy.removable)
        /\ \A s \in Steps : undos[i][s] > 0 => Started(log[i])
    /\ \A c \in Coordinators, i \in Instances :
        /\ DriveOK(drive[c][i], log[i], undone[i], deploy.removable)
        /\ lease[i] = c => HolderOK(drive[c][i], status[i], log[i])

----------------------------------------------------------------------------
(* Logs.                                                                       *)

\* The positions of a log and what is at them.
LEMMA Positions ==
    ASSUME NEW l \in Seq(Events)
    PROVE  /\ DOMAIN l = 1 .. Len(l) /\ Len(l) \in Nat
           /\ \A n \in DOMAIN l : l[n] \in Events /\ l[n].kind \in Kinds /\ l[n].step \in Nat
<1>1. DOMAIN l = 1 .. Len(l) /\ Len(l) \in Nat /\ \A n \in DOMAIN l : l[n] \in Events
  OBVIOUS
<1>2. \A e \in Events : e.kind \in Kinds /\ e.step \in Nat
  BY Zenon DEF Events
<1> QED
  BY <1>1, <1>2, Zenon

\* An event is put at the end, and the others stay where they are.
LEMMA Appended ==
    ASSUME NEW l \in Seq(Events), NEW e \in Events
    PROVE  /\ Append(l, e) \in Seq(Events)
           /\ Len(Append(l, e)) = Len(l) + 1
           /\ DOMAIN Append(l, e) = 1 .. Len(l) + 1
           /\ \A n \in 1 .. Len(l) : Append(l, e)[n] = l[n]
           /\ Append(l, e)[Len(l) + 1] = e
  OBVIOUS

\* What an event e more makes of the log l: the old events are where they were, and e is new.
Grown(a, l, e) ==
    /\ DOMAIN l \subseteq DOMAIN a /\ \A n \in DOMAIN l : a[n] = l[n]
    /\ \E n \in DOMAIN a : a[n] = e
    /\ \A n \in DOMAIN a : n \in DOMAIN l \/ a[n] = e

\* What AppendEvent makes of a log.
LEMMA Longer ==
    ASSUME NEW l \in Seq(Events), NEW e \in Events
    PROVE  Grown(Append(l, e), l, e)
<1> DEFINE a == Append(l, e)
           k == Len(l)
<1>1. /\ k \in Nat /\ DOMAIN l = 1 .. k /\ DOMAIN a = 1 .. k + 1
      /\ \A n \in 1 .. k : a[n] = l[n]
      /\ a[k + 1] = e
  BY Appended, Positions, Zenon
<1> HIDE DEF a, k
<1>2. /\ 1 .. k \subseteq 1 .. k + 1 /\ k + 1 \in 1 .. k + 1
      /\ \A n \in 1 .. k + 1 : n \notin 1 .. k => n = k + 1
  BY <1>1
<1>3. \A n \in DOMAIN a : n \in DOMAIN l \/ a[n] = e
  BY <1>1, <1>2, Zenon
<1>4. Grown(a, l, e)
  BY <1>1, <1>2, <1>3, Zenon DEF Grown
<1> QED
  BY <1>4, Zenon DEF a

\* A number up to the bound of an interval is in it.
LEMMA Initial ==
    ASSUME NEW k \in Nat, NEW m \in Nat, m <= k
    PROVE  /\ m \in 0 .. k /\ 1 .. m \subseteq 1 .. k /\ 1 .. m \subseteq Nat
           /\ \A n \in 1 .. k : n <= m => n \in 1 .. m
  OBVIOUS

\* An event at the end changes nothing of a prefix.
LEMMA Prefix ==
    ASSUME NEW l \in Seq(Events), NEW k \in 0 .. Len(l)
    PROVE  /\ SubSeq(l, 1, k) \in Seq(Events)
           /\ Len(SubSeq(l, 1, k)) = k
           /\ DOMAIN SubSeq(l, 1, k) = 1 .. k
           /\ \A n \in 1 .. k : SubSeq(l, 1, k)[n] = l[n]
           /\ SubSeq(l, 1, Len(l)) = l
           /\ \A e \in Events : SubSeq(Append(l, e), 1, k) = SubSeq(l, 1, k)
  OBVIOUS

\* What the library has on the size of an interval: a hypothesis of the lemmas that count,
\* which the last section discharges.
Counting == \A k \in Nat : Cardinality(1 .. k) = k

\* foldEvents counts what is completed, and an event of another kind does not count.
LEMMA CursorStays ==
    ASSUME NEW l \in Seq(Events), NEW e \in Events, e.kind # "StepCompleted"
    PROVE  /\ PositionsOf(Append(l, e), "StepCompleted") = PositionsOf(l, "StepCompleted")
           /\ cursor(Append(l, e)) = cursor(l)
<1>1. PositionsOf(Append(l, e), "StepCompleted") = PositionsOf(l, "StepCompleted")
  BY Appended, Positions DEF PositionsOf
<1> QED
  BY <1>1, Zenon DEF cursor

\* While nothing has failed or been undone, a completed step moves the cursor by one.
LEMMA CursorMoves ==
    ASSUME Counting, NEW l \in Seq(Events), NEW e \in Events, e.kind = "StepCompleted",
           \A n \in DOMAIN l : l[n].kind = "StepCompleted"
    PROVE  /\ PositionsOf(l, "StepCompleted") = 1 .. Len(l) /\ cursor(l) = Len(l)
           /\ PositionsOf(Append(l, e), "StepCompleted") = 1 .. Len(l) + 1
           /\ cursor(Append(l, e)) = Len(l) + 1
<1>1. PositionsOf(l, "StepCompleted") = 1 .. Len(l)
  BY Positions, Zenon DEF PositionsOf
<1>2. PositionsOf(Append(l, e), "StepCompleted") = 1 .. Len(l) + 1
  BY Appended, Positions DEF PositionsOf
<1> QED
  BY <1>1, <1>2, Positions DEF Counting, cursor

\* The status a log replays to.
LEMMA FoldedIs ==
    ASSUME NEW l \in Seq(Events)
    PROVE  /\ l = <<>> => Folded(l) = "pending"
           /\ l # <<>> /\ l[Len(l)].kind \in Terminal => Folded(l) = l[Len(l)].kind
           /\ l # <<>> /\ l[Len(l)].kind \notin Terminal =>
                Folded(l) = IF Started(l) THEN "compensating" ELSE "running"
<1>1. "CompensationStarted" \in KindsOf(l) <=> Started(l)
  BY Zenon DEF KindsOf, Started
<1> QED
  BY <1>1, Zenon DEF Folded

\* No terminal event is on the log of an open saga, and its phase can be read off it.
LEMMA OpenLog ==
    ASSUME NEW l \in Seq(Events), LogOK(l), Folded(l) \in Open
    PROVE  /\ \A n \in DOMAIN l : l[n].kind \notin Terminal
           /\ Folded(l) = "compensating" <=> Started(l)
<1>1. ASSUME NEW n \in DOMAIN l PROVE l[n].kind \notin Terminal
  <2>1. CASE n < Len(l)
    BY <2>1, Positions DEF LogOK, OneRun
  <2>2. CASE n = Len(l)
    <3>1. l # <<>>
      BY <1>1, Positions
    <3> QED
      BY <2>2, <3>1, FoldedIs, Zenon DEF Open, Terminal
  <2> QED
    BY <2>1, <2>2, Positions
<1>2. CASE l = <<>>
  <2>1. Len(l) = 0
    BY <1>2, Zenon
  <2>2. ~Started(l)
    BY <2>1, Positions DEF Started
  <2> QED
    BY <1>1, <1>2, <2>2, FoldedIs, Zenon
<1>3. CASE l # <<>>
  <2>1. Len(l) \in DOMAIN l
    BY <1>3
  <2> QED
    BY <1>1, <1>3, <2>1, FoldedIs, Zenon
<1> QED
  BY <1>2, <1>3, Zenon

\* Before a failure or a rollback there are only completed steps.
LEMMA ForwardLog ==
    ASSUME NEW l \in Seq(Events), LogOK(l), Folded(l) \in {"pending", "running"}, ~FoldFails(l)
    PROVE  \A n \in DOMAIN l : l[n].kind = "StepCompleted"
<1> SUFFICES ASSUME NEW n \in DOMAIN l PROVE l[n].kind = "StepCompleted"
  OBVIOUS
<1>1. l[n].kind \notin Terminal /\ ~Started(l)
  BY OpenLog, Zenon DEF Open
<1>2. l[n].kind \notin Backward /\ l[n].kind # "CompensationStarted"
  BY <1>1, Zenon DEF LogOK, Started
<1>3. l[n].kind # "StepFailed"
  BY Zenon DEF FoldFails, KindsOf
<1> QED
  BY <1>1, <1>2, <1>3, Positions, Zenon DEF Kinds, StepKinds, Backward

\* What an event must meet for a log that is one run to stay one.
LEMMA OneRunAdds ==
    ASSUME NEW l \in Seq(Events), NEW e \in Events, OneRun(l),
           e.kind = "StepCompleted" => e.step = Len(l) + 1,
           \A m \in DOMAIN l :
                /\ l[m].kind \notin Terminal
                /\ e.kind \in Forward \cup {"CompensationStarted"} => l[m].kind = "StepCompleted"
                /\ l[m].kind \in Backward /\ e.kind \in Backward => l[m].step # e.step,
           e.kind \in Backward => e.step \in Compensable \cap StepsOf(l, "StepCompleted")
    PROVE  OneRun(Append(l, e))
<1> DEFINE a == Append(l, e)
<1>0. /\ a \in Seq(Events) /\ DOMAIN a = 1 .. Len(l) + 1 /\ DOMAIN l = 1 .. Len(l) /\ Len(l) \in Nat
      /\ \A n \in 1 .. Len(l) : a[n] = l[n]
      /\ a[Len(l) + 1] = e
  BY Appended, Positions, Zenon
<1> HIDE DEF a
<1>1. \A n \in DOMAIN a : a[n].kind = "StepCompleted" => a[n].step = n
  BY <1>0 DEF OneRun
<1>2. ASSUME NEW m \in DOMAIN a, NEW n \in DOMAIN a, m < n
      PROVE  /\ a[m].kind \notin Terminal
             /\ a[n].kind \in Forward => a[m].kind = "StepCompleted"
             /\ a[m].kind \in Backward /\ a[n].kind \in Backward => a[m].step # a[n].step
             /\ a[n].kind = "CompensationStarted" => a[m].kind = "StepCompleted"
  <2>1. m \in DOMAIN l /\ a[m] = l[m]
    BY <1>0, <1>2
  <2>2. CASE n \in DOMAIN l
    BY <1>0, <1>2, <2>1, <2>2 DEF OneRun
  <2>3. CASE n = Len(l) + 1
    BY <1>0, <2>1, <2>3, Zenon
  <2> QED
    BY <1>0, <2>2, <2>3
<1>3. StepsOf(l, "StepCompleted") \subseteq StepsOf(a, "StepCompleted")
  BY <1>0 DEF StepsOf, PositionsOf
<1>4. \A n \in DOMAIN a : a[n].kind \in Backward =>
          a[n].step \in Compensable \cap StepsOf(a, "StepCompleted")
  BY <1>0, <1>3 DEF OneRun
<1>5. OneRun(a)
  BY <1>1, <1>2, <1>4, Zenon DEF OneRun
<1> QED
  BY <1>5, Zenon DEF a

\* Whether a log has the start of a rollback or a failure, with an event more.
LEMMA StartedStays ==
    ASSUME NEW l \in Seq(Events), NEW e \in Events
    PROVE  /\ Started(Append(l, e)) <=> Started(l) \/ e.kind = "CompensationStarted"
           /\ FoldFails(Append(l, e)) <=> FoldFails(l) \/ e.kind = "StepFailed"
<1> DEFINE a == Append(l, e)
<1>1. Grown(a, l, e)
  BY Longer, Zenon
<1> HIDE DEF a
<1>2. ASSUME NEW k PROVE (\E n \in DOMAIN a : a[n].kind = k) <=> (\E n \in DOMAIN l : l[n].kind = k) \/ e.kind = k
  <2>1. ASSUME NEW n \in DOMAIN a, a[n].kind = k PROVE (\E m \in DOMAIN l : l[m].kind = k) \/ e.kind = k
    BY <1>1, <2>1, Zenon DEF Grown
  <2>2. ASSUME NEW n \in DOMAIN l, l[n].kind = k PROVE \E m \in DOMAIN a : a[m].kind = k
    BY <1>1, <2>2, Zenon DEF Grown
  <2>3. ASSUME e.kind = k PROVE \E m \in DOMAIN a : a[m].kind = k
    BY <1>1, <2>3, Zenon DEF Grown
  <2> QED
    BY <2>1, <2>2, <2>3, Zenon
<1>3. Started(a) <=> Started(l) \/ e.kind = "CompensationStarted"
  BY <1>2, Zenon DEF Started
<1>4. FoldFails(a) <=> FoldFails(l) \/ e.kind = "StepFailed"
  BY <1>2, Zenon DEF FoldFails, KindsOf
<1> QED
  BY <1>3, <1>4, Zenon DEF a

\* A step is completed.
LEMMA LogAddsCompleted ==
    ASSUME Counting, NEW l \in Seq(Events), LogOK(l), \A n \in DOMAIN l : l[n].kind = "StepCompleted",
           Len(l) < NSteps, NEW e \in Events, e.kind = "StepCompleted", e.step = Len(l) + 1
    PROVE  LogOK(Append(l, e))
<1>1. OneRun(Append(l, e))
  BY OneRunAdds, Zenon DEF LogOK, Terminal, Backward
<1>2. /\ cursor(Append(l, e)) = Len(l) + 1 /\ cursor(Append(l, e)) \in 0 .. NSteps
      /\ PositionsOf(Append(l, e), "StepCompleted") = 1 .. cursor(Append(l, e))
  BY CursorMoves, Positions, JournalAssumption
<1>3. \A n \in DOMAIN Append(l, e) : Append(l, e)[n].kind = "StepCompleted"
  <2> DEFINE a == Append(l, e)
  <2>1. Grown(a, l, e)
    BY Longer, Zenon
  <2> HIDE DEF a
  <2>2. \A n \in DOMAIN a : a[n].kind = "StepCompleted"
    BY <2>1, Zenon DEF Grown
  <2> QED
    BY <2>2, Zenon DEF a
<1> QED
  BY <1>1, <1>2, <1>3, Zenon DEF LogOK, Backward, FoldFails, KindsOf

\* A step has failed for good, and there is nothing to undo.
LEMMA LogAddsFailed ==
    ASSUME NEW l \in Seq(Events), LogOK(l), \A n \in DOMAIN l : l[n].kind = "StepCompleted",
           NothingToUndo(l), NEW e \in Events, e.kind = "StepFailed"
    PROVE  LogOK(Append(l, e))
<1>1. OneRun(Append(l, e))
  BY OneRunAdds, Zenon DEF LogOK, Terminal, Backward
<1>2. \A n \in DOMAIN Append(l, e) : Append(l, e)[n].kind \notin Backward
  <2> DEFINE a == Append(l, e)
  <2>1. Grown(a, l, e)
    BY Longer, Zenon
  <2> HIDE DEF a
  <2>2. \A n \in DOMAIN a : a[n].kind \notin Backward
    BY <2>1, Zenon DEF Grown, Backward
  <2> QED
    BY <2>2, Zenon DEF a
<1> QED
  BY <1>1, <1>2, CursorStays, Zenon DEF LogOK, NothingToUndo

\* A rollback starts.
LEMMA LogAddsStart ==
    ASSUME NEW l \in Seq(Events), LogOK(l), \A n \in DOMAIN l : l[n].kind = "StepCompleted",
           NEW e \in Events, e.kind = "CompensationStarted"
    PROVE  LogOK(Append(l, e))
<1>1. OneRun(Append(l, e))
  BY OneRunAdds, Zenon DEF LogOK, Terminal, Backward, Forward
<1>2. Started(Append(l, e)) /\ ~FoldFails(Append(l, e))
  BY StartedStays, Zenon DEF FoldFails, KindsOf
<1> QED
  BY <1>1, <1>2, CursorStays, Zenon DEF LogOK

\* A compensation has an outcome.
LEMMA LogAddsOutcome ==
    ASSUME NEW l \in Seq(Events), LogOK(l), \A n \in DOMAIN l : l[n].kind \notin Terminal, Started(l),
           NEW e \in Events, e.kind \in Backward, e.step \notin settled(l),
           e.step \in Compensable \cap StepsOf(l, "StepCompleted")
    PROVE  LogOK(Append(l, e))
<1>1. \A m \in DOMAIN l : l[m].kind \in Backward => l[m].step # e.step
  BY Zenon DEF settled, StepsOf, PositionsOf, Backward
<1>2. OneRun(Append(l, e))
  BY <1>1, OneRunAdds, Zenon DEF LogOK, Backward, Forward
<1>3. Started(Append(l, e)) /\ (FoldFails(Append(l, e)) <=> FoldFails(l))
  BY StartedStays, Zenon DEF Backward
<1> QED
  BY <1>2, <1>3, CursorStays, Zenon DEF LogOK, NothingToUndo, Backward

\* The saga is closed.
LEMMA LogAddsEnd ==
    ASSUME NEW l \in Seq(Events), LogOK(l), \A n \in DOMAIN l : l[n].kind \notin Terminal,
           NEW e \in Events, e.kind \in Terminal
    PROVE  LogOK(Append(l, e))
<1>0. e.kind \notin Forward \cup Backward \cup {"CompensationStarted"}
  BY Zenon DEF Terminal, Forward, Backward
<1>1. OneRun(Append(l, e))
  BY <1>0, OneRunAdds, Zenon DEF LogOK, Forward
<1>2. Started(l) => Started(Append(l, e))
  BY StartedStays, Zenon
<1>3. FoldFails(Append(l, e)) <=> FoldFails(l)
  BY <1>0, StartedStays, Zenon DEF Forward
<1>4. \A n \in DOMAIN Append(l, e) : Append(l, e)[n].kind \in Backward => Started(Append(l, e))
  <2> DEFINE a == Append(l, e)
  <2>1. Grown(a, l, e) /\ (Started(l) => Started(a))
    BY <1>2, Longer, Zenon
  <2> HIDE DEF a
  <2>2. \A n \in DOMAIN a : a[n].kind \in Backward => Started(a)
    BY <1>0, <2>1, Zenon DEF Grown, LogOK
  <2> QED
    BY <2>2, Zenon DEF a
<1> QED
  BY <1>0, <1>1, <1>3, <1>4, CursorStays, Zenon DEF LogOK, NothingToUndo, Forward

----------------------------------------------------------------------------
(* Drives.                                                                     *)

\* What a drive has of its own log stays true as the log grows: a step is completed
\* only while there is no rollback and a step to complete.
LEMMA DriveGrows ==
    ASSUME NEW l \in Seq(Events), NEW e \in Events, NEW d \in Drives, NEW u, NEW r,
           DriveOK(d, l, u, r),
           e.kind = "StepCompleted" => ~Started(l) /\ cursor(l) # NSteps
    PROVE  DriveOK(d, Append(l, e), u, r)
<1> DEFINE a == Append(l, e)
<1>0. /\ a \in Seq(Events) /\ DOMAIN a = 1 .. Len(l) + 1 /\ DOMAIN l = 1 .. Len(l) /\ Len(l) \in Nat
      /\ Len(a) = Len(l) + 1 /\ \A n \in 1 .. Len(l) : a[n] = l[n]
  BY Appended, Positions, Zenon
<1>1. /\ Started(l) => Started(a) /\ PositionsOf(a, "StepCompleted") = PositionsOf(l, "StepCompleted")
      /\ FoldFails(l) => FoldFails(a)
      /\ cursor(l) = NSteps => cursor(a) = NSteps
  BY StartedStays, CursorStays, Zenon
<1>2. /\ PositionsOf(l, "StepCompleted") \subseteq PositionsOf(a, "StepCompleted")
      /\ StepsOf(l, "StepCompleted") \subseteq StepsOf(a, "StepCompleted")
  BY <1>0 DEF StepsOf, PositionsOf
<1>3. d.seen \in 0 .. Len(l) /\ SubSeq(a, 1, d.seen) = SubSeq(l, 1, d.seen)
  BY <1>0, Prefix DEF DriveOK, Drives
<1>4. ASSUME NEW T, Started(l), Covered(l, u, T) PROVE Covered(a, u, T)
  BY <1>0, <1>1, <1>4, Zenon DEF Covered, PositionsOf
<1> HIDE DEF a
<1>5. DriveOK(d, a, u, r)
  <2>1. d.seen <= Len(a)
    BY <1>0, <1>3
  <2>2. d.at = "mark" =>
        /\ d.want \in Terminal
        /\ d.want = "succeeded" => cursor(a) = NSteps
        /\ d.want = "failed" => r \/ FoldFails(a)
        /\ d.want = "compensated" => Started(a) /\ Covered(a, u, {})
    BY <1>1, <1>4, Zenon DEF DriveOK
  <2>3. d.at \in {"walk", "record"} /\ ~d.bad => Covered(a, u, d.todo)
    BY <1>4, Zenon DEF DriveOK
  <2>4. d.at = "rollback" => PositionsOf(a, "StepCompleted") \subseteq 1 .. d.seen
    BY <1>1, Zenon DEF DriveOK
  <2> QED
    BY <1>1, <1>2, <1>3, <2>1, <2>2, <2>3, <2>4, Zenon DEF DriveOK
<1> QED
  BY <1>5, Zenon DEF a

\* What holds of a drive still holds when more is undone.
LEMMA DriveUndoes ==
    ASSUME NEW l, NEW d, NEW u, NEW r, NEW v, u \subseteq v, DriveOK(d, l, u, r)
    PROVE  DriveOK(d, l, v, r)
<1>1. \A T : Covered(l, u, T) => Covered(l, v, T)
  BY Zenon DEF Covered
<1> QED
  BY <1>1, Zenon DEF DriveOK

\* And so does what holds of a status.
LEMMA StatusUndoes ==
    ASSUME NEW l, NEW st, NEW u, NEW r, NEW v, u \subseteq v, StatusOK(st, l, u, r)
    PROVE  StatusOK(st, l, v, r)
<1>1. Covered(l, u, {}) => Covered(l, v, {})
  BY Zenon DEF Covered
<1> QED
  BY <1>1, Zenon DEF StatusOK

\* Nothing is asked of an idle drive.
LEMMA IdleDrive ==
    ASSUME NEW l \in Seq(Events), NEW u, NEW r, NEW st
    PROVE  Idle \in Drives /\ DriveOK(Idle, l, u, r) /\ HolderOK(Idle, st, l)
<1>1. Idle \in Drives
  BY SagaAssumption DEF Idle, Drives, Places, Statuses
<1> QED
  BY <1>1, Positions DEF Idle, DriveOK, HolderOK

\* The invariant, read off for one instance.
LEMMA LogTyped ==
    ASSUME SagaInv, NEW i \in Instances
    PROVE  /\ log[i] \in Seq(Events) /\ LogOK(log[i]) /\ status[i] \in Statuses
           /\ StatusOK(status[i], log[i], undone[i], deploy.removable)
           /\ \A c \in Coordinators :
                /\ drive[c][i] \in Drives /\ DriveOK(drive[c][i], log[i], undone[i], deploy.removable)
                /\ lease[i] = c => HolderOK(drive[c][i], status[i], log[i])
  BY Zenon DEF SagaInv, SagaTypeOK

\* A step of a drive that writes nothing to the journal.
LEMMA QuietKeeps ==
    ASSUME SagaInv, NEW c \in Coordinators, NEW i \in Instances, NEW d \in Drives,
           drive' = [drive EXCEPT ![c][i] = d],
           UNCHANGED <<journalVars, known, deploy>>,
           mishaps' \in [Instances -> Nat],
           ran' \in [Instances -> [Steps -> Nat]],
           undos' \in [Instances -> [Steps -> Nat]],
           \A j \in Instances, s \in Steps : undos'[j][s] > 0 => Started(log[j]),
           undone' \in [Instances -> SUBSET Steps],
           \A j \in Instances : undone[j] \subseteq undone'[j],
           DriveOK(d, log[i], undone'[i], deploy.removable),
           lease[i] = c => HolderOK(d, status[i], log[i])
    PROVE  SagaInv'
<1> USE DEF journalVars
<1>1. SagaTypeOK'
  BY Zenon DEF SagaInv, SagaTypeOK
<1>2. (\A b \in Coordinators : ~known[b] => deploy.removable)'
  BY Zenon DEF SagaInv
<1>3. ASSUME NEW j \in Instances
      PROVE  /\ LogOK(log[j])' /\ StatusOK(status[j], log[j], undone[j], deploy.removable)'
             /\ (\A s \in Steps : undos[j][s] > 0 => Started(log[j]))'
  <2>1. StatusOK(status[j], log[j], undone'[j], deploy.removable)
    BY LogTyped, StatusUndoes, Zenon
  <2> QED
    BY <2>1, LogTyped, Zenon
<1>4. ASSUME NEW b \in Coordinators, NEW j \in Instances
      PROVE  /\ DriveOK(drive[b][j], log[j], undone[j], deploy.removable)'
             /\ (lease[j] = b => HolderOK(drive[b][j], status[j], log[j]))'
  <2>1. CASE b = c /\ j = i
    <3>1. drive'[b][j] = d
      BY <2>1, Zenon DEF SagaInv, SagaTypeOK
    <3> QED
      BY <2>1, <3>1, Zenon
  <2>2. CASE ~(b = c /\ j = i)
    <3>1. drive'[b][j] = drive[b][j]
      BY <2>2, Zenon DEF SagaInv, SagaTypeOK
    <3>2. DriveOK(drive[b][j], log[j], undone'[j], deploy.removable)
      BY LogTyped, DriveUndoes, Zenon
    <3> QED
      BY <3>1, <3>2, LogTyped, Zenon
  <2> QED
    BY <2>1, <2>2, Zenon
<1> QED
  BY <1>1, <1>2, <1>3, <1>4, Zenon DEF SagaInv

\* A step of a drive that writes to the journal, behind its lease.
LEMMA JournalKeeps ==
    ASSUME SagaInv, NEW c \in Coordinators, NEW i \in Instances, NEW d \in Drives,
           NEW st \in Statuses, NEW l \in Seq(Events),
           drive' = [drive EXCEPT ![c][i] = d],
           status' = [status EXCEPT ![i] = st],
           log' = [log EXCEPT ![i] = l],
           lease[i] = c,
           lease' \in {lease, [lease EXCEPT ![i] = Nobody]},
           live' \in [Instances -> BOOLEAN],
           UNCHANGED <<known, deploy, mishaps, runVars>>,
           LogOK(l), StatusOK(st, l, undone[i], deploy.removable),
           Started(log[i]) => Started(l),
           \A b \in Coordinators : b # c => DriveOK(drive[b][i], l, undone[i], deploy.removable),
           DriveOK(d, l, undone[i], deploy.removable),
           HolderOK(d, st, l)
    PROVE  SagaInv'
<1> USE DEF runVars
<1>1. SagaTypeOK'
  BY Zenon DEF SagaInv, SagaTypeOK
<1>2. (\A b \in Coordinators : ~known[b] => deploy.removable)'
  BY Zenon DEF SagaInv
<1>3. ASSUME NEW j \in Instances
      PROVE  /\ LogOK(log[j])' /\ StatusOK(status[j], log[j], undone[j], deploy.removable)'
             /\ (\A s \in Steps : undos[j][s] > 0 => Started(log[j]))'
  <2>1. CASE j = i
    <3>1. log'[j] = l /\ status'[j] = st
      BY <2>1, Zenon DEF SagaInv, SagaTypeOK
    <3>2. \A s \in Steps : undos[j][s] > 0 => Started(l)
      BY <2>1, Zenon DEF SagaInv
    <3> QED
      BY <2>1, <3>1, <3>2, Zenon
  <2>2. CASE j # i
    <3>1. log'[j] = log[j] /\ status'[j] = status[j]
      BY <2>2, Zenon DEF SagaInv, SagaTypeOK
    <3> QED
      BY <3>1, Zenon DEF SagaInv
  <2> QED
    BY <2>1, <2>2, Zenon
<1>4. ASSUME NEW b \in Coordinators, NEW j \in Instances
      PROVE  /\ DriveOK(drive[b][j], log[j], undone[j], deploy.removable)'
             /\ (lease[j] = b => HolderOK(drive[b][j], status[j], log[j]))'
  <2>1. CASE j # i
    <3>1. /\ log'[j] = log[j] /\ status'[j] = status[j] /\ lease'[j] = lease[j]
          /\ drive'[b][j] = drive[b][j]
      BY <2>1, Zenon DEF SagaInv, SagaTypeOK
    <3> QED
      BY <3>1, LogTyped, Zenon
  <2>2. CASE j = i /\ b # c
    <3>1. log'[j] = l /\ drive'[b][j] = drive[b][j] /\ lease'[j] # b
      BY <2>2, JournalAssumption, Zenon DEF SagaInv, SagaTypeOK
    <3> QED
      BY <2>2, <3>1, Zenon
  <2>3. CASE j = i /\ b = c
    <3>1. log'[j] = l /\ status'[j] = st /\ drive'[b][j] = d
      BY <2>3, Zenon DEF SagaInv, SagaTypeOK
    <3> QED
      BY <2>3, <3>1, Zenon
  <2> QED
    BY <2>1, <2>2, <2>3, Zenon
<1> QED
  BY <1>1, <1>2, <1>3, <1>4, Zenon DEF SagaInv

\* Before Enqueue the log is empty and in order.
LEMMA EmptyLog ==
    ASSUME Counting, NEW l \in Seq(Events), l = <<>>, NEW u, NEW r
    PROVE  LogOK(l) /\ StatusOK("absent", l, u, r)
<1>1. DOMAIN l = {}
  OBVIOUS
<1>2. PositionsOf(l, "StepCompleted") = {} /\ cursor(l) = 0
  <2>1. PositionsOf(l, "StepCompleted") = 1 .. 0
    BY <1>1 DEF PositionsOf
  <2>2. 0 \in Nat /\ 1 .. 0 = {}
    OBVIOUS
  <2>3. Cardinality(1 .. 0) = 0
    BY <2>2, Zenon DEF Counting
  <2> QED
    BY <2>1, <2>2, <2>3, Zenon DEF cursor
<1>3. OneRun(l) /\ \A n \in DOMAIN l : l[n].kind \in Backward => Started(l)
  BY <1>1, Zenon DEF OneRun
<1>4. LogOK(l)
  <2>1. 0 \in 0 .. NSteps /\ 1 .. 0 = {}
    BY JournalAssumption
  <2>2. NothingToUndo(l)
    BY <1>2, Zenon DEF NothingToUndo
  <2> QED
    BY <1>2, <1>3, <2>1, <2>2, Zenon DEF LogOK
<1>5. StatusOK("absent", l, u, r)
  BY <1>1, Zenon DEF StatusOK
<1> QED
  BY <1>4, <1>5, Zenon

\* Before the first saga is enrolled the invariant holds.
LEMMA InitSagaInv == ASSUME Counting, Init PROVE SagaInv
<1> USE DEF Init, JournalInit
<1>0. <<>> \in Seq(Events)
  OBVIOUS
<1>1. Idle \in Drives
  BY <1>0, IdleDrive, Zenon
<1>2. SagaTypeOK
  BY <1>0, <1>1, Zenon DEF SagaTypeOK, Statuses
<1>3. ASSUME NEW i \in Instances
      PROVE  /\ LogOK(log[i]) /\ StatusOK(status[i], log[i], undone[i], deploy.removable)
             /\ \A s \in Steps : undos[i][s] > 0 => Started(log[i])
  <2>1. log[i] \in Seq(Events) /\ log[i] = <<>> /\ status[i] = "absent"
    BY <1>0, Zenon
  <2>2. LogOK(log[i]) /\ StatusOK("absent", log[i], undone[i], deploy.removable)
    BY <2>1, EmptyLog, Zenon
  <2>3. \A s \in Steps : ~(undos[i][s] > 0)
    OBVIOUS
  <2> QED
    BY <2>1, <2>2, <2>3, Zenon
<1>4. ASSUME NEW c \in Coordinators, NEW i \in Instances
      PROVE  /\ DriveOK(drive[c][i], log[i], undone[i], deploy.removable)
             /\ HolderOK(drive[c][i], status[i], log[i])
  <2>1. drive[c][i] = Idle /\ log[i] \in Seq(Events)
    BY <1>0, Zenon
  <2> QED
    BY <2>1, IdleDrive, Zenon
<1>5. \A c \in Coordinators : known[c]
  OBVIOUS
<1> QED
  BY <1>2, <1>3, <1>4, <1>5, Zenon DEF SagaInv

----------------------------------------------------------------------------
(* The steps of a drive that do not write.                                     *)

\* The drive ends.
LEMMA EndKeeps ==
    ASSUME SagaInv, NEW c \in Coordinators, NEW i \in Instances,
           drive' = [drive EXCEPT ![c][i] = Idle],
           UNCHANGED <<journalVars, known, deploy, runVars>>,
           mishaps' \in [Instances -> Nat]
    PROVE  SagaInv'
<1> USE DEF runVars
<1>1. Idle \in Drives /\ DriveOK(Idle, log[i], undone'[i], deploy.removable)
      /\ HolderOK(Idle, status[i], log[i])
  BY LogTyped, IdleDrive, Zenon
<1>2. /\ \A j \in Instances, s \in Steps : undos'[j][s] > 0 => Started(log[j])
      /\ \A j \in Instances : undone[j] \subseteq undone'[j]
      /\ ran' \in [Instances -> [Steps -> Nat]]
      /\ undos' \in [Instances -> [Steps -> Nat]]
      /\ undone' \in [Instances -> SUBSET Steps]
  BY Zenon DEF SagaInv, SagaTypeOK
<1> QED
  BY <1>1, <1>2, QuietKeeps, Zenon

\* The drive goes on with the value d.
LEMMA GoesOn ==
    ASSUME SagaInv, NEW c \in Coordinators, NEW i \in Instances, NEW d \in Drives,
           drive' = [drive EXCEPT ![c][i] = d],
           UNCHANGED <<journalVars, known, deploy, undos, undone>>,
           mishaps' \in [Instances -> Nat],
           ran' \in [Instances -> [Steps -> Nat]],
           DriveOK(d, log[i], undone[i], deploy.removable),
           lease[i] = c => HolderOK(d, status[i], log[i])
    PROVE  SagaInv'
<1>1. /\ \A j \in Instances, s \in Steps : undos'[j][s] > 0 => Started(log[j])
      /\ \A j \in Instances : undone[j] \subseteq undone'[j]
      /\ undos' \in [Instances -> [Steps -> Nat]]
      /\ undone' \in [Instances -> SUBSET Steps]
  BY Zenon DEF SagaInv, SagaTypeOK
<1> QED
  BY <1>1, QuietKeeps, Zenon

\* Mishaps are counted.
LEMMA MishapTyped ==
    ASSUME SagaInv, NEW i \in Instances, Mishap(i)
    PROVE  mishaps' \in [Instances -> Nat]
  BY DEF Mishap, SagaInv, SagaTypeOK

\* A drive may always decide for a terminal status it has the grounds for.
LEMMA MarkOK ==
    ASSUME SagaInv, NEW c \in Coordinators, NEW i \in Instances, NEW w \in Terminal,
           ~At(c, i, "idle"),
           w = "succeeded" => cursor(log[i]) = NSteps,
           w = "failed" => deploy.removable \/ FoldFails(log[i]),
           w = "compensated" => Started(log[i]) /\ Covered(log[i], undone[i], {})
    PROVE  /\ Mark(c, i, w) \in Drives
           /\ DriveOK(Mark(c, i, w), log[i], undone[i], deploy.removable)
           /\ lease[i] = c => HolderOK(Mark(c, i, w), status[i], log[i])
<1> DEFINE old == drive[c][i]
           d == Mark(c, i, w)
<1>0. old \in Drives /\ DriveOK(old, log[i], undone[i], deploy.removable)
      /\ (lease[i] = c => HolderOK(old, status[i], log[i]))
  BY LogTyped, Zenon
<1>1. d \in Drives
  BY <1>0, Zenon DEF Mark, Drives, Places, Statuses
<1>2. /\ d.at = "mark" /\ d.want = w /\ d.was = old.was /\ d.seen = old.seen /\ d.todo = old.todo
      /\ old.at # "idle"
  BY <1>0, Zenon DEF Mark, Drives, At
<1> HIDE DEF d
<1>3. DriveOK(d, log[i], undone[i], deploy.removable)
  BY <1>0, <1>2, Zenon DEF DriveOK
<1>4. lease[i] = c => HolderOK(d, status[i], log[i])
  BY <1>0, <1>2, Zenon DEF HolderOK
<1> QED
  BY <1>1, <1>3, <1>4, Zenon DEF d

\* The leader gate of a drive (acquireLead): lead, or leave the claim alone.
LEMMA AcquireLeadKeeps ==
    ASSUME SagaInv, NEW c \in Coordinators, NEW i \in Instances, acquireLead(c, i)
    PROVE  SagaInv'
<1> USE DEF acquireLead, envVars
<1>0. mishaps' \in [Instances -> Nat] /\ ran' \in [Instances -> [Steps -> Nat]]
  BY Zenon DEF SagaInv, SagaTypeOK, runVars
<1>1. CASE Set(c, i, Idle)
  BY <1>0, <1>1, EndKeeps, Zenon DEF Set
<1>2. CASE Goto(c, i, "begin")
  <2> DEFINE old == drive[c][i]
             d == [drive[c][i] EXCEPT !.at = "begin"]
  <2>0. old \in Drives /\ DriveOK(old, log[i], undone[i], deploy.removable)
        /\ (lease[i] = c => HolderOK(old, status[i], log[i])) /\ old.at = "lead"
    BY LogTyped, Zenon DEF At
  <2>1. d \in Drives /\ d.at = "begin" /\ d.was = old.was /\ d.seen = old.seen /\ d.todo = old.todo
        /\ d.attempt = old.attempt
    BY <2>0, Zenon DEF Drives, Places
  <2>2. drive' = [drive EXCEPT ![c][i] = d]
    BY <1>2, Zenon DEF Goto, Set
  <2> HIDE DEF d
  <2>3. DriveOK(d, log[i], undone[i], deploy.removable)
    BY <2>0, <2>1, Zenon DEF DriveOK
  <2>4. lease[i] = c => HolderOK(d, status[i], log[i])
    BY <2>0, <2>1, Zenon DEF HolderOK
  <2> QED
    BY <1>0, <2>1, <2>2, <2>3, <2>4, GoesOn, Zenon DEF runVars
<1> QED
  BY <1>1, <1>2, Zenon

\* driveOne loads the log and decides where the drive goes.
LEMMA DriveOneKeeps ==
    ASSUME SagaInv, NEW c \in Coordinators, NEW i \in Instances, driveOne(c, i)
    PROVE  SagaInv'
<1> DEFINE old == drive[c][i]
           l == log[i]
           load(place) == [[drive[c][i] EXCEPT !.seen = Len(log[i])] EXCEPT !.at = place]
<1>0. /\ old \in Drives /\ DriveOK(old, l, undone[i], deploy.removable)
      /\ (lease[i] = c => HolderOK(old, status[i], l)) /\ old.at = "begin"
      /\ l \in Seq(Events) /\ LogOK(l) /\ Len(l) \in Nat /\ DOMAIN l = 1 .. Len(l)
  BY LogTyped, Positions, Zenon DEF At, driveOne
<1>1. UNCHANGED <<journalVars, known, deploy, mishaps, ran, undos, undone>>
  BY Zenon DEF driveOne, envVars, runVars
<1>2. mishaps' \in [Instances -> Nat] /\ ran' \in [Instances -> [Steps -> Nat]]
  BY <1>1, Zenon DEF SagaInv, SagaTypeOK
<1>3. ASSUME NEW w \in Terminal, Set(c, i, Mark(c, i, w)),
             w = "succeeded" => cursor(l) = NSteps,
             w = "failed" => deploy.removable \/ FoldFails(l),
             w # "compensated"
      PROVE  SagaInv'
  <2>1. /\ Mark(c, i, w) \in Drives
        /\ DriveOK(Mark(c, i, w), log[i], undone[i], deploy.removable)
        /\ lease[i] = c => HolderOK(Mark(c, i, w), status[i], log[i])
    BY <1>0, <1>3, MarkOK, Zenon DEF At
  <2>2. drive' = [drive EXCEPT ![c][i] = Mark(c, i, w)]
    BY <1>3, Zenon DEF Set
  <2> QED
    BY <1>1, <1>2, <2>1, <2>2, GoesOn, Zenon
<1>4. ASSUME NEW p \in {"rollback", "preflight"}, Set(c, i, load(p)),
             p = "rollback" => old.was = "compensating",
             p = "preflight" => /\ old.was # "compensating" /\ ~FoldFails(l) /\ cursor(l) < NSteps
      PROVE  SagaInv'
  <2> DEFINE d == load(p)
  <2>1. /\ d \in Drives /\ d.at = p /\ d.was = old.was /\ d.seen = Len(l) /\ d.todo = old.todo
        /\ d.attempt = old.attempt
    BY <1>0, Zenon DEF Drives, Places
  <2>2. drive' = [drive EXCEPT ![c][i] = d]
    BY <1>4, Zenon DEF Set
  <2> HIDE DEF d
  <2>3. SubSeq(l, 1, d.seen) = l
    BY <1>0, <2>1, Prefix
  <2>a. PositionsOf(l, "StepCompleted") \subseteq 1 .. d.seen
    BY <1>0, <2>1, Zenon DEF PositionsOf
  <2>4. DriveOK(d, l, undone[i], deploy.removable)
    <3>1. d.seen <= Len(l)
      BY <1>0, <2>1
    <3>2. d.at \in {"preflight", "run", "commit", "failed"} => cursor(SubSeq(l, 1, d.seen)) < NSteps
      BY <1>4, <2>1, <2>3, Zenon
    <3>3. /\ d.at \in {"rollback", "walk", "record"} => Started(l)
          /\ d.was = "compensating" => Started(l)
          /\ d.todo \subseteq PositionsOf(l, "StepCompleted")
      BY <1>0, <1>4, <2>1, Zenon DEF DriveOK
    <3>4. d.at \in {"lead", "begin", "preflight"} => d.attempt = 0
      BY <1>0, <2>1, Zenon DEF DriveOK
    <3>5. d.at \notin {"mark", "walk", "record"}
      BY <2>1, Zenon
    <3> QED
      BY <2>a, <3>1, <3>2, <3>3, <3>4, <3>5, Zenon DEF DriveOK
  <2>5. lease[i] = c => HolderOK(d, status[i], l)
    BY <1>0, <1>4, <2>1 DEF HolderOK, Open
  <2> QED
    BY <1>1, <1>2, <2>1, <2>2, <2>4, <2>5, GoesOn, Zenon
<1>5. ~known[c] => deploy.removable
  BY Zenon DEF SagaInv
<1>6. cursor(l) \in 0 .. NSteps /\ NSteps \in Nat
  BY <1>0, JournalAssumption, Zenon DEF LogOK
<1>7. \/ Set(c, i, Mark(c, i, "failed")) /\ (~known[c] \/ FoldFails(l))
      \/ Set(c, i, Mark(c, i, "expired"))
      \/ Set(c, i, Mark(c, i, "succeeded")) /\ cursor(l) >= NSteps
      \/ Set(c, i, load("rollback")) /\ old.was = "compensating"
      \/ Set(c, i, load("preflight")) /\ old.was # "compensating" /\ ~FoldFails(l) /\ ~(cursor(l) >= NSteps)
  BY Zenon DEF driveOne
<1> HIDE DEF load
<1>8. {"failed", "expired", "succeeded"} \subseteq Terminal
  BY Zenon DEF Terminal
<1>9. CASE Set(c, i, Mark(c, i, "failed")) /\ (~known[c] \/ FoldFails(l))
  BY <1>3, <1>5, <1>8, <1>9, Zenon
<1>10. CASE Set(c, i, Mark(c, i, "expired"))
  BY <1>3, <1>8, <1>10, Zenon
<1>11. CASE Set(c, i, Mark(c, i, "succeeded")) /\ cursor(l) >= NSteps
  <2>1. cursor(l) = NSteps
    BY <1>6, <1>11
  <2> QED
    BY <1>3, <1>8, <1>11, <2>1, Zenon
<1>12. CASE Set(c, i, load("rollback")) /\ old.was = "compensating"
  BY <1>4, <1>12, Zenon
<1>13. CASE Set(c, i, load("preflight")) /\ old.was # "compensating" /\ ~FoldFails(l) /\ ~(cursor(l) >= NSteps)
  <2>1. cursor(l) < NSteps
    BY <1>6, <1>13
  <2> QED
    BY <1>4, <1>13, <2>1, Zenon
<1> QED
  BY <1>7, <1>9, <1>10, <1>11, <1>12, <1>13, Zenon

\* What an older reader of the log counts.
LEMMA CursorNat ==
    ASSUME Counting, NEW l \in Seq(Events), LogOK(l), NEW k \in 0 .. Len(l)
    PROVE  cursor(SubSeq(l, 1, k)) \in Nat
<1>1. cursor(l) \in Nat /\ PositionsOf(l, "StepCompleted") = 1 .. cursor(l)
  BY JournalAssumption DEF LogOK
<1> DEFINE m == IF cursor(l) < k THEN cursor(l) ELSE k
<1>2. PositionsOf(SubSeq(l, 1, k), "StepCompleted") = PositionsOf(l, "StepCompleted") \cap 1 .. k
  BY Prefix, Positions DEF PositionsOf
<1>3. 1 .. cursor(l) \cap 1 .. k = 1 .. m /\ m \in Nat
  BY <1>1, Positions
<1> QED
  BY <1>1, <1>2, <1>3, Zenon DEF Counting, cursor

\* The step a drive works on is one of the definition.
LEMMA NextStepTyped ==
    ASSUME Counting, SagaInv, NEW c \in Coordinators, NEW i \in Instances,
           drive[c][i].at \in {"preflight", "run", "commit", "failed"}
    PROVE  NextStep(c, i) \in Steps /\ cursor(History(c, i)) \in Nat
           /\ NextStep(c, i) = cursor(History(c, i)) + 1
<1>1. /\ drive[c][i].seen \in 0 .. Len(log[i]) /\ log[i] \in Seq(Events)
      /\ cursor(History(c, i)) < NSteps
      /\ LogOK(log[i])
  BY LogTyped, Positions DEF DriveOK, Drives, History
<1>2. cursor(History(c, i)) \in Nat
  BY <1>1, CursorNat, Zenon DEF History
<1> QED
  BY <1>1, <1>2, JournalAssumption, SMTT(30) DEF NextStep, Steps

\* A call of Run with the attempt a.
LEMMA InvokeKeeps ==
    ASSUME Counting, SagaInv, NEW c \in Coordinators, NEW i \in Instances, NEW a \in 1 .. MaxAttempts,
           At(c, i, "preflight") \/ At(c, i, "run"), Invoke(c, i, a),
           UNCHANGED <<journalVars, known, deploy>>,
           mishaps' \in [Instances -> Nat]
    PROVE  SagaInv'
<1> DEFINE old == drive[c][i]
           d == [drive[c][i] EXCEPT !.at = "run", !.attempt = a]
<1>0. old \in Drives /\ DriveOK(old, log[i], undone[i], deploy.removable)
      /\ (lease[i] = c => HolderOK(old, status[i], log[i])) /\ old.at \in {"preflight", "run"}
  BY LogTyped, Zenon DEF At
<1>a. a \in 0 .. MaxAttempts
  BY SagaAssumption
<1>1. d \in Drives /\ d.at = "run" /\ d.was = old.was /\ d.seen = old.seen /\ d.todo = old.todo
  BY <1>0, <1>a, Zenon DEF Drives, Places
<1>2. drive' = [drive EXCEPT ![c][i] = d]
  BY Zenon DEF Invoke, Set
<1>3. ran' \in [Instances -> [Steps -> Nat]]
  <2>1. NextStep(c, i) \in Steps
    BY <1>0, NextStepTyped, Zenon
  <2> QED
    BY <2>1 DEF Invoke, SagaInv, SagaTypeOK
<1> HIDE DEF d
<1>4. DriveOK(d, log[i], undone[i], deploy.removable)
  BY <1>0, <1>1, Zenon DEF DriveOK
<1>5. lease[i] = c => HolderOK(d, status[i], log[i])
  BY <1>0, <1>1, Zenon DEF HolderOK
<1> QED
  BY <1>1, <1>2, <1>3, <1>4, <1>5, GoesOn, Zenon DEF Invoke

\* The first attempt, after the heartbeat before it.
LEMMA ExecuteKeeps ==
    ASSUME Counting, SagaInv, NEW c \in Coordinators, NEW i \in Instances,
           Execute(c, i) \/ HeartbeatError(c, i)
    PROVE  SagaInv'
<1>1. UNCHANGED <<journalVars, known, deploy>> /\ At(c, i, "preflight")
  BY Zenon DEF Execute, HeartbeatError, envVars
<1>2. mishaps' \in [Instances -> Nat]
  BY MishapTyped, Zenon DEF Execute, HeartbeatError, SagaInv, SagaTypeOK
<1>3. CASE Invoke(c, i, 1)
  BY <1>1, <1>2, <1>3, InvokeKeeps, SagaAssumption
<1>4. CASE End(c, i) /\ UNCHANGED runVars
  BY <1>1, <1>2, <1>4, EndKeeps, Zenon DEF End, Set
<1> QED
  BY <1>3, <1>4, Zenon DEF Execute, HeartbeatError

\* An attempt fails, and there is another one or none; or it succeeds.
LEMMA RunFailsKeeps ==
    ASSUME Counting, SagaInv, NEW c \in Coordinators, NEW i \in Instances, RunFails(c, i) \/ RunSucceeds(c, i)
    PROVE  SagaInv'
<1> DEFINE old == drive[c][i]
<1>0. /\ old \in Drives /\ DriveOK(old, log[i], undone[i], deploy.removable)
      /\ (lease[i] = c => HolderOK(old, status[i], log[i])) /\ old.at = "run"
  BY LogTyped, Zenon DEF At, RunFails, RunSucceeds
<1>1. UNCHANGED <<journalVars, known, deploy>> /\ At(c, i, "run")
  BY Zenon DEF RunFails, RunSucceeds, envVars
<1>2. mishaps' \in [Instances -> Nat]
  BY Zenon DEF RunFails, RunSucceeds, SagaInv, SagaTypeOK
<1>3. CASE Invoke(c, i, old.attempt + 1) /\ old.attempt < MaxAttempts
  <2>1. old.attempt + 1 \in 1 .. MaxAttempts
    BY <1>0, <1>3, SagaAssumption DEF Drives
  <2> QED
    BY <1>1, <1>2, <1>3, <2>1, InvokeKeeps, Zenon
<1>4. ASSUME NEW p \in {"failed", "commit"}, Goto(c, i, p), UNCHANGED runVars PROVE SagaInv'
  <2> DEFINE d == [drive[c][i] EXCEPT !.at = p]
  <2>1. d \in Drives /\ d.at = p /\ d.was = old.was /\ d.seen = old.seen /\ d.todo = old.todo
    BY <1>0, Zenon DEF Drives, Places
  <2>2. drive' = [drive EXCEPT ![c][i] = d]
    BY <1>4, Zenon DEF Goto, Set
  <2>3. ran' \in [Instances -> [Steps -> Nat]]
    BY <1>4, Zenon DEF runVars, SagaInv, SagaTypeOK
  <2> HIDE DEF d
  <2>4. DriveOK(d, log[i], undone[i], deploy.removable)
    BY <1>0, <2>1, Zenon DEF DriveOK
  <2>5. lease[i] = c => HolderOK(d, status[i], log[i])
    BY <1>0, <2>1, Zenon DEF HolderOK
  <2> QED
    BY <1>1, <1>2, <1>4, <2>1, <2>2, <2>3, <2>4, <2>5, GoesOn, Zenon DEF runVars
<1>5. CASE RunFails(c, i)
  BY <1>3, <1>4, <1>5, Zenon DEF RunFails
<1>6. CASE RunSucceeds(c, i)
  BY <1>4, <1>6, Zenon DEF RunSucceeds
<1> QED
  BY <1>5, <1>6, Zenon

\* A step timeout decides for the status expired.
LEMMA RunExpiresKeeps ==
    ASSUME SagaInv, NEW c \in Coordinators, NEW i \in Instances, RunExpires(c, i)
    PROVE  SagaInv'
<1>1. /\ Mark(c, i, "expired") \in Drives
      /\ DriveOK(Mark(c, i, "expired"), log[i], undone[i], deploy.removable)
      /\ lease[i] = c => HolderOK(Mark(c, i, "expired"), status[i], log[i])
  BY MarkOK, Zenon DEF RunExpires, At, Terminal
<1>2. drive' = [drive EXCEPT ![c][i] = Mark(c, i, "expired")]
  BY Zenon DEF RunExpires, Set
<1>3. mishaps' \in [Instances -> Nat] /\ ran' \in [Instances -> [Steps -> Nat]]
  BY Zenon DEF RunExpires, runVars, SagaInv, SagaTypeOK
<1> QED
  BY <1>1, <1>2, <1>3, GoesOn, Zenon DEF RunExpires, envVars, runVars

\* The ends of a drive that leave no trace in the journal.
LEMMA GiveUpKeeps ==
    ASSUME SagaInv, NEW c \in Coordinators, NEW i \in Instances,
           LeaseLost(c, i) \/ Canceled(c, i) \/ DriveError(c, i)
    PROVE  SagaInv'
<1>1. drive' = [drive EXCEPT ![c][i] = Idle] /\ UNCHANGED <<journalVars, known, deploy, runVars>>
  BY Zenon DEF LeaseLost, Canceled, DriveError, End, Set, envVars
<1>2. mishaps' \in [Instances -> Nat]
  BY MishapTyped, Zenon DEF LeaseLost, Canceled, DriveError, SagaInv, SagaTypeOK
<1> QED
  BY <1>1, <1>2, EndKeeps, Zenon

----------------------------------------------------------------------------
(* The steps of a drive that write to the journal.                             *)

\* The status a log replays to with an event more.
LEMMA FoldedAdds ==
    ASSUME NEW l \in Seq(Events), NEW e \in Events
    PROVE  /\ e.kind \in Terminal => Folded(Append(l, e)) = e.kind
           /\ e.kind \notin Terminal =>
                Folded(Append(l, e)) = IF Started(Append(l, e)) THEN "compensating" ELSE "running"
<1> DEFINE a == Append(l, e)
<1>1. a \in Seq(Events) /\ Len(a) = Len(l) + 1 /\ Len(l) \in Nat /\ a[Len(a)] = e
  BY Appended, Positions
<1>g. Grown(a, l, e)
  BY Longer, Zenon
<1> HIDE DEF a
<1>n. DOMAIN <<>> = {}
  OBVIOUS
<1>2. a # <<>>
  BY <1>g, <1>n, Zenon DEF Grown
<1>3. /\ e.kind \in Terminal => Folded(a) = e.kind
      /\ e.kind \notin Terminal => Folded(a) = IF Started(a) THEN "compensating" ELSE "running"
  BY <1>1, <1>2, FoldedIs, Zenon
<1> QED
  BY <1>3, Zenon DEF a

\* The events that the coordinator writes are events.
LEMMA EventTyped ==
    /\ \A w \in Terminal : /\ Event(w) \in Events /\ Event(w).kind = w
                           /\ w # "StepCompleted" /\ w # "CompensationStarted" /\ w \notin Backward
    /\ Event("CompensationStarted") \in Events /\ Event("CompensationStarted").kind = "CompensationStarted"
    /\ \A k \in StepKinds, s \in Nat :
        StepEvent(k, s) \in Events /\ StepEvent(k, s).kind = k /\ StepEvent(k, s).step = s
  BY Zenon DEF Event, StepEvent, Events, Kinds, Terminal, StepKinds, Backward

\* One event is recorded.
LEMMA RecordKeeps ==
    ASSUME SagaInv, NEW c \in Coordinators, NEW i \in Instances, NEW d \in Drives,
           NEW st \in Statuses, NEW e \in Events,
           drive' = [drive EXCEPT ![c][i] = d],
           status' = [status EXCEPT ![i] = st],
           log' = [log EXCEPT ![i] = Append(log[i], e)],
           lease[i] = c,
           lease' \in {lease, [lease EXCEPT ![i] = Nobody]},
           live' \in [Instances -> BOOLEAN],
           UNCHANGED <<known, deploy, mishaps, runVars>>,
           e.kind = "StepCompleted" => ~Started(log[i]) /\ cursor(log[i]) # NSteps,
           LogOK(Append(log[i], e)), StatusOK(st, Append(log[i], e), undone[i], deploy.removable),
           DriveOK(d, Append(log[i], e), undone[i], deploy.removable),
           HolderOK(d, st, Append(log[i], e))
    PROVE  SagaInv'
<1>1. log[i] \in Seq(Events) /\ Append(log[i], e) \in Seq(Events)
  BY LogTyped, Appended, Zenon
<1>2. Started(log[i]) => Started(Append(log[i], e))
  BY <1>1, StartedStays, Zenon
<1>3. ASSUME NEW b \in Coordinators
      PROVE  DriveOK(drive[b][i], Append(log[i], e), undone[i], deploy.removable)
  BY <1>1, LogTyped, DriveGrows, Zenon
<1> QED
  BY <1>1, <1>2, <1>3, JournalKeeps, Zenon

\* One event and the terminal event behind it are recorded, and the drive ends.
LEMMA RecordAndMarkKeeps ==
    ASSUME SagaInv, NEW c \in Coordinators, NEW i \in Instances,
           NEW w \in Terminal, NEW e \in Events,
           drive' = [drive EXCEPT ![c][i] = Idle],
           status' = [status EXCEPT ![i] = w],
           log' = [log EXCEPT ![i] = Append(Append(log[i], e), Event(w))],
           lease[i] = c,
           lease' = [lease EXCEPT ![i] = Nobody],
           live' \in [Instances -> BOOLEAN],
           UNCHANGED <<known, deploy, mishaps, runVars>>,
           e.kind = "StepCompleted" => ~Started(log[i]) /\ cursor(log[i]) # NSteps,
           LogOK(Append(log[i], e)), StatusOK("running", Append(log[i], e), undone[i], deploy.removable),
           w = "succeeded" => cursor(Append(log[i], e)) = NSteps,
           w = "failed" => NothingToUndo(Append(log[i], e)),
           w # "compensated"
    PROVE  SagaInv'
<1> DEFINE l == Append(log[i], e)
           a == Append(l, Event(w))
<1>1. /\ log[i] \in Seq(Events) /\ l \in Seq(Events) /\ a \in Seq(Events) /\ Event(w) \in Events
      /\ Event(w).kind = w /\ w # "StepCompleted" /\ w # "CompensationStarted" /\ w \notin Backward
      /\ w \in Statuses
  BY LogTyped, Appended, EventTyped, Zenon DEF Statuses
<1>2. (Started(log[i]) => Started(l)) /\ (Started(l) <=> Started(a))
  BY <1>1, StartedStays, Zenon
<1>3. ASSUME NEW b \in Coordinators
      PROVE  DriveOK(drive[b][i], a, undone[i], deploy.removable)
  <2>1. DriveOK(drive[b][i], l, undone[i], deploy.removable)
    BY <1>1, LogTyped, DriveGrows, Zenon
  <2> HIDE DEF l
  <2> QED
    BY <1>1, <2>1, LogTyped, DriveGrows, Zenon
<1>4. (\A n \in DOMAIN l : l[n].kind \notin Terminal) /\ ~Started(l)
  BY <1>1, OpenLog, Zenon DEF StatusOK, Open
<1>5. LogOK(a)
  <2> HIDE DEF l
  <2>1. LogOK(l)
    BY Zenon DEF l
  <2> QED
    BY <1>1, <1>4, <2>1, LogAddsEnd, Zenon
<1>6. /\ cursor(a) = cursor(l) /\ PositionsOf(a, "StepCompleted") = PositionsOf(l, "StepCompleted")
      /\ Folded(a) = w
  <2> HIDE DEF l
  <2> QED
    BY <1>1, CursorStays, FoldedAdds, Zenon
<1>7. \A n \in DOMAIN a : a[n].kind = "StepCompensated" => a[n].step \in undone[i]
  <2>1. \A n \in DOMAIN l : l[n].kind = "StepCompensated" => l[n].step \in undone[i]
    BY Zenon DEF StatusOK
  <2> HIDE DEF l
  <2>2. Grown(a, l, Event(w))
    BY <1>1, Longer, Zenon
  <2> HIDE DEF a
  <2> QED
    BY <1>1, <2>1, <2>2, Zenon DEF Grown, Backward
<1>8. StatusOK(w, a, undone[i], deploy.removable)
  <2>1. w # "absent"
    BY Zenon DEF Terminal
  <2> HIDE DEF a
  <2> QED
    BY <1>2, <1>4, <1>6, <1>7, <2>1, Zenon DEF StatusOK, NothingToUndo
<1>9. /\ Idle \in Drives /\ DriveOK(Idle, a, undone[i], deploy.removable)
      /\ HolderOK(Idle, w, a)
  BY <1>1, IdleDrive, Zenon
<1> HIDE DEF a
<1>10. log' = [log EXCEPT ![i] = a]
  BY Zenon DEF a
<1> QED
  BY <1>1, <1>2, <1>3, <1>5, <1>8, <1>9, <1>10, JournalKeeps, Zenon

\* What a drive that has a step result in its hands knows, while it has the lease.
LEMMA HolderForward ==
    ASSUME Counting, SagaInv, NEW c \in Coordinators, NEW i \in Instances, lease[i] = c,
           drive[c][i].at \in {"preflight", "run", "commit", "failed"}
    PROVE  /\ History(c, i) = log[i] /\ status[i] \in {"pending", "running"}
           /\ status[i] = Folded(log[i])
           /\ ~Started(log[i]) /\ ~FoldFails(log[i])
           /\ \A n \in DOMAIN log[i] : log[i][n].kind = "StepCompleted"
           /\ cursor(log[i]) = Len(log[i]) /\ NextStep(c, i) = Len(log[i]) + 1
           /\ Len(log[i]) < NSteps
           /\ PositionsOf(log[i], "StepCompleted") = 1 .. Len(log[i])
<1>1. /\ log[i] \in Seq(Events) /\ LogOK(log[i]) /\ drive[c][i].seen = Len(log[i])
      /\ status[i] \in {"pending", "running"} /\ ~FoldFails(log[i]) /\ status[i] = Folded(log[i])
      /\ cursor(History(c, i)) < NSteps /\ Len(log[i]) \in Nat
  BY LogTyped, Positions, Zenon DEF HolderOK, StatusOK, DriveOK, History
<1>2. History(c, i) = log[i]
  BY <1>1, Prefix DEF History
<1>3. ~Started(log[i]) /\ \A n \in DOMAIN log[i] : log[i][n].kind = "StepCompleted"
  BY <1>1, ForwardLog, OpenLog, Zenon DEF Open
<1>4. PositionsOf(log[i], "StepCompleted") = 1 .. Len(log[i])
  BY <1>1, <1>3, Positions, Zenon DEF PositionsOf
<1>5. cursor(log[i]) = Len(log[i])
  BY <1>1, <1>4, Zenon DEF Counting, cursor
<1> QED
  BY <1>1, <1>2, <1>3, <1>4, <1>5, Zenon DEF NextStep

\* commitStepCompleted writes the step, with the end of the saga if it was the last one.
LEMMA CommitCompletedKeeps ==
    ASSUME Counting, SagaInv, NEW c \in Coordinators, NEW i \in Instances, commitStepCompleted(c, i)
    PROVE  SagaInv'
<1> DEFINE s == NextStep(c, i)
           e == StepEvent("StepCompleted", s)
           l == Append(log[i], e)
<1>0. /\ drive' = [drive EXCEPT ![c][i] = Idle] /\ drive[c][i].at = "commit"
      /\ UNCHANGED <<known, deploy, mishaps, runVars>> /\ mishaps' \in [Instances -> Nat]
  BY Zenon DEF commitStepCompleted, End, Set, At, envVars, SagaInv, SagaTypeOK
<1>1. CASE UNCHANGED journalVars
  BY <1>0, <1>1, EndKeeps, Zenon
<1>2. CASE lease[i] = c /\ ~UNCHANGED journalVars
  <2>1. /\ History(c, i) = log[i] /\ status[i] \in {"pending", "running"}
        /\ ~Started(log[i]) /\ ~FoldFails(log[i])
        /\ \A n \in DOMAIN log[i] : log[i][n].kind = "StepCompleted"
        /\ cursor(log[i]) = Len(log[i]) /\ s = Len(log[i]) + 1 /\ Len(log[i]) < NSteps
    BY <1>0, <1>2, HolderForward, Zenon
  <2>2. log[i] \in Seq(Events) /\ LogOK(log[i]) /\ Len(log[i]) \in Nat /\ NSteps \in Nat
    BY LogTyped, Positions, JournalAssumption, Zenon
  <2>3. e \in Events /\ e.kind = "StepCompleted" /\ e.step = Len(log[i]) + 1
    BY <2>1, <2>2, EventTyped DEF StepKinds
  <2> HIDE DEF e
  <2>4. LogOK(l) /\ l \in Seq(Events)
    BY <2>1, <2>2, <2>3, LogAddsCompleted, Appended, Zenon
  <2>5. /\ cursor(l) = Len(log[i]) + 1
        /\ \A n \in DOMAIN l : l[n].kind = "StepCompleted"
    <3>1. cursor(l) = Len(log[i]) + 1
      BY <2>1, <2>2, <2>3, CursorMoves, Zenon
    <3>2. Grown(l, log[i], e)
      BY <2>2, <2>3, Longer, Zenon
    <3> HIDE DEF l
    <3> QED
      BY <2>1, <2>3, <3>1, <3>2, Zenon DEF Grown
  <2>6. ~Started(l) /\ Folded(l) = "running"
    BY <2>1, <2>2, <2>3, StartedStays, FoldedAdds, Zenon DEF Terminal
  <2>7. StatusOK("running", l, undone[i], deploy.removable)
    BY <2>5, <2>6, Zenon DEF StatusOK
  <2>8. cursor(log[i]) # NSteps
    BY <2>1, <2>2
  <2>9. Projected(status[i], e.kind) = "running" /\ "running" \in Statuses
    BY <2>3, Zenon DEF Projected, Statuses, Open
  <2>10. live' \in [Instances -> BOOLEAN]
    BY Zenon DEF commitStepCompleted, Record, AppendAndMark, journalVars, SagaInv, SagaTypeOK
  <2>11. /\ Idle \in Drives /\ DriveOK(Idle, l, undone[i], deploy.removable)
         /\ HolderOK(Idle, "running", l)
    BY <2>4, IdleDrive, Zenon
  <2>12. CASE /\ log' = [log EXCEPT ![i] = l] /\ status' = [status EXCEPT ![i] = "running"]
              /\ UNCHANGED lease
    BY <1>0, <1>2, <2>1, <2>3, <2>4, <2>7, <2>8, <2>9, <2>10, <2>11, <2>12, RecordKeeps, Zenon
  <2>13. CASE /\ s = NSteps
              /\ log' = [log EXCEPT ![i] = Append(l, Event("succeeded"))]
              /\ status' = [status EXCEPT ![i] = "succeeded"]
              /\ lease' = [lease EXCEPT ![i] = Nobody]
    <3>1. "succeeded" \in Terminal /\ cursor(l) = NSteps
      BY <2>1, <2>5, <2>13, Zenon DEF Terminal
    <3> QED
      BY <1>0, <1>2, <2>1, <2>3, <2>4, <2>7, <2>8, <2>10, <2>13, <3>1, RecordAndMarkKeeps, Zenon
  <2>14. \/ Record(c, i, e)
         \/ s = NSteps /\ AppendAndMark(c, i, e, "succeeded")
    BY <1>2, Zenon DEF commitStepCompleted, e
  <2>15. SagaTypeOK
    BY Zenon DEF SagaInv
  <2>16. CASE Record(c, i, e)
    BY <2>9, <2>12, <2>15, <2>16, Zenon DEF Record, SagaTypeOK
  <2>17. CASE s = NSteps /\ AppendAndMark(c, i, e, "succeeded")
    BY <2>9, <2>12, <2>13, <2>15, <2>17, Zenon DEF AppendAndMark, SagaTypeOK
  <2> QED
    BY <2>14, <2>16, <2>17, Zenon
<1>3. UNCHANGED journalVars \/ lease[i] = c
  BY Zenon DEF commitStepCompleted, Record, AppendAndMark, CanAppend, fenced
<1> QED
  BY <1>1, <1>2, <1>3, Zenon

\* commitStepFailed writes the failure of a saga that has nothing to undo.
LEMMA CommitFailedKeeps ==
    ASSUME Counting, SagaInv, NEW c \in Coordinators, NEW i \in Instances, commitStepFailed(c, i)
    PROVE  SagaInv'
<1> DEFINE e == StepEvent("StepFailed", NextStep(c, i))
           l == Append(log[i], e)
<1>0. /\ drive' = [drive EXCEPT ![c][i] = Idle] /\ drive[c][i].at = "failed"
      /\ UNCHANGED <<known, deploy, mishaps, runVars>> /\ mishaps' \in [Instances -> Nat]
  BY Zenon DEF commitStepFailed, End, Set, At, envVars, SagaInv, SagaTypeOK
<1>1. CASE UNCHANGED journalVars
  BY <1>0, <1>1, EndKeeps, Zenon
<1>2. CASE lease[i] = c /\ ~UNCHANGED journalVars
  <2>1. /\ History(c, i) = log[i] /\ ~Started(log[i])
        /\ \A n \in DOMAIN log[i] : log[i][n].kind = "StepCompleted"
        /\ NextStep(c, i) = Len(log[i]) + 1
    BY <1>0, <1>2, HolderForward, Zenon
  <2>2. log[i] \in Seq(Events) /\ LogOK(log[i]) /\ Len(log[i]) \in Nat
    BY LogTyped, Positions, Zenon
  <2>3. e \in Events /\ e.kind = "StepFailed"
    BY <2>1, <2>2, EventTyped DEF StepKinds
  <2> HIDE DEF e
  <2>4. NothingToUndo(log[i])
    BY <2>1, Zenon DEF commitStepFailed, shouldCompensate, NothingToUndo, KindsOf, PositionsOf
  <2>5. LogOK(l) /\ l \in Seq(Events)
    BY <2>1, <2>2, <2>3, <2>4, LogAddsFailed, Appended, Zenon
  <2>6. NothingToUndo(l)
    BY <2>2, <2>3, <2>4, CursorStays, Zenon DEF NothingToUndo
  <2>7. ~Started(l) /\ Folded(l) = "running"
    BY <2>1, <2>2, <2>3, StartedStays, FoldedAdds DEF Terminal
  <2>8. \A n \in DOMAIN l : l[n].kind # "StepCompensated"
    <3>1. Grown(l, log[i], e)
      BY <2>2, <2>3, Longer, Zenon
    <3> HIDE DEF l
    <3> QED
      BY <2>1, <2>3, <3>1, Zenon DEF Grown
  <2>9. StatusOK("running", l, undone[i], deploy.removable)
    BY <2>7, <2>8, Zenon DEF StatusOK
  <2>10. Projected(status[i], e.kind) = "running" /\ "running" \in Statuses /\ "failed" \in Terminal
    BY <2>3, Zenon DEF Projected, Statuses, Open, Terminal
  <2>11. live' \in [Instances -> BOOLEAN]
    BY Zenon DEF commitStepFailed, AppendAndMark, journalVars, SagaInv, SagaTypeOK
  <2>12. /\ Idle \in Drives /\ DriveOK(Idle, l, undone[i], deploy.removable)
         /\ HolderOK(Idle, "running", l)
    BY <2>5, IdleDrive, Zenon
  <2>13. CASE /\ log' = [log EXCEPT ![i] = l] /\ status' = [status EXCEPT ![i] = "running"]
              /\ UNCHANGED lease
    BY <1>0, <1>2, <2>3, <2>5, <2>9, <2>10, <2>11, <2>12, <2>13, RecordKeeps, Zenon
  <2>14. CASE /\ log' = [log EXCEPT ![i] = Append(l, Event("failed"))]
              /\ status' = [status EXCEPT ![i] = "failed"]
              /\ lease' = [lease EXCEPT ![i] = Nobody]
    BY <1>0, <1>2, <2>3, <2>5, <2>6, <2>9, <2>10, <2>11, <2>14, RecordAndMarkKeeps, Zenon
  <2>15. AppendAndMark(c, i, e, "failed") /\ SagaTypeOK
    BY <1>2, Zenon DEF commitStepFailed, e, SagaInv
  <2> QED
    BY <2>10, <2>13, <2>14, <2>15, Zenon DEF AppendAndMark, SagaTypeOK
<1>3. UNCHANGED journalVars \/ lease[i] = c
  BY Zenon DEF commitStepFailed, AppendAndMark, CanAppend, fenced
<1> QED
  BY <1>1, <1>2, <1>3, Zenon

\* appendCompensationStarted declares the rollback.
LEMMA StartKeeps ==
    ASSUME Counting, SagaInv, NEW c \in Coordinators, NEW i \in Instances, appendCompensationStarted(c, i)
    PROVE  SagaInv'
<1> DEFINE e == Event("CompensationStarted")
           l == Append(log[i], e)
           old == drive[c][i]
           d == [drive[c][i] EXCEPT !.at = "rollback"]
<1>0. /\ old.at = "failed" /\ old \in Drives
      /\ DriveOK(old, log[i], undone[i], deploy.removable)
      /\ UNCHANGED <<known, deploy, mishaps, runVars>> /\ mishaps' \in [Instances -> Nat]
  BY LogTyped, Zenon DEF appendCompensationStarted, At, envVars, SagaInv, SagaTypeOK
<1>1. CASE UNCHANGED journalVars /\ End(c, i)
  BY <1>0, <1>1, EndKeeps, Zenon DEF End, Set
<1>2. CASE CanAppend(c, i, e) /\ Record(c, i, e) /\ Goto(c, i, "rollback")
  <2>0. lease[i] = c
    BY <1>2, Zenon DEF CanAppend, fenced
  <2>1. /\ History(c, i) = log[i] /\ ~FoldFails(log[i])
        /\ \A n \in DOMAIN log[i] : log[i][n].kind = "StepCompleted"
        /\ PositionsOf(log[i], "StepCompleted") = 1 .. Len(log[i])
    BY <1>0, <2>0, HolderForward, Zenon
  <2>2. log[i] \in Seq(Events) /\ LogOK(log[i]) /\ Len(log[i]) \in Nat /\ old.seen = Len(log[i])
    BY <1>0, <2>0, LogTyped, Positions, Zenon DEF HolderOK
  <2>3. e \in Events /\ e.kind = "CompensationStarted"
    BY EventTyped, Zenon
  <2>4. d \in Drives /\ d.at = "rollback" /\ d.was = old.was /\ d.seen = old.seen /\ d.todo = old.todo
    BY <1>0, Zenon DEF Drives, Places
  <2>5. /\ log' = [log EXCEPT ![i] = l] /\ status' = [status EXCEPT ![i] = "compensating"]
        /\ UNCHANGED lease /\ live' \in [Instances -> BOOLEAN]
        /\ drive' = [drive EXCEPT ![c][i] = d]
        /\ "compensating" \in Statuses
    BY <1>2, <2>3, Zenon DEF Record, Projected, Goto, Set, Statuses, Open, SagaInv, SagaTypeOK
  <2> HIDE DEF e, d
  <2>6. LogOK(l) /\ l \in Seq(Events) /\ Len(l) = Len(log[i]) + 1
    BY <2>1, <2>2, <2>3, LogAddsStart, Appended, Zenon
  <2>7. Started(l) /\ Folded(l) = "compensating"
    BY <2>2, <2>3, StartedStays, FoldedAdds, Zenon DEF Terminal
  <2>8. /\ \A n \in DOMAIN l : l[n].kind \notin Backward
        /\ PositionsOf(l, "StepCompleted") = 1 .. Len(log[i])
    <3>1. Grown(l, log[i], e)
      BY <2>2, <2>3, Longer, Zenon
    <3>2. PositionsOf(l, "StepCompleted") = PositionsOf(log[i], "StepCompleted")
      BY <2>2, <2>3, CursorStays, Zenon
    <3>3. PositionsOf(log[i], "StepCompleted") = 1 .. Len(log[i])
      BY <2>1, <2>2, Positions, Zenon DEF PositionsOf
    <3> HIDE DEF l
    <3> QED
      BY <2>1, <2>3, <3>1, <3>2, <3>3, Zenon DEF Grown, Backward
  <2>9. StatusOK("compensating", l, undone[i], deploy.removable)
    BY <2>7, <2>8, Zenon DEF StatusOK, Backward
  <2>10. DriveOK(d, l, undone[i], deploy.removable)
    <3>1. d.seen <= Len(l)
      BY <2>2, <2>4, <2>6
    <3>2. PositionsOf(l, "StepCompleted") \subseteq 1 .. d.seen
      BY <2>2, <2>4, <2>8, Zenon
    <3>3. d.todo \subseteq PositionsOf(l, "StepCompleted")
      BY <1>0, <2>1, <2>4, <2>8, Zenon DEF DriveOK
    <3> QED
      BY <2>4, <2>7, <3>1, <3>2, <3>3, Zenon DEF DriveOK
  <2>11. HolderOK(d, "compensating", l)
    BY <2>4, <2>8, Zenon DEF HolderOK, Open
  <2> QED
    BY <1>0, <2>0, <2>3, <2>4, <2>5, <2>6, <2>9, <2>10, <2>11, RecordKeeps, Zenon
<1> QED
  BY <1>1, <1>2, Zenon DEF appendCompensationStarted

\* markTerminal closes the saga, or is refused.
LEMMA MarkTerminalKeeps ==
    ASSUME SagaInv, NEW c \in Coordinators, NEW i \in Instances, markTerminal(c, i)
    PROVE  SagaInv'
<1> DEFINE w == drive[c][i].want
           l == Append(log[i], Event(w))
<1>0. /\ drive' = [drive EXCEPT ![c][i] = Idle] /\ drive[c][i].at = "mark"
      /\ UNCHANGED <<known, deploy, mishaps, runVars>> /\ mishaps' \in [Instances -> Nat]
      /\ DriveOK(drive[c][i], log[i], undone[i], deploy.removable)
  BY LogTyped, Zenon DEF markTerminal, End, Set, At, envVars, SagaInv, SagaTypeOK
<1>1. CASE UNCHANGED journalVars
  BY <1>0, <1>1, EndKeeps, Zenon
<1>2. CASE /\ fenced(c, i) /\ CanTransitionTo(status[i], w)
           /\ status' = [status EXCEPT ![i] = w]
           /\ log' = [log EXCEPT ![i] = l]
           /\ lease' = [lease EXCEPT ![i] = Nobody]
           /\ live' = [live EXCEPT ![i] = FALSE]
  <2>1. /\ log[i] \in Seq(Events) /\ LogOK(log[i]) /\ status[i] \in Open /\ lease[i] = c
        /\ StatusOK(status[i], log[i], undone[i], deploy.removable)
    BY <1>2, LogTyped, Zenon DEF CanTransitionTo, fenced
  <2>2. /\ w \in Terminal /\ w \in Statuses /\ w # "absent" /\ Event(w) \in Events
        /\ Event(w).kind = w /\ w # "StepCompleted" /\ w # "StepCompensated"
    BY <1>0, EventTyped, Zenon DEF DriveOK, Statuses, Terminal
  <2>3. \A n \in DOMAIN log[i] : log[i][n].kind \notin Terminal
    BY <2>1, OpenLog, Zenon DEF StatusOK, Open
  <2>4. LogOK(l) /\ l \in Seq(Events)
    BY <2>1, <2>2, <2>3, LogAddsEnd, Appended, Zenon
  <2>5. /\ cursor(l) = cursor(log[i]) /\ Folded(l) = w
        /\ PositionsOf(l, "StepCompleted") = PositionsOf(log[i], "StepCompleted")
    BY <2>1, <2>2, CursorStays, FoldedAdds, Zenon
  <2>6. \A n \in DOMAIN l : l[n].kind = "StepCompensated" => l[n].step \in undone[i]
    <3>1. \A n \in DOMAIN log[i] : log[i][n].kind = "StepCompensated" => log[i][n].step \in undone[i]
      BY <2>1, Zenon DEF StatusOK
    <3>2. Grown(l, log[i], Event(w))
      BY <2>1, <2>2, Longer, Zenon
    <3> HIDE DEF l
    <3> QED
      BY <2>2, <3>1, <3>2, Zenon DEF Grown
  <2>7. w = "failed" => deploy.removable \/ NothingToUndo(l)
    BY <1>0, <2>1, <2>5, Zenon DEF DriveOK, LogOK, NothingToUndo
  <2>8. w = "compensated" => Covered(l, undone[i], {})
    <3>1. w = "compensated" => Covered(log[i], undone[i], {})
      BY <1>0, Zenon DEF DriveOK
    <3>2. \A n \in PositionsOf(l, "StepCompleted") : l[n] = log[i][n]
      <4>1. Grown(l, log[i], Event(w))
        BY <2>1, <2>2, Longer, Zenon
      <4> HIDE DEF l
      <4> QED
        BY <2>5, <4>1, Zenon DEF Grown, PositionsOf
    <3> QED
      BY <2>5, <3>1, <3>2, Zenon DEF Covered
  <2>9. w = "succeeded" => cursor(l) = NSteps /\ ~Started(l)
    <3>1. w = "succeeded" => cursor(l) = NSteps
      BY <1>0, <2>5, Zenon DEF DriveOK
    <3>2. w = "succeeded" => status[i] # "compensating"
      <4>1. ~CanTransitionTo("compensating", "succeeded")
        BY DEF CanTransitionTo, statusTransitions
      <4> QED
        BY <1>2, <4>1, Zenon
    <3>3. Folded(log[i]) = status[i]
      BY <2>1, Zenon DEF StatusOK, Open
    <3>4. w = "succeeded" => ~Started(log[i])
      BY <2>1, <3>2, <3>3, OpenLog, Zenon
    <3>5. Started(l) <=> Started(log[i]) \/ w = "CompensationStarted"
      BY <2>1, <2>2, StartedStays, Zenon
    <3> QED
      BY <3>1, <3>4, <3>5, Zenon
  <2>10. StatusOK(w, l, undone[i], deploy.removable)
    BY <2>2, <2>5, <2>6, <2>7, <2>8, <2>9, Zenon DEF StatusOK
  <2>11. /\ Idle \in Drives /\ DriveOK(Idle, l, undone[i], deploy.removable)
         /\ HolderOK(Idle, w, l)
    BY <2>4, IdleDrive, Zenon
  <2>12. live' \in [Instances -> BOOLEAN]
    BY <1>2, Zenon DEF SagaInv, SagaTypeOK
  <2> HIDE DEF w
  <2> QED
    BY <1>0, <1>2, <2>1, <2>2, <2>4, <2>10, <2>11, <2>12, RecordKeeps, Zenon
<1> QED
  BY <1>1, <1>2, Zenon DEF markTerminal, MarkTerminal

\* The event of an outcome settles its step.
LEMMA SettledAdds ==
    ASSUME NEW l \in Seq(Events), NEW e \in Events
    PROVE  settled(Append(l, e)) = settled(l) \cup (IF e.kind \in Backward THEN {e.step} ELSE {})
<1> DEFINE a == Append(l, e)
<1>1. /\ DOMAIN a = 1 .. Len(l) + 1 /\ DOMAIN l = 1 .. Len(l) /\ Len(l) \in Nat
      /\ \A n \in 1 .. Len(l) : a[n] = l[n]
      /\ a[Len(l) + 1] = e
  BY Appended, Positions, Zenon
<1>2. \A m \in Seq(Events) : \A s : s \in settled(m) <=> \E n \in DOMAIN m : m[n].kind \in Backward /\ m[n].step = s
  BY Zenon DEF settled, StepsOf, PositionsOf, Backward
<1> HIDE DEF a
<1>3. a \in Seq(Events)
  BY Appended, Zenon DEF a
<1>4. \A s : s \in settled(a) <=> s \in settled(l) \/ (e.kind \in Backward /\ e.step = s)
  BY <1>1, <1>2, <1>3
<1> QED
  BY <1>4, Zenon DEF a

\* The reverse walk starts from what is left to undo.
LEMMA WalkKeeps ==
    ASSUME SagaInv, NEW c \in Coordinators, NEW i \in Instances,
           At(c, i, "rollback"), Walk(c, i),
           UNCHANGED <<journalVars, known, deploy, runVars>>,
           mishaps' \in [Instances -> Nat]
    PROVE  SagaInv'
<1> DEFINE old == drive[c][i]
           h == History(c, i)
           l == log[i]
<1>0. /\ old \in Drives /\ DriveOK(old, l, undone[i], deploy.removable)
      /\ (lease[i] = c => HolderOK(old, status[i], l)) /\ old.at = "rollback"
      /\ l \in Seq(Events) /\ LogOK(l) /\ StatusOK(status[i], l, undone[i], deploy.removable)
      /\ Len(l) \in Nat /\ DOMAIN l = 1 .. Len(l)
  BY LogTyped, Positions, Zenon DEF At
<1>i. old.seen \in Nat /\ old.seen <= Len(l) /\ Len(l) \in Nat
  BY <1>0, Zenon DEF DriveOK, Drives
<1>1. /\ DOMAIN h = 1 .. old.seen /\ DOMAIN h \subseteq DOMAIN l /\ DOMAIN h \subseteq Nat
      /\ \A n \in DOMAIN l : n <= old.seen => n \in DOMAIN h
      /\ \A n \in DOMAIN h : h[n] = l[n]
  <2>1. /\ old.seen \in 0 .. Len(l) /\ 1 .. old.seen \subseteq DOMAIN l /\ 1 .. old.seen \subseteq Nat
        /\ \A n \in DOMAIN l : n <= old.seen => n \in 1 .. old.seen
    <3>1. /\ old.seen \in 0 .. Len(l) /\ 1 .. old.seen \subseteq 1 .. Len(l) /\ 1 .. old.seen \subseteq Nat
          /\ \A n \in 1 .. Len(l) : n <= old.seen => n \in 1 .. old.seen
      BY <1>i, Initial, Zenon
    <3> QED
      BY <1>0, <3>1, Zenon
  <2>2. DOMAIN h = 1 .. old.seen /\ \A n \in 1 .. old.seen : h[n] = l[n]
    BY <1>0, <2>1, Prefix, Zenon DEF History
  <2> QED
    BY <2>1, <2>2, Zenon
<1>a. collectCommittedSteps(h) \in SUBSET Nat
  BY <1>1, Zenon DEF collectCommittedSteps, PositionsOf
<1>2. PICK T \in SUBSET Nat : T = collectCommittedSteps(h)
  BY <1>a, Zenon
<1>b. ("StepCompensationFailed" \in KindsOf(h)) \in BOOLEAN
  BY SMT
<1>3. PICK b \in BOOLEAN : b = ("StepCompensationFailed" \in KindsOf(h))
  BY <1>b, Zenon
<1> DEFINE d == [drive[c][i] EXCEPT !.at = "walk", !.todo = T, !.bad = b]
<1>4. drive' = [drive EXCEPT ![c][i] = d]
  BY <1>2, <1>3, Zenon DEF Walk, Set
<1>5. d \in Drives /\ d.at = "walk" /\ d.was = old.was /\ d.seen = old.seen /\ d.todo = T /\ d.bad = b
  BY <1>0, Zenon DEF Drives, Places
<1> HIDE DEF d
<1>6. /\ T \subseteq PositionsOf(l, "StepCompleted")
      /\ \A n \in PositionsOf(l, "StepCompleted") : n \in T \/ l[n].step \in settled(h)
  <2>1. PositionsOf(l, "StepCompleted") = PositionsOf(h, "StepCompleted")
    <3>1. PositionsOf(l, "StepCompleted") \subseteq DOMAIN h
      BY <1>0, <1>1, Zenon DEF DriveOK
    <3>2. ASSUME NEW n PROVE n \in PositionsOf(l, "StepCompleted") <=> n \in PositionsOf(h, "StepCompleted")
      BY <1>1, <3>1, Zenon DEF PositionsOf
    <3> QED
      BY <3>2, Zenon
  <2> QED
    BY <1>1, <1>2, <2>1, ZenonT(60) DEF collectCommittedSteps, PositionsOf
<1>7. ~b => Covered(l, undone[i], T)
  <2> SUFFICES ASSUME ~b, NEW n \in PositionsOf(l, "StepCompleted"), n \notin T
               PROVE  l[n].step \in undone[i]
    BY Zenon DEF Covered
  <2>1. l[n].step \in settled(h)
    BY <1>6, Zenon
  <2>2. PICK m \in DOMAIN h : h[m].kind \in Backward /\ h[m].step = l[n].step
    BY <2>1, Zenon DEF settled, StepsOf, PositionsOf, Backward
  <2>3. h[m].kind = "StepCompensated"
    BY <1>3, <2>2, Zenon DEF KindsOf, Backward
  <2>4. m \in DOMAIN l /\ l[m].kind = "StepCompensated" /\ l[m].step = l[n].step
    BY <1>1, <2>2, <2>3, Zenon
  <2> QED
    BY <1>0, <2>4, Zenon DEF StatusOK
<1>8. DriveOK(d, l, undone[i], deploy.removable)
  BY <1>0, <1>5, <1>6, <1>7, Zenon DEF DriveOK
<1>9. ASSUME lease[i] = c PROVE HolderOK(d, status[i], l)
  <2>1. \A n \in DOMAIN l : l[n].kind \in Backward => n \in DOMAIN h /\ h[n] = l[n]
    BY <1>0, <1>1, <1>9, Zenon DEF HolderOK
  <2>2. settled(l) \subseteq settled(h)
    BY <2>1, Zenon DEF settled, StepsOf, PositionsOf, Backward
  <2>3. \A n \in T : l[n].step \notin settled(l)
    BY <1>1, <1>2, <2>2, Zenon DEF collectCommittedSteps, PositionsOf
  <2> QED
    BY <1>0, <1>5, <1>9, <2>3, Zenon DEF HolderOK
<1> QED
  BY <1>4, <1>5, <1>8, <1>9, GoesOn, Zenon DEF runVars, SagaInv, SagaTypeOK

\* runCompensation collects what is committed and not settled yet.
LEMMA RunCompensationKeeps ==
    ASSUME SagaInv, NEW c \in Coordinators, NEW i \in Instances,
           runCompensation(c, i) \/ WalkHeartbeatError(c, i)
    PROVE  SagaInv'
<1>1. UNCHANGED <<journalVars, known, deploy, runVars>> /\ At(c, i, "rollback")
  BY Zenon DEF runCompensation, WalkHeartbeatError, envVars
<1>2. mishaps' \in [Instances -> Nat]
  BY MishapTyped, Zenon DEF runCompensation, WalkHeartbeatError, SagaInv, SagaTypeOK
<1>3. CASE Walk(c, i)
  BY <1>1, <1>2, <1>3, WalkKeeps, Zenon
<1>4. CASE End(c, i)
  BY <1>1, <1>2, <1>4, EndKeeps, Zenon DEF End, Set
<1> QED
  BY <1>3, <1>4, Zenon DEF runCompensation, WalkHeartbeatError

\* Compensate is called, and leaves nothing in the journal yet.
LEMMA CompensateKeeps ==
    ASSUME SagaInv, NEW c \in Coordinators, NEW i \in Instances, compensateOneStep(c, i)
    PROVE  SagaInv'
<1> DEFINE old == drive[c][i]
           l == log[i]
<1>0. /\ old \in Drives /\ DriveOK(old, l, undone[i], deploy.removable)
      /\ (lease[i] = c => HolderOK(old, status[i], l)) /\ old.at = "walk"
      /\ l \in Seq(Events) /\ LogOK(l)
      /\ UNCHANGED <<journalVars, known, deploy, mishaps>> /\ mishaps' \in [Instances -> Nat]
  BY LogTyped, Zenon DEF At, compensateOneStep, envVars, SagaInv, SagaTypeOK
<1>1. PICK n \in old.todo : IF l[n].step \in Compensable THEN Undo(c, i, n)
                            ELSE Set(c, i, Take(c, i, n)) /\ UNCHANGED runVars
  BY Zenon DEF compensateOneStep
<1>2. /\ n \in PositionsOf(l, "StepCompleted") /\ n \in DOMAIN l /\ l[n].kind = "StepCompleted"
      /\ l[n].step = n
  BY <1>0, Zenon DEF DriveOK, PositionsOf, LogOK, OneRun
<1>3. PICK T \in SUBSET Nat : T = old.todo \ {n}
  BY <1>0, Zenon DEF Drives
<1>4. T \subseteq PositionsOf(l, "StepCompleted")
  BY <1>0, <1>3, Zenon DEF DriveOK
<1>5. \A m \in T : l[m].step # l[n].step
  <2>1. \A m \in T : l[m].step = m
    BY <1>0, <1>4, Zenon DEF PositionsOf, LogOK, OneRun
  <2> QED
    BY <1>2, <1>3, <2>1, Zenon
<1>6. CASE l[n].step \notin Compensable
  <2> DEFINE d == [drive[c][i] EXCEPT !.todo = T]
  <2>1. drive' = [drive EXCEPT ![c][i] = d] /\ UNCHANGED runVars
    BY <1>1, <1>3, <1>6, Zenon DEF Set, Take
  <2>2. d \in Drives /\ d.at = "walk" /\ d.was = old.was /\ d.seen = old.seen /\ d.todo = T /\ d.bad = old.bad
    BY <1>0, Zenon DEF Drives
  <2> HIDE DEF d
  <2>3. ~d.bad => Covered(l, undone[i], T)
    BY <1>0, <1>3, <1>6, <2>2, Zenon DEF DriveOK, Covered
  <2>4. DriveOK(d, l, undone[i], deploy.removable)
    BY <1>0, <1>4, <2>2, <2>3, Zenon DEF DriveOK
  <2>5. lease[i] = c => HolderOK(d, status[i], l)
    BY <1>0, <1>3, <2>2, Zenon DEF HolderOK
  <2> QED
    BY <1>0, <2>1, <2>2, <2>4, <2>5, GoesOn, Zenon DEF runVars, SagaInv, SagaTypeOK
<1>7. CASE l[n].step \in Compensable
  <2> DEFINE s == l[n].step
  <2>0. s \in Steps /\ s \in Nat /\ s \in StepsOf(l, "StepCompleted")
    <3>1. s \in Steps
      BY <1>7, JournalAssumption, Zenon
    <3>2. s \in StepsOf(l, "StepCompleted")
      BY <1>2, Zenon DEF StepsOf
    <3> QED
      BY <3>1, <3>2, JournalAssumption DEF Steps
  <2>1. PICK k \in BOOLEAN, b \in BOOLEAN :
            /\ drive' = [drive EXCEPT ![c][i] =
                 [drive[c][i] EXCEPT !.at = "record", !.todo = T, !.step = s, !.ok = k, !.bad = b]]
            /\ undos' = [undos EXCEPT ![i][s] = @ + 1] /\ UNCHANGED ran
            /\ undone' = IF k THEN [undone EXCEPT ![i] = @ \cup {s}] ELSE undone
            /\ ~k => b
            /\ k => b = old.bad
    <3>1. CASE /\ undone' = [undone EXCEPT ![i] = @ \cup {s}]
               /\ Set(c, i, [[Take(c, i, n) EXCEPT !.at = "record", !.step = s] EXCEPT !.ok = TRUE])
      <4>1. old.bad \in BOOLEAN
        BY <1>0, Zenon DEF Drives
      <4>2. [[Take(c, i, n) EXCEPT !.at = "record", !.step = s] EXCEPT !.ok = TRUE]
              = [drive[c][i] EXCEPT !.at = "record", !.todo = T, !.step = s, !.ok = TRUE, !.bad = old.bad]
        BY <1>0, <1>3, Zenon DEF Take, Drives
      <4> QED
        BY <1>1, <1>7, <3>1, <4>1, <4>2, Zenon DEF Undo, Set
    <3>2. CASE /\ UNCHANGED undone
               /\ Set(c, i, [[Take(c, i, n) EXCEPT !.at = "record", !.step = s]
                                EXCEPT !.ok = FALSE, !.bad = TRUE])
      <4>1. [[Take(c, i, n) EXCEPT !.at = "record", !.step = s] EXCEPT !.ok = FALSE, !.bad = TRUE]
              = [drive[c][i] EXCEPT !.at = "record", !.todo = T, !.step = s, !.ok = FALSE, !.bad = TRUE]
        BY <1>0, <1>3, Zenon DEF Take, Drives
      <4> QED
        BY <1>1, <1>7, <3>2, <4>1, Zenon DEF Undo, Set
    <3> QED
      BY <1>1, <1>7, <3>1, <3>2, Zenon DEF Undo
  <2> DEFINE d == [drive[c][i] EXCEPT !.at = "record", !.todo = T, !.step = s, !.ok = k, !.bad = b]
  <2>2. /\ d \in Drives /\ d.at = "record" /\ d.was = old.was /\ d.seen = old.seen /\ d.todo = T
        /\ d.bad = b /\ d.step = s /\ d.ok = k
    BY <1>0, <2>0, Zenon DEF Drives, Places
  <2>3. drive' = [drive EXCEPT ![c][i] = d]
    BY <2>1, Zenon
  <2> HIDE DEF d
  <2>4. /\ undone' \in [Instances -> SUBSET Steps] /\ \A j \in Instances : undone[j] \subseteq undone'[j]
        /\ k => s \in undone'[i]
    BY <2>0, <2>1, Zenon DEF SagaInv, SagaTypeOK
  <2>5. undos' \in [Instances -> [Steps -> Nat]] /\ ran' \in [Instances -> [Steps -> Nat]]
    BY <2>0, <2>1 DEF SagaInv, SagaTypeOK
  <2>6. \A j \in Instances, t \in Steps : undos'[j][t] > 0 => Started(log[j])
    <3>1. Started(log[i])
      BY <1>0, Zenon DEF DriveOK
    <3>2. \A j \in Instances : j # i => undos'[j] = undos[j]
      BY <2>1, Zenon DEF SagaInv, SagaTypeOK
    <3> QED
      BY <3>1, <3>2, Zenon DEF SagaInv
  <2>7. ~d.bad => Covered(l, undone'[i], T)
    <3> SUFFICES ASSUME ~b, NEW m \in PositionsOf(l, "StepCompleted"), l[m].step \in Compensable
                 PROVE  l[m].step \in undone'[i] \/ m \in T
      BY <2>2, Zenon DEF Covered
    <3>1. k /\ ~old.bad
      BY <2>1, Zenon
    <3>2. l[m].step \in undone[i] \/ m \in old.todo
      BY <1>0, <3>1, Zenon DEF DriveOK, Covered
    <3> QED
      BY <1>3, <2>4, <3>1, <3>2, Zenon
  <2>8. DriveOK(old, l, undone'[i], deploy.removable)
    BY <1>0, <2>4, DriveUndoes, Zenon
  <2>9. DriveOK(d, l, undone'[i], deploy.removable)
    BY <1>0, <1>4, <1>7, <2>0, <2>1, <2>2, <2>4, <2>7, <2>8, Zenon DEF DriveOK
  <2>10. ASSUME lease[i] = c PROVE HolderOK(d, status[i], l)
    <3>1. s \notin settled(l) /\ \A m \in T : l[m].step \notin settled(l)
      BY <1>0, <1>3, <2>10, Zenon DEF HolderOK
    <3> QED
      BY <1>0, <1>5, <2>2, <2>10, <3>1, Zenon DEF HolderOK
  <2> QED
    BY <1>0, <2>2, <2>3, <2>4, <2>5, <2>6, <2>9, <2>10, QuietKeeps, Zenon
<1> QED
  BY <1>6, <1>7, Zenon

\* The walk goes on behind the call, whether its outcome was recorded or not.
LEMMA ProceedOK ==
    ASSUME NEW old \in Drives, old.at = "record", NEW l, NEW u, NEW r, NEW st,
           DriveOK(old, l, u, r)
    PROVE  LET d == [old EXCEPT !.at = "walk", !.step = 0, !.ok = FALSE]
           IN  /\ d \in Drives /\ DriveOK(d, l, u, r) /\ d.todo = old.todo /\ d.at = "walk"
               /\ (st = "compensating" /\ (\A n \in old.todo : l[n].step \notin settled(l))) => HolderOK(d, st, l)
<1> DEFINE d == [old EXCEPT !.at = "walk", !.step = 0, !.ok = FALSE]
<1>1. d \in Drives /\ d.at = "walk" /\ d.was = old.was /\ d.seen = old.seen /\ d.todo = old.todo /\ d.bad = old.bad
  BY Zenon DEF Drives, Places
<1> HIDE DEF d
<1>2. DriveOK(d, l, u, r)
  BY <1>1, Zenon DEF DriveOK
<1>3. st = "compensating" /\ (\A n \in old.todo : l[n].step \notin settled(l)) => HolderOK(d, st, l)
  BY <1>1, Zenon DEF HolderOK, Open
<1> QED
  BY <1>1, <1>2, <1>3, Zenon DEF d

\* The outcome of a Compensate is written, or the walk ends in an error.
LEMMA RecordOutcomeKeeps ==
    ASSUME SagaInv, NEW c \in Coordinators, NEW i \in Instances,
           RecordOutcome(c, i) \/ RecordError(c, i)
    PROVE  SagaInv'
<1> DEFINE old == drive[c][i]
           d == [old EXCEPT !.at = "walk", !.step = 0, !.ok = FALSE]
           e == Outcome(c, i)
           l == Append(log[i], e)
<1>0. /\ old \in Drives /\ DriveOK(old, log[i], undone[i], deploy.removable)
      /\ (lease[i] = c => HolderOK(old, status[i], log[i])) /\ old.at = "record"
      /\ log[i] \in Seq(Events) /\ LogOK(log[i])
      /\ StatusOK(status[i], log[i], undone[i], deploy.removable)
  BY LogTyped, Zenon DEF At, RecordOutcome, RecordError
<1>1. /\ UNCHANGED <<known, deploy, runVars>> /\ mishaps' \in [Instances -> Nat]
      /\ drive' = [drive EXCEPT ![c][i] = d]
  BY MishapTyped, Zenon DEF RecordOutcome, RecordError, Proceed, Set, envVars, SagaInv, SagaTypeOK
<1>2. CASE UNCHANGED journalVars
  <2>1. d \in Drives /\ DriveOK(d, log[i], undone[i], deploy.removable)
    BY <1>0, ProceedOK, Zenon
  <2>2. lease[i] = c => HolderOK(d, status[i], log[i])
    BY <1>0, ProceedOK, Zenon DEF HolderOK
  <2> HIDE DEF d
  <2> QED
    BY <1>1, <1>2, <2>1, <2>2, GoesOn, Zenon DEF runVars, SagaInv, SagaTypeOK
<1>3. CASE CanAppend(c, i, e) /\ Record(c, i, e) /\ UNCHANGED mishaps
  <2>0. lease[i] = c /\ HolderOK(old, status[i], log[i]) /\ status[i] = "compensating"
    BY <1>0, <1>3, Zenon DEF CanAppend, fenced, HolderOK
  <2>1. /\ e \in Events /\ e.kind \in Backward /\ e.step = old.step
        /\ e.kind = "StepCompensated" => old.ok
    <3>1. old.step \in Nat
      BY <1>0, Zenon DEF Drives
    <3> QED
      BY <3>1, EventTyped, Zenon DEF Outcome, StepKinds, Backward
  <2> HIDE DEF e
  <2>2. /\ log' = [log EXCEPT ![i] = l] /\ status' = [status EXCEPT ![i] = "compensating"]
        /\ UNCHANGED lease /\ live' \in [Instances -> BOOLEAN] /\ "compensating" \in Statuses
    BY <1>3, <2>0, <2>1, Zenon DEF Record, Projected, Backward, Statuses, Open, SagaInv, SagaTypeOK
  <2>3. \A n \in DOMAIN log[i] : log[i][n].kind \notin Terminal
    BY <1>0, <2>0, OpenLog, Zenon DEF StatusOK, Open
  <2>4. Started(log[i]) /\ e.step \notin settled(log[i])
        /\ e.step \in Compensable \cap StepsOf(log[i], "StepCompleted")
    BY <1>0, <2>0, <2>1, Zenon DEF DriveOK, HolderOK
  <2>5. LogOK(l) /\ l \in Seq(Events)
    BY <1>0, <2>1, <2>3, <2>4, LogAddsOutcome, Appended, Zenon
  <2>6. Folded(l) = "compensating"
    BY <1>0, <2>1, <2>4, StartedStays, FoldedAdds, Zenon DEF Backward, Terminal
  <2>7. /\ DOMAIN l = 1 .. Len(log[i]) + 1 /\ DOMAIN log[i] = 1 .. Len(log[i])
        /\ \A n \in 1 .. Len(log[i]) : l[n] = log[i][n]
        /\ l[Len(log[i]) + 1] = e /\ Len(log[i]) \in Nat
    BY <1>0, <2>1, Appended, Positions, Zenon
  <2>8. \A n \in DOMAIN l : l[n].kind = "StepCompensated" => l[n].step \in undone[i]
    <3>1. e.kind = "StepCompensated" => e.step \in undone[i]
      BY <1>0, <2>1, Zenon DEF DriveOK
    <3>2. \A n \in DOMAIN log[i] : log[i][n].kind = "StepCompensated" => log[i][n].step \in undone[i]
      BY <1>0, Zenon DEF StatusOK
    <3> HIDE DEF l
    <3> QED
      BY <2>7, <3>1, <3>2
  <2>9. StatusOK("compensating", l, undone[i], deploy.removable)
    BY <2>6, <2>8, Zenon DEF StatusOK
  <2>10. e.kind # "StepCompleted"
    BY <2>1, Zenon DEF Backward
  <2>11. DriveOK(old, l, undone[i], deploy.removable)
    BY <1>0, <2>1, <2>10, DriveGrows, Zenon
  <2>12. \A n \in old.todo : l[n].step \notin settled(l)
    <3>1. \A n \in old.todo : n \in DOMAIN log[i]
      BY <1>0, Zenon DEF DriveOK, PositionsOf
    <3>2. \A n \in old.todo : log[i][n].step \notin settled(log[i]) /\ log[i][n].step # e.step
      BY <1>0, <2>0, <2>1, Zenon DEF HolderOK
    <3>3. settled(l) = settled(log[i]) \cup {e.step}
      BY <1>0, <2>1, SettledAdds, Zenon
    <3> HIDE DEF l
    <3> QED
      BY <2>7, <3>1, <3>2, <3>3, Zenon
  <2> HIDE DEF l
  <2>13. d \in Drives /\ DriveOK(d, l, undone[i], deploy.removable) /\ HolderOK(d, "compensating", l)
    BY <1>0, <2>11, <2>12, ProceedOK, Zenon
  <2> HIDE DEF d
  <2> QED
    BY <1>1, <1>3, <2>0, <2>1, <2>2, <2>5, <2>9, <2>10, <2>13, RecordKeeps, Zenon DEF l
<1> QED
  BY <1>2, <1>3, Zenon DEF RecordOutcome, RecordError

\* At the end of the walk the rollback is complete, or was bad.
LEMMA FinishWalkKeeps ==
    ASSUME SagaInv, NEW c \in Coordinators, NEW i \in Instances, FinishWalk(c, i)
    PROVE  SagaInv'
<1>0. /\ drive[c][i].at = "walk" /\ drive[c][i].todo = {} /\ drive[c][i] \in Drives
      /\ DriveOK(drive[c][i], log[i], undone[i], deploy.removable)
  BY LogTyped, Zenon DEF FinishWalk, At
<1>1. PICK w \in {"compensated", "compensation_failed"} :
          /\ w = "compensated" => ~drive[c][i].bad
          /\ drive' = [drive EXCEPT ![c][i] = Mark(c, i, w)]
  BY Zenon DEF FinishWalk, Set
<1>2. w \in Terminal /\ w # "succeeded" /\ w # "failed"
  BY Zenon DEF Terminal
<1>3. w = "compensated" => Started(log[i]) /\ Covered(log[i], undone[i], {})
  BY <1>0, <1>1, Zenon DEF DriveOK
<1>4. /\ Mark(c, i, w) \in Drives
      /\ DriveOK(Mark(c, i, w), log[i], undone[i], deploy.removable)
      /\ lease[i] = c => HolderOK(Mark(c, i, w), status[i], log[i])
  BY <1>0, <1>2, <1>3, MarkOK, Zenon DEF At
<1>5. mishaps' \in [Instances -> Nat] /\ ran' \in [Instances -> [Steps -> Nat]]
  BY Zenon DEF FinishWalk, runVars, SagaInv, SagaTypeOK
<1> QED
  BY <1>1, <1>4, <1>5, GoesOn, Zenon DEF FinishWalk, envVars, runVars

----------------------------------------------------------------------------
(* Ticks, crashes and what expires.                                            *)

\* A step that leaves the sagas as they are.
LEMMA ClaimsKeep ==
    ASSUME SagaInv, UNCHANGED <<status, log, deploy, runVars>>,
           drive' \in [Coordinators -> [Instances -> Drives]],
           lease' \in [Instances -> Coordinators \cup {Nobody}],
           live' \in [Instances -> BOOLEAN],
           known' \in [Coordinators -> BOOLEAN],
           mishaps' \in [Instances -> Nat],
           \A c \in Coordinators : ~known'[c] => deploy.removable,
           \A c \in Coordinators, i \in Instances :
                /\ DriveOK(drive'[c][i], log[i], undone[i], deploy.removable)
                /\ lease'[i] = c => HolderOK(drive'[c][i], status[i], log[i])
    PROVE  SagaInv'
<1> USE DEF runVars
<1>1. SagaTypeOK'
  BY Zenon DEF SagaInv, SagaTypeOK
<1>2. (\A c \in Coordinators : ~known[c] => deploy.removable)'
  BY Zenon
<1>3. (\A i \in Instances :
        /\ LogOK(log[i])
        /\ StatusOK(status[i], log[i], undone[i], deploy.removable)
        /\ \A s \in Steps : undos[i][s] > 0 => Started(log[i]))'
  BY Zenon DEF SagaInv
<1>4. (\A c \in Coordinators, i \in Instances :
        /\ DriveOK(drive[c][i], log[i], undone[i], deploy.removable)
        /\ lease[i] = c => HolderOK(drive[c][i], status[i], log[i]))'
  BY Zenon
<1> QED
  BY <1>1, <1>2, <1>3, <1>4, Zenon DEF SagaInv

\* The drive of an instance that has just been claimed.
LEMMA ClaimedDrive ==
    ASSUME SagaInv, NEW i \in Instances, status[i] \in Open,
           NEW d, d = [Idle EXCEPT !.at = "lead", !.was = status[i]]
    PROVE  /\ d \in Drives /\ DriveOK(d, log[i], undone[i], deploy.removable)
           /\ HolderOK(d, status[i], log[i])
<1>1. /\ d.at = "lead" /\ d.was = status[i] /\ d.seen = 0 /\ d.attempt = 0 /\ d.todo = {}
  BY Zenon DEF Idle
<1>2. /\ log[i] \in Seq(Events) /\ LogOK(log[i]) /\ status[i] \in Statuses
      /\ status[i] = Folded(log[i])
  BY LogTyped, Zenon DEF StatusOK, Open
<1>3. d \in Drives
  BY <1>2, IdleDrive, Zenon DEF Drives, Places
<1>4. status[i] = "compensating" => Started(log[i])
  BY <1>2, OpenLog, Zenon
<1>5. 0 <= Len(log[i])
  BY <1>2
<1>6. DriveOK(d, log[i], undone[i], deploy.removable)
  BY <1>1, <1>4, <1>5, Zenon DEF DriveOK
<1>7. HolderOK(d, status[i], log[i])
  BY <1>1, Zenon DEF HolderOK
<1> QED
  BY <1>3, <1>6, <1>7, Zenon

\* tickOnce claims a batch and begins its drives.
LEMMA TickKeeps ==
    ASSUME SagaInv, NEW c \in Coordinators, tickOnce(c)
    PROVE  SagaInv'
<1>1. PICK S \in SUBSET Instances :
        /\ ClaimPending(c, S)
        /\ drive' = [drive EXCEPT ![c] = [i \in Instances |->
                        IF i \in S THEN [Idle EXCEPT !.at = "lead", !.was = status[i]] ELSE Idle]]
  BY Zenon DEF tickOnce
<1>2. /\ UNCHANGED <<status, log, deploy, runVars, known, mishaps>>
      /\ lease' = [i \in Instances |-> IF i \in S THEN c ELSE lease[i]]
      /\ live' = [i \in Instances |-> i \in S \/ live[i]]
      /\ \A i \in S : status[i] \in Open
  BY <1>1, Zenon DEF tickOnce, ClaimPending, Claimable, envVars
<1>3. ASSUME NEW b \in Coordinators, NEW i \in Instances
      PROVE  /\ drive'[b][i] \in Drives
             /\ DriveOK(drive'[b][i], log[i], undone[i], deploy.removable)
             /\ lease'[i] = b => HolderOK(drive'[b][i], status[i], log[i])
  <2>1. CASE b # c
    <3>1. drive'[b][i] = drive[b][i] /\ (lease'[i] = b => lease[i] = b)
      BY <1>1, <1>2, <2>1, Zenon DEF SagaInv, SagaTypeOK
    <3> QED
      BY <3>1, LogTyped, Zenon
  <2>2. CASE b = c /\ i \in S
    <3>1. drive'[b][i] = [Idle EXCEPT !.at = "lead", !.was = status[i]]
      BY <1>1, <2>2, Zenon DEF SagaInv, SagaTypeOK
    <3> QED
      BY <1>2, <2>2, <3>1, ClaimedDrive, Zenon
  <2>3. CASE b = c /\ i \notin S
    <3>1. drive'[b][i] = Idle
      BY <1>1, <2>3, Zenon DEF SagaInv, SagaTypeOK
    <3> QED
      BY <3>1, LogTyped, IdleDrive, Zenon
  <2> QED
    BY <2>1, <2>2, <2>3, Zenon
<1>4. /\ lease' \in [Instances -> Coordinators \cup {Nobody}]
      /\ known' \in [Coordinators -> BOOLEAN] /\ mishaps' \in [Instances -> Nat]
      /\ \A b \in Coordinators : ~known'[b] => deploy.removable
  BY <1>2, Zenon DEF SagaInv, SagaTypeOK
<1>5. live' \in [Instances -> BOOLEAN]
  BY <1>2, Zenon DEF SagaInv, SagaTypeOK
<1>6. drive' \in [Coordinators -> [Instances -> Drives]]
  <2>1. drive' = [b \in Coordinators |-> drive'[b]]
    BY <1>1, Zenon DEF SagaInv, SagaTypeOK
  <2>2. \A b \in Coordinators : drive'[b] = [i \in Instances |-> drive'[b][i]]
    BY <1>1, Zenon DEF SagaInv, SagaTypeOK
  <2> QED
    BY <1>3, <2>1, <2>2, Zenon
<1> QED
  BY <1>2, <1>3, <1>4, <1>5, <1>6, ClaimsKeep, Zenon

\* A coordinator that crashes leaves its leases and locks behind.
LEMMA CrashKeeps ==
    ASSUME SagaInv, NEW c \in Coordinators, Crash(c)
    PROVE  SagaInv'
<1>1. /\ UNCHANGED <<status, log, deploy, runVars, lease, live>>
      /\ drive' = [drive EXCEPT ![c] = [i \in Instances |-> Idle]]
  BY Zenon DEF Crash, journalVars
<1>2. ASSUME NEW b \in Coordinators, NEW i \in Instances
      PROVE  /\ drive'[b][i] \in Drives
             /\ DriveOK(drive'[b][i], log[i], undone[i], deploy.removable)
             /\ lease'[i] = b => HolderOK(drive'[b][i], status[i], log[i])
  <2>1. drive'[b][i] = drive[b][i] \/ drive'[b][i] = Idle
    BY <1>1, Zenon DEF SagaInv, SagaTypeOK
  <2> QED
    BY <1>1, <2>1, LogTyped, IdleDrive, Zenon
<1>3. drive' \in [Coordinators -> [Instances -> Drives]]
  <2>1. drive' = [b \in Coordinators |-> drive'[b]]
    BY <1>1, Zenon DEF SagaInv, SagaTypeOK
  <2>2. \A b \in Coordinators : drive'[b] = [i \in Instances |-> drive'[b][i]]
    BY <1>1, Zenon DEF SagaInv, SagaTypeOK
  <2> QED
    BY <1>2, <2>1, <2>2, Zenon
<1>4. /\ known' \in [Coordinators -> BOOLEAN]
      /\ \A b \in Coordinators : ~known'[b] => deploy.removable
  BY Zenon DEF Crash, SagaInv, SagaTypeOK
<1>5. mishaps' \in [Instances -> Nat]
  BY DEF Crash, SagaInv, SagaTypeOK
<1>6. lease' \in [Instances -> Coordinators \cup {Nobody}] /\ live' \in [Instances -> BOOLEAN]
  BY <1>1, Zenon DEF SagaInv, SagaTypeOK
<1> QED
  BY <1>1, <1>2, <1>3, <1>4, <1>5, <1>6, ClaimsKeep, Zenon

\* What expires or gets lost changes no saga and no drive.
LEMMA ExpiryKeeps ==
    ASSUME SagaInv, NEW i \in Instances,
           Stall(i) \/ LeaseExpires(i) \/ LockExpires(i) \/ LockLost(i) \/ Overdue(i)
    PROVE  SagaInv'
<1>1. UNCHANGED <<status, log, lease, drive, known, deploy, runVars>>
  BY Zenon DEF Stall, LeaseExpires, LockExpires, LockLost, Overdue, Expire, journalVars, envVars
<1>2. live' \in [Instances -> BOOLEAN]
  BY Zenon DEF Stall, LeaseExpires, LockExpires, LockLost, Overdue, Expire, journalVars, SagaInv, SagaTypeOK
<1>3. mishaps' \in [Instances -> Nat]
  BY MishapTyped, Zenon DEF Stall, LeaseExpires, LockExpires, LockLost, Overdue, SagaInv, SagaTypeOK
<1>4. /\ drive' \in [Coordinators -> [Instances -> Drives]]
      /\ lease' \in [Instances -> Coordinators \cup {Nobody}]
      /\ known' \in [Coordinators -> BOOLEAN]
      /\ \A b \in Coordinators : ~known'[b] => deploy.removable
      /\ \A b \in Coordinators, j \in Instances :
            /\ DriveOK(drive'[b][j], log[j], undone[j], deploy.removable)
            /\ lease'[j] = b => HolderOK(drive'[b][j], status[j], log[j])
  BY <1>1, Zenon DEF SagaInv, SagaTypeOK
<1> QED
  BY <1>1, <1>2, <1>3, <1>4, ClaimsKeep, Zenon

\* Start enqueues a saga.
LEMMA EnrollKeeps ==
    ASSUME SagaInv, NEW i \in Instances, Start(i)
    PROVE  SagaInv'
<1>1. /\ status[i] = "absent" /\ status' = [status EXCEPT ![i] = "pending"]
      /\ UNCHANGED <<log, lease, live, drive, known, deploy, mishaps, runVars>>
  BY Zenon DEF Start, Enqueue, envVars
<1>2. SagaTypeOK'
  BY <1>1, Zenon DEF runVars, SagaInv, SagaTypeOK, Statuses, Open
<1>3. StatusOK("pending", log[i], undone[i], deploy.removable)
  <2>1. log[i] = <<>> /\ log[i] \in Seq(Events)
    BY <1>1, LogTyped, Zenon DEF StatusOK
  <2>2. \A n \in DOMAIN log[i] : log[i][n].kind # "StepCompensated"
    BY <2>1
  <2> QED
    BY <2>1, <2>2, FoldedIs, Zenon DEF StatusOK
<1>4. ASSUME NEW j \in Instances
      PROVE  (/\ LogOK(log[j])
              /\ StatusOK(status[j], log[j], undone[j], deploy.removable)
              /\ \A s \in Steps : undos[j][s] > 0 => Started(log[j]))'
  <2>1. status'[j] = IF j = i THEN "pending" ELSE status[j]
    BY <1>1, Zenon DEF SagaInv, SagaTypeOK
  <2> QED
    BY <1>1, <1>3, <2>1, Zenon DEF runVars, SagaInv
<1>5. ASSUME NEW c \in Coordinators, NEW j \in Instances
      PROVE  (/\ DriveOK(drive[c][j], log[j], undone[j], deploy.removable)
              /\ lease[j] = c => HolderOK(drive[c][j], status[j], log[j]))'
  <2>1. CASE j # i
    <3>1. status'[j] = status[j]
      BY <1>1, <2>1, Zenon DEF SagaInv, SagaTypeOK
    <3> QED
      BY <1>1, <3>1, LogTyped, Zenon DEF runVars
  <2>2. CASE j = i
    <3>1. status'[j] = "pending"
      BY <1>1, <2>2, Zenon DEF SagaInv, SagaTypeOK
    <3>2. lease[i] = c => HolderOK(drive[c][i], "pending", log[i])
      BY <1>1, LogTyped, Zenon DEF HolderOK, Open
    <3> QED
      BY <1>1, <2>2, <3>1, <3>2, LogTyped, Zenon DEF runVars
  <2> QED
    BY <2>1, <2>2, Zenon
<1>6. (\A c \in Coordinators : ~known[c] => deploy.removable)'
  BY <1>1, Zenon DEF SagaInv
<1> QED
  BY <1>2, <1>4, <1>5, <1>6, Zenon DEF SagaInv

----------------------------------------------------------------------------
(* The invariant.                                                              *)

\* Nothing happens.
LEMMA StutterKeeps == ASSUME SagaInv, UNCHANGED vars PROVE SagaInv'
<1>1. /\ UNCHANGED <<status, log, lease, live, drive, known, deploy, mishaps, ran, undos, undone>>
  BY Zenon DEF vars, journalVars, envVars, runVars
<1>2. SagaTypeOK'
  BY <1>1, Zenon DEF SagaInv, SagaTypeOK
<1> QED
  BY <1>1, <1>2, Zenon DEF SagaInv

\* Every step of the coordinators, the journal and the clock keeps the invariant.
LEMMA NextSagaInv == ASSUME Counting, SagaInv, [Next]_vars PROVE SagaInv'
<1>1. ASSUME NEW c \in Coordinators, NEW i \in Instances, DriveStep(c, i) PROVE SagaInv'
  BY <1>1, AcquireLeadKeeps, DriveOneKeeps, MarkTerminalKeeps, ExecuteKeeps, RunFailsKeeps,
     RunExpiresKeeps, GiveUpKeeps, CommitCompletedKeeps, CommitFailedKeeps, StartKeeps,
     RunCompensationKeeps, CompensateKeeps, RecordOutcomeKeeps, FinishWalkKeeps, Zenon
     DEF DriveStep
<1>2. ASSUME NEW c \in Coordinators, NEW i \in Instances, DriveMishap(c, i) PROVE SagaInv'
  BY <1>2, ExecuteKeeps, RunCompensationKeeps, GiveUpKeeps, RecordOutcomeKeeps, Zenon
     DEF DriveMishap
<1>3. ASSUME NEW c \in Coordinators, tickOnce(c) \/ Crash(c) PROVE SagaInv'
  BY <1>3, TickKeeps, CrashKeeps, Zenon
<1>4. ASSUME NEW i \in Instances,
             Start(i) \/ Stall(i) \/ LeaseExpires(i) \/ LockExpires(i) \/ LockLost(i) \/ Overdue(i)
      PROVE  SagaInv'
  BY <1>4, EnrollKeeps, ExpiryKeeps, Zenon
<1>5. CASE Quiescent \/ UNCHANGED vars
  BY <1>5, StutterKeeps, Zenon DEF Quiescent
<1> QED
  BY <1>1, <1>2, <1>3, <1>4, <1>5, Zenon DEF Next

----------------------------------------------------------------------------
(* The refinement of SagaPromise.                                              *)

Done == [i \in Instances |-> cursor(log[i])]

PromiseStep == [Promise!Next]_<<status, Done>>

\* An event that does not complete a step does not show in the promise.
LEMMA NotDone ==
    ASSUME SagaInv, NEW i \in Instances, NEW l, log' = [log EXCEPT ![i] = l], cursor(l) = cursor(log[i])
    PROVE  Done' = Done
  BY Zenon DEF Done, SagaInv, SagaTypeOK

\* A drive closes its saga: which end it comes to depends on where it was.
LEMMA ClosesAsPromised ==
    ASSUME SagaInv, NEW c \in Coordinators, NEW i \in Instances, markTerminal(c, i)
    PROVE  PromiseStep
<1> DEFINE w == drive[c][i].want
<1>1. CASE UNCHANGED journalVars
  BY <1>1, Zenon DEF journalVars, Done, PromiseStep
<1>2. CASE /\ CanTransitionTo(status[i], w)
           /\ status' = [status EXCEPT ![i] = w]
           /\ log' = [log EXCEPT ![i] = Append(@, Event(w))]
  <2>1. /\ log[i] \in Seq(Events) /\ w \in Terminal
        /\ w = "succeeded" => cursor(log[i]) = NSteps
    BY LogTyped, Zenon DEF markTerminal, At, DriveOK
  <2>2. Event(w) \in Events /\ Event(w).kind # "StepCompleted"
    BY <2>1, Zenon DEF Event, Events, Kinds, Terminal
  <2>3. log' = [log EXCEPT ![i] = Append(log[i], Event(w))]
    BY <1>2, Zenon
  <2>4. Done' = Done
    BY <2>1, <2>2, <2>3, CursorStays, NotDone, Zenon
  <2>5. status[i] \in Open /\ w \in statusTransitions[status[i]]
    BY <1>2, Zenon DEF CanTransitionTo
  <2>6. /\ w = "succeeded" => status[i] = "running"
        /\ w = "failed" => status[i] \in {"pending", "running"}
        /\ w \in {"compensated", "compensation_failed"} => status[i] = "compensating"
    BY <2>5 DEF Open, statusTransitions
  <2> HIDE DEF w
  <2>7. CASE w = "succeeded"
    <3>1. Promise!Succeed(i)
      BY <1>2, <2>1, <2>4, <2>6, <2>7, Zenon DEF Promise!Succeed, Promise!Move, Done
    <3> QED
      BY <3>1, Zenon DEF Promise!Next, PromiseStep
  <2>8. CASE w = "failed"
    <3>1. Promise!Fail(i)
      BY <1>2, <2>4, <2>6, <2>8, Zenon DEF Promise!Fail, Promise!Move, Done
    <3> QED
      BY <3>1, Zenon DEF Promise!Next, PromiseStep
  <2>9. CASE w \in {"compensated", "compensation_failed"}
    <3>1. Promise!EndRollback(i)
      BY <1>2, <2>4, <2>6, <2>9, Zenon DEF Promise!EndRollback, Promise!Move, Done
    <3> QED
      BY <3>1, Zenon DEF Promise!Next, PromiseStep
  <2>10. CASE w = "expired"
    <3>1. Promise!Expire(i)
      BY <1>2, <2>4, <2>5, <2>10, Zenon DEF Promise!Expire, Promise!Move, Done, Open
    <3> QED
      BY <3>1, Zenon DEF Promise!Next, PromiseStep
  <2> QED
    BY <2>1, <2>7, <2>8, <2>9, <2>10, Zenon DEF Terminal
<1> QED
  BY <1>1, <1>2, Zenon DEF markTerminal, MarkTerminal

\* A step is committed, with or without the success of the saga.
LEMMA AdvancesAsPromised ==
    ASSUME Counting, SagaInv, NEW c \in Coordinators, NEW i \in Instances, commitStepCompleted(c, i)
    PROVE  PromiseStep
<1> DEFINE e == StepEvent("StepCompleted", NextStep(c, i))
           l == Append(log[i], e)
           m == Append(l, Event("succeeded"))
<1>1. CASE UNCHANGED journalVars
  BY <1>1, Zenon DEF journalVars, Done, PromiseStep
<1>2. CASE Record(c, i, e) \/ (NextStep(c, i) = NSteps /\ AppendAndMark(c, i, e, "succeeded"))
  <2>1. lease[i] = c /\ drive[c][i].at \in {"preflight", "run", "commit", "failed"}
    BY <1>2, Zenon DEF commitStepCompleted, At, Record, AppendAndMark, CanAppend, fenced
  <2>2. /\ status[i] \in {"pending", "running"} /\ log[i] \in Seq(Events)
        /\ \A n \in DOMAIN log[i] : log[i][n].kind = "StepCompleted"
        /\ cursor(log[i]) = Len(log[i]) /\ NextStep(c, i) = Len(log[i]) + 1 /\ Len(log[i]) < NSteps
    BY <2>1, HolderForward, LogTyped, Zenon
  <2>3. Len(log[i]) + 1 \in Nat
    BY <2>2
  <2>4. /\ e \in Events /\ e.kind = "StepCompleted"
        /\ Event("succeeded") \in Events /\ Event("succeeded").kind # "StepCompleted"
    BY <2>2, <2>3, Zenon DEF StepEvent, Event, Events, Kinds, StepKinds, Terminal
  <2> HIDE DEF e
  <2>5. l \in Seq(Events) /\ cursor(l) = Len(log[i]) + 1 /\ cursor(m) = Len(log[i]) + 1
    <3>1. l \in Seq(Events) /\ cursor(l) = Len(log[i]) + 1
      BY <2>2, <2>4, Appended, CursorMoves, Zenon
    <3> HIDE DEF l
    <3> QED
      BY <2>4, <3>1, CursorStays, Zenon
  <2>6. /\ status' = [status EXCEPT ![i] = "running"] /\ log' = [log EXCEPT ![i] = l]
        \/ /\ NextStep(c, i) = NSteps
           /\ status' = [status EXCEPT ![i] = "succeeded"] /\ log' = [log EXCEPT ![i] = m]
    BY <1>2, <2>4, Zenon DEF Record, AppendAndMark, Projected
  <2>7. Done[i] = Len(log[i]) /\ Done' = [Done EXCEPT ![i] = Len(log[i]) + 1]
    BY <2>2, <2>5, <2>6, Zenon DEF Done, SagaInv, SagaTypeOK
  <2>8. Promise!Advance(i)
    <3>1. /\ Done[i] < NSteps /\ Done' = [Done EXCEPT ![i] = Done[i] + 1]
          /\ NextStep(c, i) = Done[i] + 1
      BY <2>2, <2>7, Zenon
    <3> QED
      BY <2>2, <2>6, <3>1, Zenon DEF Promise!Advance, Promise!Move, Done
  <2> QED
    BY <2>8, Zenon DEF Promise!Next, PromiseStep
<1> QED
  BY <1>1, <1>2, Zenon DEF commitStepCompleted

\* A step fails for good, and the saga with it: there is nothing to undo.
LEMMA FailsAsPromised ==
    ASSUME Counting, SagaInv, NEW c \in Coordinators, NEW i \in Instances, commitStepFailed(c, i)
    PROVE  PromiseStep
<1> DEFINE e == StepEvent("StepFailed", NextStep(c, i))
           l == Append(log[i], e)
           m == Append(l, Event("failed"))
<1>1. CASE UNCHANGED journalVars
  BY <1>1, Zenon DEF journalVars, Done, PromiseStep
<1>2. CASE AppendAndMark(c, i, e, "failed")
  <2>1. lease[i] = c /\ drive[c][i].at \in {"preflight", "run", "commit", "failed"}
    BY <1>2, Zenon DEF commitStepFailed, At, AppendAndMark, CanAppend, fenced
  <2>2. /\ status[i] \in {"pending", "running"} /\ log[i] \in Seq(Events)
        /\ NextStep(c, i) = Len(log[i]) + 1
    BY <2>1, HolderForward, LogTyped, Zenon
  <2>3. Len(log[i]) + 1 \in Nat
    BY <2>2
  <2>4. /\ e \in Events /\ e.kind = "StepFailed"
        /\ Event("failed") \in Events /\ Event("failed").kind # "StepCompleted"
    BY <2>2, <2>3, Zenon DEF StepEvent, Event, Events, Kinds, StepKinds, Terminal
  <2> HIDE DEF e
  <2>5. l \in Seq(Events) /\ cursor(l) = cursor(log[i]) /\ cursor(m) = cursor(log[i])
    <3>1. l \in Seq(Events) /\ cursor(l) = cursor(log[i])
      BY <2>2, <2>4, Appended, CursorStays, Zenon
    <3> HIDE DEF l
    <3> QED
      BY <2>4, <3>1, CursorStays, Zenon
  <2>6. \/ status' = [status EXCEPT ![i] = "running"] /\ log' = [log EXCEPT ![i] = l]
        \/ status' = [status EXCEPT ![i] = "failed"] /\ log' = [log EXCEPT ![i] = m]
    BY <1>2, <2>4, Zenon DEF AppendAndMark, Projected
  <2>7. Done' = Done
    BY <2>5, <2>6, NotDone, Zenon
  <2>8. Promise!Fail(i)
    BY <2>2, <2>6, <2>7, Zenon DEF Promise!Fail, Promise!Move, Done
  <2> QED
    BY <2>8, Zenon DEF Promise!Next, PromiseStep
<1> QED
  BY <1>1, <1>2, Zenon DEF commitStepFailed

\* A rollback is declared, and there is something to roll back.
LEMMA RollsBackAsPromised ==
    ASSUME Counting, SagaInv, NEW c \in Coordinators, NEW i \in Instances,
           appendCompensationStarted(c, i)
    PROVE  PromiseStep
<1> DEFINE e == Event("CompensationStarted")
<1>1. CASE UNCHANGED journalVars
  BY <1>1, Zenon DEF journalVars, Done, PromiseStep
<1>2. CASE Record(c, i, e)
  <2>1. lease[i] = c /\ drive[c][i].at \in {"preflight", "run", "commit", "failed"}
    BY <1>2, Zenon DEF appendCompensationStarted, At, Record, CanAppend, fenced
  <2>2. /\ History(c, i) = log[i] /\ log[i] \in Seq(Events)
        /\ cursor(log[i]) = Len(log[i])
    BY <2>1, HolderForward, LogTyped, Zenon
  <2>3. e \in Events /\ e.kind = "CompensationStarted"
    BY Zenon DEF Event, Events, Kinds
  <2>4. log[i] # <<>>
    <3>1. PICK n \in DOMAIN log[i] : TRUE
      BY <2>2, Zenon DEF appendCompensationStarted, shouldCompensate, KindsOf
    <3> QED
      BY <2>2, <3>1
  <2>5. cursor(log[i]) > 0
    BY <2>2, <2>4
  <2> HIDE DEF e
  <2>6. /\ status' = [status EXCEPT ![i] = "compensating"]
        /\ log' = [log EXCEPT ![i] = Append(log[i], e)]
    BY <1>2, <2>3, Zenon DEF Record, Projected
  <2>7. Done' = Done
    BY <2>2, <2>3, <2>6, CursorStays, NotDone, Zenon
  <2>8. status[i] \in Open /\ "compensating" \in statusTransitions[status[i]]
    BY <1>2, <2>3, Zenon DEF Record, CanAppend, InPhase, CanTransitionTo
  <2>9. status[i] = "running"
    BY <2>8 DEF Open, statusTransitions
  <2>10. Promise!RollBack(i)
    BY <2>5, <2>6, <2>7, <2>9, Zenon DEF Promise!RollBack, Promise!Move, Done
  <2> QED
    BY <2>10, Zenon DEF Promise!Next, PromiseStep
<1> QED
  BY <1>1, <1>2, Zenon DEF appendCompensationStarted

\* The producer does not see the outcome of a compensation.
LEMMA RecordsAsPromised ==
    ASSUME SagaInv, NEW c \in Coordinators, NEW i \in Instances, RecordOutcome(c, i)
    PROVE  PromiseStep
<1> DEFINE e == Outcome(c, i)
<1>1. CASE UNCHANGED journalVars
  BY <1>1, Zenon DEF journalVars, Done, PromiseStep
<1>2. CASE Record(c, i, e)
  <2>1. /\ log[i] \in Seq(Events) /\ drive[c][i].step \in Nat
        /\ e.kind \in {"StepCompensated", "StepCompensationFailed"} /\ e.step = drive[c][i].step
    BY LogTyped, Zenon DEF Drives, Outcome, StepEvent
  <2>2. e \in Events /\ e.kind # "StepCompleted"
    BY <2>1, Zenon DEF Outcome, StepEvent, Events, Kinds, StepKinds
  <2> HIDE DEF e
  <2>3. status' = [status EXCEPT ![i] = status[i]] /\ log' = [log EXCEPT ![i] = Append(log[i], e)]
    BY <1>2, <2>1, Zenon DEF Record, Projected
  <2>4. status' = status
    BY <2>3, Zenon DEF SagaInv, SagaTypeOK
  <2>5. Done' = Done
    BY <2>1, <2>2, <2>3, CursorStays, NotDone, Zenon
  <2> QED
    BY <2>4, <2>5, Zenon DEF PromiseStep
<1> QED
  BY <1>1, <1>2, Zenon DEF RecordOutcome

\* Enrolling is a step of the promise.
LEMMA EnrollsAsPromised ==
    ASSUME NEW i \in Instances, Start(i)
    PROVE  PromiseStep
<1>1. Promise!Enroll(i)
  BY Zenon DEF Start, Enqueue, Promise!Enroll, Promise!Move
<1> QED
  BY <1>1, Zenon DEF Promise!Next, PromiseStep

\* The steps that leave the status and the log of every saga alone.
LEMMA QuietAsPromised == ASSUME UNCHANGED <<status, log>> PROVE PromiseStep
  BY Zenon DEF Done, PromiseStep

\* Every step is one of the promise, or one it does not see.
LEMMA NextAsPromised == ASSUME Counting, SagaInv, [Next]_vars PROVE PromiseStep
<1>1. ASSUME NEW c \in Coordinators, NEW i \in Instances, DriveStep(c, i) PROVE PromiseStep
  <2>1. CASE /\ ~markTerminal(c, i) /\ ~commitStepCompleted(c, i) /\ ~commitStepFailed(c, i)
             /\ ~appendCompensationStarted(c, i) /\ ~RecordOutcome(c, i)
    <3>1. UNCHANGED journalVars
      BY <1>1, <2>1, Zenon DEF DriveStep, acquireLead, driveOne, Execute, RunSucceeds, RunFails,
         RunExpires, LeaseLost, runCompensation, compensateOneStep, FinishWalk
    <3> QED
      BY <3>1, QuietAsPromised, Zenon DEF journalVars
  <2> QED
    BY <2>1, ClosesAsPromised, AdvancesAsPromised, FailsAsPromised, RollsBackAsPromised,
       RecordsAsPromised, Zenon
<1>2. ASSUME NEW c \in Coordinators, NEW i \in Instances, DriveMishap(c, i) PROVE PromiseStep
  <2>1. UNCHANGED journalVars
    BY <1>2, Zenon DEF DriveMishap, HeartbeatError, WalkHeartbeatError, Canceled, DriveError, RecordError
  <2> QED
    BY <2>1, QuietAsPromised, Zenon DEF journalVars
<1>3. ASSUME NEW c \in Coordinators, tickOnce(c) \/ Crash(c) PROVE PromiseStep
  BY <1>3, QuietAsPromised, Zenon DEF tickOnce, ClaimPending, Crash, journalVars
<1>4. ASSUME NEW i \in Instances,
             Stall(i) \/ LeaseExpires(i) \/ LockExpires(i) \/ LockLost(i) \/ Overdue(i)
      PROVE  PromiseStep
  BY <1>4, QuietAsPromised, Zenon DEF Stall, LeaseExpires, LockExpires, LockLost, Overdue, Expire,
     journalVars
<1>5. CASE Quiescent \/ UNCHANGED vars
  BY <1>5, QuietAsPromised, Zenon DEF Quiescent, vars, journalVars
<1> QED
  BY <1>1, <1>2, <1>3, <1>4, <1>5, EnrollsAsPromised, Zenon DEF Next

----------------------------------------------------------------------------
(* The account of invocations.  A step of a saga has credit for MaxAttempts    *)
(* invocations of Run, and one of Compensate, per mishap and once more while   *)
(* it is engaged; the invocations made, and those that the drives under way    *)
(* may still make, are paid from it.                                           *)

\* A step that needs to be run, as far as the log goes.
MayRun(l, s) == s > cursor(l) /\ ~FoldFails(l)

\* The attempts at s that the drive d may still make.
RunsLeft(d, l, s) ==
    {k \in 1 .. MaxAttempts :
        /\ k > d.attempt
        /\ \/ d.at \in {"lead", "begin"} /\ d.was # "compensating" /\ MayRun(l, s)
           \/ d.at \in {"preflight", "run"} /\ cursor(SubSeq(l, 1, d.seen)) + 1 = s}

\* The drive d, which has the lease, works on s or may come to.
RunsNow(d, st, l, s) ==
    \/ d.at \in {"lead", "begin"}
    \/ d.at \in {"preflight", "run", "commit", "failed"} /\ cursor(SubSeq(l, 1, d.seen)) + 1 = s
    \/ d.at = "mark" /\ CanTransitionTo(st, d.want)

\* A round of s is in progress under the drives dr and the lease holder h, or s needs none.
RunEngaged(dr, h, st, l, s) ==
    \/ st \notin {"pending", "running"} \/ ~MayRun(l, s)
    \/ h \in Coordinators /\ RunsNow(dr[h], st, l, s)

Waits(l, S, s) == \E n \in S : l[n].step = s

\* The drive d may still undo s.
UndoLeft(d, l, s) ==
    \/ d.at \in {"lead", "begin"} /\ d.was = "compensating" /\ s \notin settled(l)
    \/ d.at = "rollback" /\ Waits(l, collectCommittedSteps(SubSeq(l, 1, d.seen)), s)
    \/ d.at \in {"walk", "record"} /\ Waits(l, d.todo, s)

UndosLeft(d, l, s) == IF UndoLeft(d, l, s) THEN 1 .. 1 ELSE {}

UndoesNow(d, st, l, s) ==
    \/ UndoLeft(d, l, s)
    \/ d.at = "record" /\ d.step = s
    \/ d.at = "mark" /\ CanTransitionTo(st, d.want)

UndoEngaged(dr, h, st, l, s) ==
    \/ st # "compensating" \/ s \in settled(l)
    \/ h \in Coordinators /\ UndoesNow(dr[h], st, l, s)

\* x[c] are the invocations that c may still make, a the invocations of a round.
Pot(x, a) == {p \in Coordinators \X (1 .. a) : p[2] \in x[p[1]]}

Paid(n, x, m, e, a) == n + Cardinality(Pot(x, a)) <= a * (m + IF e THEN 1 ELSE 0)

RunsPaid(n, dr, h, st, l, m, s) ==
    Paid(n, [b \in Coordinators |-> RunsLeft(dr[b], l, s)], m, RunEngaged(dr, h, st, l, s), MaxAttempts)

UndosPaid(n, dr, h, st, l, m, s) ==
    Paid(n, [b \in Coordinators |-> UndosLeft(dr[b], l, s)], m, UndoEngaged(dr, h, st, l, s), 1)

\* The drives of i, and the coordinator that has its lease.
DrivesOf(i) == [b \in Coordinators |-> drive[b][i]]
Holder(i) == IF live[i] THEN lease[i] ELSE Nobody

Accounts ==
    \A i \in Instances :
        /\ status[i] = "absent" =>
            /\ \A c \in Coordinators : At(c, i, "idle")
            /\ \A s \in Steps : ran[i][s] = 0
        /\ \A s \in Steps :
            /\ RunsPaid(ran[i][s], DrivesOf(i), Holder(i), status[i], log[i], mishaps[i], s)
            /\ UndosPaid(undos[i][s], DrivesOf(i), Holder(i), status[i], log[i], mishaps[i], s)

\* What the library has on the sizes of sets, again as a hypothesis.
Measured(U) ==
    \A P \in SUBSET U :
        /\ Cardinality(P) \in Nat
        /\ \A Q \in SUBSET P : Cardinality(P) = Cardinality(Q) + Cardinality(P \ Q)
        /\ \A Q \in SUBSET U : Cardinality(P \cup Q) <= Cardinality(P) + Cardinality(Q)

Sizes ==
    /\ \A a \in Nat : Measured(Coordinators \X (1 .. a))
    /\ \A c \in Coordinators, a \in Nat : Cardinality({c} \X (1 .. a)) = a
    /\ \A x : Cardinality({x}) = 1
    /\ Cardinality({}) = 0

\* Nobody may call more; c has made the call q; c, all of whose calls were left, has none left.
NoMore(x, y) == \A b \in Coordinators : y[b] \subseteq x[b]
Called(x, y, c, q) == q \in x[c] /\ q \notin y[c]
GivenUp(x, y, c, a) == x[c] = 1 .. a /\ y[c] = {}

\* A round in progress goes on, or a mishap pays for it.
Carries(e, f, m, k) == e => f \/ m < k

\* What a further round of a invocations is worth.
LEMMA Credit ==
    ASSUME NEW a \in Nat, NEW k \in Nat, NEW j \in Nat
    PROVE  a * k \in Nat /\ a * (k + 1) = a * k + a /\ (k <= j => a * k <= a * j)
<1>1. a * k \in Nat /\ a * j \in Nat /\ a * (k + 1) = a * k + a
  OBVIOUS
<1>2. ASSUME k <= j PROVE a * k <= a * j
  <2>1. PICK q \in Nat : j = k + q
    BY <1>2
  <2>2. a * q \in Nat /\ a * (k + q) = a * k + a * q
    OBVIOUS
  <2> QED
    BY <1>1, <2>1, <2>2
<1> QED
  BY <1>1, <1>2, Zenon

\* Who may call less often has no more calls left.
LEMMA PotShrinks ==
    ASSUME Sizes, NEW a \in Nat, NEW x, NEW y, NoMore(x, y)
    PROVE  /\ Pot(x, a) \in SUBSET (Coordinators \X (1 .. a)) /\ Pot(y, a) \in SUBSET Pot(x, a)
           /\ Cardinality(Pot(x, a)) \in Nat /\ Cardinality(Pot(y, a)) \in Nat
           /\ Cardinality(Pot(y, a)) <= Cardinality(Pot(x, a))
<1>1. /\ Pot(x, a) \in SUBSET (Coordinators \X (1 .. a))
      /\ Pot(y, a) \in SUBSET (Coordinators \X (1 .. a)) /\ Pot(y, a) \in SUBSET Pot(x, a)
  BY Zenon DEF Pot, NoMore
<1>2. /\ Cardinality(Pot(x, a)) \in Nat /\ Cardinality(Pot(y, a)) \in Nat
      /\ Cardinality(Pot(x, a) \ Pot(y, a)) \in Nat
      /\ Cardinality(Pot(x, a)) = Cardinality(Pot(y, a)) + Cardinality(Pot(x, a) \ Pot(y, a))
  <2>1. Pot(x, a) \ Pot(y, a) \in SUBSET (Coordinators \X (1 .. a))
    BY <1>1, Zenon
  <2>2. Measured(Coordinators \X (1 .. a))
    BY Zenon DEF Sizes
  <2> QED
    BY <1>1, <2>1, <2>2, Zenon DEF Measured
<1> QED
  BY <1>1, <1>2

\* What is paid for is no more than a round for each mishap and one more.
LEMMA RoundsBound ==
    ASSUME Sizes, NEW n \in Nat, NEW m \in Nat, NEW a \in Nat, NEW x, NEW e, Paid(n, x, m, e, a)
    PROVE  n <= a * (1 + m)
<1>1. Cardinality(Pot(x, a)) \in Nat
  BY PotShrinks DEF NoMore
<1>2. n + Cardinality(Pot(x, a)) <= a * (m + IF e THEN 1 ELSE 0)
  BY Zenon DEF Paid
<1>3. a * m \in Nat /\ a * (m + 1) = a * m + a
  BY Credit
<1>4. m + 0 = m /\ 1 + m = m + 1
  OBVIOUS
<1>5. n + Cardinality(Pot(x, a)) <= a * m + a
  BY <1>1, <1>2, <1>3, <1>4
<1> QED
  BY <1>1, <1>3, <1>4, <1>5

\* Nothing is called, and no credit is lost.
LEMMA PaysOn ==
    ASSUME Sizes, NEW a \in Nat, NEW x, NEW y, NEW n \in Nat, NEW m \in Nat, NEW k \in Nat,
           NEW e \in BOOLEAN, NEW f \in BOOLEAN,
           Paid(n, x, m, e, a), m <= k, Carries(e, f, m, k),
           NoMore(x, y)
    PROVE  Paid(n, y, k, f, a)
<1>1. /\ Cardinality(Pot(x, a)) \in Nat /\ Cardinality(Pot(y, a)) \in Nat
      /\ Cardinality(Pot(y, a)) <= Cardinality(Pot(x, a))
  BY PotShrinks, Zenon
<1> DEFINE old == m + IF e THEN 1 ELSE 0
           new == k + IF f THEN 1 ELSE 0
<1>2. old \in Nat /\ new \in Nat /\ old <= new
  BY DEF Carries
<1>3. n + Cardinality(Pot(x, a)) <= a * old
  BY Zenon DEF Paid
<1> HIDE DEF old, new
<1>4. a * old \in Nat /\ a * new \in Nat /\ a * old <= a * new
  BY <1>2, Credit, Zenon
<1>5. n + Cardinality(Pot(y, a)) <= a * new
  BY <1>1, <1>3, <1>4
<1> QED
  BY <1>5, Zenon DEF Paid, new

\* One call is made by c, and it is one of those it could still make.
LEMMA PaysForOne ==
    ASSUME Sizes, NEW a \in Nat, NEW x, NEW y, NEW n \in Nat, NEW m \in Nat, NEW k \in Nat,
           NEW e \in BOOLEAN, NEW f \in BOOLEAN,
           Paid(n, x, m, e, a), m <= k, e => f \/ m < k,
           NoMore(x, y), NEW c \in Coordinators, NEW q \in 1 .. a, Called(x, y, c, q)
    PROVE  Paid(n + 1, y, k, f, a)
<1> DEFINE P == Pot(x, a)
           Q == Pot(y, a)
<1>1. /\ P \in SUBSET (Coordinators \X (1 .. a)) /\ Q \in SUBSET (P \ {<<c, q>>}) /\ <<c, q>> \in P
  BY DEF Pot, NoMore, Called
<1> HIDE DEF P, Q
<1>2. /\ Cardinality(P) \in Nat /\ Cardinality(Q) \in Nat /\ Cardinality(P) = 1 + Cardinality(P \ {<<c, q>>})
      /\ Cardinality(P \ {<<c, q>>}) \in Nat
      /\ Cardinality(P \ {<<c, q>>}) = Cardinality(Q) + Cardinality((P \ {<<c, q>>}) \ Q)
      /\ Cardinality((P \ {<<c, q>>}) \ Q) \in Nat
  <2>1. /\ {<<c, q>>} \in SUBSET P /\ P \ {<<c, q>>} \in SUBSET (Coordinators \X (1 .. a))
        /\ Q \in SUBSET (Coordinators \X (1 .. a))
        /\ (P \ {<<c, q>>}) \ Q \in SUBSET (Coordinators \X (1 .. a))
    BY <1>1, Zenon
  <2>2. Measured(Coordinators \X (1 .. a)) /\ Cardinality({<<c, q>>}) = 1
    BY Zenon DEF Sizes
  <2>3. Cardinality(P) = Cardinality({<<c, q>>}) + Cardinality(P \ {<<c, q>>})
    BY <1>1, <2>1, <2>2, Zenon DEF Measured
  <2> QED
    BY <1>1, <2>1, <2>2, <2>3, Zenon DEF Measured
<1> DEFINE old == m + IF e THEN 1 ELSE 0
           new == k + IF f THEN 1 ELSE 0
<1>3. old \in Nat /\ new \in Nat /\ old <= new
  OBVIOUS
<1>4. n + Cardinality(P) <= a * old
  BY Zenon DEF Paid, P
<1> HIDE DEF old, new
<1>5. a * old \in Nat /\ a * new \in Nat /\ a * old <= a * new
  BY <1>3, Credit, Zenon
<1>6. n + 1 + Cardinality(Q) <= a * new
  BY <1>2, <1>4, <1>5
<1> QED
  BY <1>6, Zenon DEF Paid, new, Q

\* The round is given up by c, which had made no call of it.
LEMMA PaysBack ==
    ASSUME Sizes, NEW a \in Nat, NEW x, NEW y, NEW n \in Nat, NEW m \in Nat, NEW k \in Nat,
           NEW e \in BOOLEAN, NEW f \in BOOLEAN,
           Paid(n, x, m, e, a), m <= k,
           NoMore(x, y), NEW c \in Coordinators, GivenUp(x, y, c, a)
    PROVE  Paid(n, y, k, f, a)
<1> DEFINE P == Pot(x, a)
           Q == Pot(y, a)
           S == {c} \X (1 .. a)
<1>1. P \in SUBSET (Coordinators \X (1 .. a)) /\ Q \in SUBSET (P \ S) /\ S \in SUBSET P
  BY Zenon DEF Pot, NoMore, GivenUp
<1> HIDE DEF P, Q, S
<1>2. /\ Cardinality(P) \in Nat /\ Cardinality(Q) \in Nat /\ Cardinality(P) = a + Cardinality(P \ S)
      /\ Cardinality(P \ S) \in Nat
      /\ Cardinality(P \ S) = Cardinality(Q) + Cardinality((P \ S) \ Q)
      /\ Cardinality((P \ S) \ Q) \in Nat
  <2>1. /\ P \ S \in SUBSET (Coordinators \X (1 .. a))
        /\ Q \in SUBSET (Coordinators \X (1 .. a))
        /\ (P \ S) \ Q \in SUBSET (Coordinators \X (1 .. a))
    BY <1>1, Zenon
  <2>2. Measured(Coordinators \X (1 .. a)) /\ Cardinality(S) = a
    BY Zenon DEF Sizes, S
  <2>3. Cardinality(P) = Cardinality(S) + Cardinality(P \ S)
    BY <1>1, <2>1, <2>2, Zenon DEF Measured
  <2> QED
    BY <1>1, <2>1, <2>2, <2>3, Zenon DEF Measured
<1> DEFINE new == k + IF f THEN 1 ELSE 0
<1>3. m \in Nat /\ new \in Nat /\ m <= new
  OBVIOUS
<1>4. n + Cardinality(P) <= a * (m + 1)
  <2>1. CASE e
    BY <2>1, Zenon DEF Paid, P
  <2>2. CASE ~e
    <3>1. n + Cardinality(P) <= a * (m + 0)
      BY <2>2, Zenon DEF Paid, P
    <3>2. m + 0 = m
      OBVIOUS
    <3>3. a * m \in Nat /\ a * (m + 1) = a * m + a
      BY Credit, Zenon
    <3> QED
      BY <1>2, <3>1, <3>2, <3>3
  <2> QED
    BY <2>1, <2>2, Zenon
<1> HIDE DEF new
<1>5. /\ a * m \in Nat /\ a * (m + 1) = a * m + a
      /\ a * new \in Nat /\ a * m <= a * new
  BY <1>3, Credit, Zenon
<1>6. n + Cardinality(Q) <= a * new
  BY <1>2, <1>4, <1>5
<1> QED
  BY <1>6, Zenon DEF Paid, new, Q

\* A round begins, with c.
LEMMA PaysForRound ==
    ASSUME Sizes, NEW a \in Nat, NEW x, NEW y, NEW n \in Nat, NEW m \in Nat, NEW k \in Nat,
           Paid(n, x, m, FALSE, a), m <= k,
           NEW c \in Coordinators, \A b \in Coordinators \ {c} : y[b] \subseteq x[b]
    PROVE  Paid(n, y, k, TRUE, a)
<1> DEFINE P == Pot(x, a)
           Q == Pot(y, a)
           S == {c} \X (1 .. a)
<1>1. /\ P \in SUBSET (Coordinators \X (1 .. a)) /\ S \in SUBSET (Coordinators \X (1 .. a))
      /\ Q \in SUBSET (P \cup S)
  BY Zenon DEF Pot
<1> HIDE DEF P, Q, S
<1>2. /\ Cardinality(P) \in Nat /\ Cardinality(Q) \in Nat /\ Cardinality(P \cup S) \in Nat
      /\ Cardinality(P \cup S) <= Cardinality(P) + a
      /\ Cardinality(P \cup S) = Cardinality(Q) + Cardinality((P \cup S) \ Q)
      /\ Cardinality((P \cup S) \ Q) \in Nat
  <2>1. /\ P \cup S \in SUBSET (Coordinators \X (1 .. a))
        /\ Q \in SUBSET (Coordinators \X (1 .. a))
        /\ (P \cup S) \ Q \in SUBSET (Coordinators \X (1 .. a))
    BY <1>1, Zenon
  <2>2. Measured(Coordinators \X (1 .. a)) /\ Cardinality(S) = a
    BY Zenon DEF Sizes, S
  <2>3. Cardinality(P \cup S) <= Cardinality(P) + Cardinality(S)
    BY <1>1, <2>1, <2>2, Zenon DEF Measured
  <2> QED
    BY <1>1, <2>1, <2>2, <2>3, Zenon DEF Measured
<1>3. n + Cardinality(P) <= a * (m + 0)
  BY Zenon DEF Paid, P
<1>4. m + 0 = m /\ k + 1 \in Nat /\ m <= k
  OBVIOUS
<1>5. a * m \in Nat /\ a * k \in Nat /\ a * m <= a * k /\ a * (k + 1) = a * k + a
  BY <1>4, Credit, Zenon
<1>6. n + Cardinality(Q) <= a * (k + 1)
  BY <1>2, <1>3, <1>4, <1>5
<1> QED
  BY <1>6, Zenon DEF Paid, Q

\* Nothing was called, and nothing will be.
LEMMA NothingToPay ==
    ASSUME Sizes, NEW a \in Nat, NEW x, NEW m \in Nat, NEW f \in BOOLEAN,
           \A b \in Coordinators : x[b] = {}
    PROVE  Paid(0, x, m, f, a)
<1>1. Pot(x, a) = {}
  BY Zenon DEF Pot
<1>2. Cardinality(Pot(x, a)) = 0
  BY <1>1, Zenon DEF Sizes
<1> DEFINE new == m + IF f THEN 1 ELSE 0
<1>3. new \in Nat
  OBVIOUS
<1> HIDE DEF new
<1>4. a * new \in Nat
  BY <1>3
<1>5. 0 + Cardinality(Pot(x, a)) <= a * new
  BY <1>2, <1>4
<1> QED
  BY <1>5, Zenon DEF Paid, new

\* The drive old goes on as d, and the round of s in progress under it goes on or is given
\* up before any call.
RunKept(old, d, st, l, s) ==
    RunsNow(old, st, l, s) =>
        \/ RunsNow(d, st, l, s) \/ st \notin {"pending", "running"} \/ ~MayRun(l, s)
        \/ RunsLeft(old, l, s) = 1 .. MaxAttempts /\ RunsLeft(d, l, s) = {}

UndoKept(old, d, st, l, s) ==
    UndoesNow(old, st, l, s) =>
        \/ UndoesNow(d, st, l, s) \/ st # "compensating" \/ s \in settled(l)
        \/ UndoLeft(old, l, s) /\ ~UndoLeft(d, l, s)

\* The drive of c becomes d, the others stay.
Turns(dr, dq, c, d) == \A b \in Coordinators : dq[b] = IF b = c THEN d ELSE dr[b]

\* The drive of c turns to d without a call of Run: the calls are still paid for.
LEMMA RunsStayPaid ==
    ASSUME Sizes, NEW dr, NEW dq, NEW c \in Coordinators, NEW d, NEW h, NEW st, NEW l, NEW s,
           NEW n \in Nat, NEW m \in Nat, NEW k \in Nat, m <= k,
           Turns(dr, dq, c, d),
           RunsPaid(n, dr, h, st, l, m, s),
           RunsLeft(d, l, s) \subseteq RunsLeft(dr[c], l, s),
           h = c /\ k = m => RunKept(dr[c], d, st, l, s)
    PROVE  RunsPaid(n, dq, h, st, l, k, s)
<1> DEFINE x == [b \in Coordinators |-> RunsLeft(dr[b], l, s)]
           y == [b \in Coordinators |-> RunsLeft(dq[b], l, s)]
           e == RunEngaged(dr, h, st, l, s)
           f == RunEngaged(dq, h, st, l, s)
<1>1. e \in BOOLEAN /\ f \in BOOLEAN
  BY Zenon DEF RunEngaged, Turns
<1>2. NoMore(x, y)
  BY Zenon DEF NoMore, Turns
<1>3. Paid(n, x, m, e, MaxAttempts)
  BY Zenon DEF RunsPaid
<1>4. MaxAttempts \in Nat
  BY SagaAssumption, Zenon
<1>5. ASSUME e, ~f, k = m PROVE GivenUp(x, y, c, MaxAttempts)
  <2>1. h = c /\ RunsNow(dr[c], st, l, s) /\ ~RunsNow(d, st, l, s)
    BY <1>5, Zenon DEF RunEngaged, Turns
  <2>2. st \in {"pending", "running"} /\ MayRun(l, s)
    BY <1>5, Zenon DEF RunEngaged, Turns
  <2> QED
    BY <1>5, <2>1, <2>2, Zenon DEF RunKept, GivenUp, Turns
<1>6. e => f \/ m < k \/ k = m
  OBVIOUS
<1> HIDE DEF x, y, e, f
<1>7. ASSUME e => f \/ m < k PROVE Paid(n, y, k, f, MaxAttempts)
  <2>1. Carries(e, f, m, k)
    BY <1>7, Zenon DEF Carries
  <2> QED
    BY <1>1, <1>2, <1>3, <1>4, <2>1, PaysOn, ZenonT(60)
<1>8. ASSUME ~(e => f \/ m < k) PROVE Paid(n, y, k, f, MaxAttempts)
  <2>1. GivenUp(x, y, c, MaxAttempts)
    BY <1>5, <1>6, <1>8, Zenon
  <2> QED
    BY <1>1, <1>2, <1>3, <1>4, <2>1, PaysBack, Zenon
<1>9. Paid(n, y, k, f, MaxAttempts)
  BY <1>7, <1>8, Zenon
<1> QED
  BY <1>9, Zenon DEF RunsPaid, y, f

\* The same for the calls of Compensate.
LEMMA UndosStayPaid ==
    ASSUME Sizes, NEW dr, NEW dq, NEW c \in Coordinators, NEW d, NEW h, NEW st, NEW l, NEW s,
           NEW n \in Nat, NEW m \in Nat, NEW k \in Nat, m <= k,
           Turns(dr, dq, c, d),
           UndosPaid(n, dr, h, st, l, m, s),
           UndoLeft(d, l, s) => UndoLeft(dr[c], l, s),
           h = c /\ k = m => UndoKept(dr[c], d, st, l, s)
    PROVE  UndosPaid(n, dq, h, st, l, k, s)
<1> DEFINE x == [b \in Coordinators |-> UndosLeft(dr[b], l, s)]
           y == [b \in Coordinators |-> UndosLeft(dq[b], l, s)]
           e == UndoEngaged(dr, h, st, l, s)
           f == UndoEngaged(dq, h, st, l, s)
<1>1. e \in BOOLEAN /\ f \in BOOLEAN
  BY Zenon DEF UndoEngaged, Turns
<1>2. NoMore(x, y)
  BY Zenon DEF UndosLeft, NoMore, Turns
<1>3. Paid(n, x, m, e, 1)
  BY Zenon DEF UndosPaid
<1>4. 1 \in Nat
  OBVIOUS
<1>5. ASSUME e, ~f, k = m PROVE GivenUp(x, y, c, 1)
  <2>1. h = c /\ UndoesNow(dr[c], st, l, s) /\ ~UndoesNow(d, st, l, s)
    BY <1>5, Zenon DEF UndoEngaged, Turns
  <2>2. st = "compensating" /\ s \notin settled(l)
    BY <1>5, Zenon DEF UndoEngaged, Turns
  <2>3. UndoLeft(dr[c], l, s) /\ ~UndoLeft(d, l, s)
    BY <1>5, <2>1, <2>2, Zenon DEF UndoKept
  <2> QED
    BY <2>3, Zenon DEF UndosLeft, GivenUp, Turns
<1>6. e => f \/ m < k \/ k = m
  OBVIOUS
<1> HIDE DEF x, y, e, f
<1>7. ASSUME e => f \/ m < k PROVE Paid(n, y, k, f, 1)
  <2>1. Carries(e, f, m, k)
    BY <1>7, Zenon DEF Carries
  <2> QED
    BY <1>1, <1>2, <1>3, <1>4, <2>1, PaysOn, ZenonT(60)
<1>8. ASSUME ~(e => f \/ m < k) PROVE Paid(n, y, k, f, 1)
  <2>1. GivenUp(x, y, c, 1)
    BY <1>5, <1>6, <1>8, Zenon
  <2> QED
    BY <1>1, <1>2, <1>3, <1>4, <2>1, PaysBack, Zenon
<1>9. Paid(n, y, k, f, 1)
  BY <1>7, <1>8, Zenon
<1> QED
  BY <1>9, Zenon DEF UndosPaid, y, f

\* Run of s is called.
LEMMA RunIsPaid ==
    ASSUME Sizes, NEW dr, NEW dq, NEW c \in Coordinators, NEW d, NEW h, NEW st, NEW l, NEW s,
           NEW n \in Nat, NEW m \in Nat, NEW k \in Nat, m <= k,
           Turns(dr, dq, c, d),
           RunsPaid(n, dr, h, st, l, m, s),
           RunsLeft(d, l, s) \subseteq RunsLeft(dr[c], l, s),
           NEW q \in 1 .. MaxAttempts, q \in RunsLeft(dr[c], l, s), q \notin RunsLeft(d, l, s),
           RunsNow(d, st, l, s)
    PROVE  RunsPaid(n + 1, dq, h, st, l, k, s)
<1> DEFINE x == [b \in Coordinators |-> RunsLeft(dr[b], l, s)]
           y == [b \in Coordinators |-> RunsLeft(dq[b], l, s)]
           e == RunEngaged(dr, h, st, l, s)
           f == RunEngaged(dq, h, st, l, s)
<1>1. e \in BOOLEAN /\ f \in BOOLEAN
  BY Zenon DEF RunEngaged, Turns
<1>2. NoMore(x, y) /\ Called(x, y, c, q)
  BY Zenon DEF NoMore, Called, Turns
<1>3. Paid(n, x, m, e, MaxAttempts)
  BY Zenon DEF RunsPaid
<1>4. MaxAttempts \in Nat
  BY SagaAssumption, Zenon
<1>5. e => f
  BY Zenon DEF RunEngaged, Turns
<1> HIDE DEF x, y, e, f
<1>6. Paid(n + 1, y, k, f, MaxAttempts)
  BY <1>1, <1>2, <1>3, <1>4, <1>5, PaysForOne, ZenonT(60)
<1> QED
  BY <1>6, Zenon DEF RunsPaid, y, f

\* Compensate of s is called.
LEMMA UndoIsPaid ==
    ASSUME Sizes, NEW dr, NEW dq, NEW c \in Coordinators, NEW d, NEW h, NEW st, NEW l, NEW s,
           NEW n \in Nat, NEW m \in Nat,
           Turns(dr, dq, c, d),
           UndosPaid(n, dr, h, st, l, m, s),
           UndoLeft(dr[c], l, s), ~UndoLeft(d, l, s), UndoesNow(d, st, l, s)
    PROVE  UndosPaid(n + 1, dq, h, st, l, m, s)
<1> DEFINE x == [b \in Coordinators |-> UndosLeft(dr[b], l, s)]
           y == [b \in Coordinators |-> UndosLeft(dq[b], l, s)]
           e == UndoEngaged(dr, h, st, l, s)
           f == UndoEngaged(dq, h, st, l, s)
<1>1. e \in BOOLEAN /\ f \in BOOLEAN
  BY Zenon DEF UndoEngaged, Turns
<1>2. NoMore(x, y) /\ Called(x, y, c, 1)
  BY DEF UndosLeft, NoMore, Called, Turns
<1>3. Paid(n, x, m, e, 1)
  BY Zenon DEF UndosPaid
<1>4. 1 \in Nat /\ 1 \in 1 .. 1 /\ m <= m
  OBVIOUS
<1>5. e => f
  BY Zenon DEF UndoEngaged, Turns
<1> HIDE DEF x, y, e, f
<1>6. Paid(n + 1, y, m, f, 1)
  BY <1>1, <1>2, <1>3, <1>4, <1>5, PaysForOne, Zenon
<1> QED
  BY <1>6, Zenon DEF UndosPaid, y, f

Within(d, l) == d.seen \in 0 .. Len(l) /\ d.todo \subseteq DOMAIN l

\* An event is added to the log: what a drive may still call gets no more.
LEMMA LeftOfLonger ==
    ASSUME NEW l \in Seq(Events), NEW e \in Events, NEW d, NEW s,
           Within(d, l), MayRun(Append(l, e), s) => MayRun(l, s)
    PROVE  /\ RunsLeft(d, Append(l, e), s) \subseteq RunsLeft(d, l, s)
           /\ UndoLeft(d, Append(l, e), s) => UndoLeft(d, l, s)
<1>1. d.seen \in 0 .. Len(l)
  BY Zenon DEF Within
<1>2. SubSeq(Append(l, e), 1, d.seen) = SubSeq(l, 1, d.seen)
  BY <1>1, Prefix, Zenon
<1>3. RunsLeft(d, Append(l, e), s) \subseteq RunsLeft(d, l, s)
  BY <1>2, Zenon DEF RunsLeft
<1>4. s \notin settled(Append(l, e)) => s \notin settled(l)
  BY SettledAdds, Zenon
<1>5. ASSUME NEW S \in SUBSET DOMAIN l PROVE Waits(Append(l, e), S, s) => Waits(l, S, s)
  <2>1. \A n \in S : Append(l, e)[n] = l[n]
    BY Appended, Positions
  <2> QED
    BY <2>1, Zenon DEF Waits
<1>6. collectCommittedSteps(SubSeq(l, 1, d.seen)) \in SUBSET DOMAIN l
  <2>1. DOMAIN SubSeq(l, 1, d.seen) = 1 .. d.seen /\ 1 .. d.seen \in SUBSET DOMAIN l
    BY <1>1, Prefix, Positions
  <2> QED
    BY <2>1, Zenon DEF collectCommittedSteps, PositionsOf
<1>7. d.todo \in SUBSET DOMAIN l
  BY Zenon DEF Within
<1>8. UndoLeft(d, Append(l, e), s) => UndoLeft(d, l, s)
  BY <1>2, <1>4, <1>5, <1>6, <1>7, Zenon DEF UndoLeft
<1> QED
  BY <1>3, <1>8, Zenon

\* The account of i alone.
PaidFor(i) ==
    \A s \in Steps :
        /\ RunsPaid(ran[i][s], DrivesOf(i), Holder(i), status[i], log[i], mishaps[i], s)
        /\ UndosPaid(undos[i][s], DrivesOf(i), Holder(i), status[i], log[i], mishaps[i], s)

\* Nothing that the account of j depends on changes.
Untouched(j) ==
    /\ status'[j] = status[j] /\ log'[j] = log[j] /\ lease'[j] = lease[j] /\ live'[j] = live[j]
    /\ mishaps'[j] = mishaps[j] /\ ran'[j] = ran[j] /\ undos'[j] = undos[j]
    /\ \A b \in Coordinators : drive'[b][j] = drive[b][j]

\* A step that touches i alone.
LEMMA AccountsFrame ==
    ASSUME Accounts, NEW i \in Instances, \A j \in Instances \ {i} : Untouched(j),
           status'[i] # "absent", PaidFor(i)'
    PROVE  Accounts'
<1>1. ASSUME NEW j \in Instances, j # i
      PROVE  /\ status'[j] = "absent" =>
                    /\ \A c \in Coordinators : At(c, j, "idle")'
                    /\ \A s \in Steps : ran'[j][s] = 0
             /\ PaidFor(j)'
  <2>1. Untouched(j)
    BY <1>1, Zenon
  <2>2. DrivesOf(j)' = DrivesOf(j) /\ Holder(j)' = Holder(j)
    BY <2>1, Zenon DEF Untouched, DrivesOf, Holder
  <2> QED
    BY <2>1, <2>2, ZenonT(60) DEF Untouched, Accounts, PaidFor, At
<1> QED
  BY <1>1, Zenon DEF Accounts, PaidFor

\* A drive that is under way is the drive of a saga that was enrolled.
LEMMA DrivenIsEnrolled ==
    ASSUME Accounts, NEW c \in Coordinators, NEW i \in Instances, ~At(c, i, "idle")
    PROVE  status[i] # "absent"
  BY Zenon DEF Accounts

\* The accounts, read off for one instance.
LEMMA AccountTyped ==
    ASSUME SagaInv, Accounts, NEW i \in Instances
    PROVE  /\ PaidFor(i) /\ mishaps[i] \in Nat
           /\ \A s \in Steps : ran[i][s] \in Nat /\ undos[i][s] \in Nat
           /\ \A b \in Coordinators : DrivesOf(i)[b] = drive[b][i]
           /\ \A c \in Coordinators : Holder(i) = c <=> fenced(c, i)
<1>1. /\ mishaps[i] \in Nat
      /\ \A s \in Steps : ran[i][s] \in Nat /\ undos[i][s] \in Nat
  BY Zenon DEF SagaInv, SagaTypeOK
<1>2. /\ \A b \in Coordinators : DrivesOf(i)[b] = drive[b][i]
      /\ \A c \in Coordinators : Holder(i) = c <=> fenced(c, i)
  BY JournalAssumption, Zenon DEF DrivesOf, Holder, fenced
<1> QED
  BY <1>1, <1>2, Zenon DEF Accounts, PaidFor

\* The drive of i by c becomes d, with or without a call.
Moves(c, i, d) ==
    /\ drive' = [drive EXCEPT ![c][i] = d]
    /\ UNCHANGED journalVars
    /\ \A j \in Instances \ {i} : ran'[j] = ran[j] /\ undos'[j] = undos[j]
    /\ UNCHANGED mishaps \/ Mishap(i)

Goes(c, i, d) ==
    /\ drive' = [drive EXCEPT ![c][i] = d]
    /\ UNCHANGED <<journalVars, ran, undos>>
    /\ UNCHANGED mishaps \/ Mishap(i)

\* What a drive that moves without writing leaves alone.
LEMMA MovesTyped ==
    ASSUME SagaInv, NEW c \in Coordinators, NEW i \in Instances, NEW d, Moves(c, i, d)
    PROVE  /\ \A j \in Instances \ {i} : Untouched(j)
           /\ Turns(DrivesOf(i), DrivesOf(i)', c, d)
           /\ mishaps'[i] \in Nat /\ mishaps[i] <= mishaps'[i]
           /\ status'[i] = status[i] /\ log'[i] = log[i] /\ Holder(i)' = Holder(i)
<1>1. mishaps \in [Instances -> Nat] /\ drive \in [Coordinators -> [Instances -> Drives]]
  BY Zenon DEF SagaInv, SagaTypeOK
<1>2. /\ mishaps'[i] \in Nat /\ mishaps[i] <= mishaps'[i]
      /\ \A j \in Instances \ {i} : mishaps'[j] = mishaps[j]
  BY <1>1 DEF Moves, Mishap
<1>3. \A b \in Coordinators, j \in Instances :
        drive'[b][j] = IF b = c /\ j = i THEN d ELSE drive[b][j]
  BY <1>1, Zenon DEF Moves
<1>4. /\ UNCHANGED <<status, log, lease, live>>
      /\ \A j \in Instances \ {i} : ran'[j] = ran[j] /\ undos'[j] = undos[j]
  BY Zenon DEF Moves, journalVars
<1>5. \A j \in Instances \ {i} : Untouched(j)
  BY <1>2, <1>3, <1>4, Zenon DEF Untouched
<1>6. Turns(DrivesOf(i), DrivesOf(i)', c, d)
  BY <1>3, Zenon DEF DrivesOf, Turns
<1>7. Holder(i)' = Holder(i)
  BY <1>4, Zenon DEF Holder
<1> QED
  BY <1>2, <1>4, <1>5, <1>6, <1>7, Zenon

\* A step of a drive that calls nothing and writes nothing.
LEMMA QuietPays ==
    ASSUME Sizes, SagaInv, Accounts, NEW c \in Coordinators, NEW i \in Instances, NEW d,
           ~At(c, i, "idle"), Goes(c, i, d),
           \A s \in Steps :
                /\ RunsLeft(d, log[i], s) \subseteq RunsLeft(drive[c][i], log[i], s)
                /\ UndoLeft(d, log[i], s) => UndoLeft(drive[c][i], log[i], s)
                /\ fenced(c, i) /\ mishaps'[i] = mishaps[i] =>
                     /\ RunKept(drive[c][i], d, status[i], log[i], s)
                     /\ UndoKept(drive[c][i], d, status[i], log[i], s)
    PROVE  Accounts'
<1>1. /\ \A j \in Instances \ {i} : Untouched(j)
      /\ Turns(DrivesOf(i), DrivesOf(i)', c, d)
      /\ mishaps'[i] \in Nat /\ mishaps[i] <= mishaps'[i]
      /\ status'[i] = status[i] /\ log'[i] = log[i] /\ Holder(i)' = Holder(i)
      /\ ran' = ran /\ undos' = undos
  <2>1. Moves(c, i, d)
    BY Zenon DEF Goes, Moves
  <2> QED
    BY <2>1, MovesTyped, Zenon DEF Goes
<1>2. /\ PaidFor(i) /\ mishaps[i] \in Nat /\ DrivesOf(i)[c] = drive[c][i]
      /\ \A s \in Steps : ran[i][s] \in Nat /\ undos[i][s] \in Nat
      /\ Holder(i) = c <=> fenced(c, i)
  BY AccountTyped, Zenon
<1>3. ASSUME NEW s \in Steps
      PROVE  RunsPaid(ran[i][s], DrivesOf(i)', Holder(i), status[i], log[i], mishaps'[i], s)
  <2>1. RunsPaid(ran[i][s], DrivesOf(i), Holder(i), status[i], log[i], mishaps[i], s)
    BY <1>2, Zenon DEF PaidFor
  <2>2. /\ RunsLeft(d, log[i], s) \subseteq RunsLeft(DrivesOf(i)[c], log[i], s)
        /\ Holder(i) = c /\ mishaps'[i] = mishaps[i] =>
             RunKept(DrivesOf(i)[c], d, status[i], log[i], s)
    BY <1>2, Zenon
  <2> QED
    BY <1>1, <1>2, <2>1, <2>2, RunsStayPaid, Zenon
<1>4. ASSUME NEW s \in Steps
      PROVE  UndosPaid(undos[i][s], DrivesOf(i)', Holder(i), status[i], log[i], mishaps'[i], s)
  <2>1. UndosPaid(undos[i][s], DrivesOf(i), Holder(i), status[i], log[i], mishaps[i], s)
    BY <1>2, Zenon DEF PaidFor
  <2>2. /\ UndoLeft(d, log[i], s) => UndoLeft(DrivesOf(i)[c], log[i], s)
        /\ Holder(i) = c /\ mishaps'[i] = mishaps[i] =>
             UndoKept(DrivesOf(i)[c], d, status[i], log[i], s)
    BY <1>2, Zenon
  <2> QED
    BY <1>1, <1>2, <2>1, <2>2, UndosStayPaid, Zenon
<1>5. PaidFor(i)'
  BY <1>1, <1>3, <1>4, Zenon DEF PaidFor
<1> QED
  BY <1>1, <1>5, AccountsFrame, DrivenIsEnrolled, Zenon

\* Where a drive has calls left, and where it works on a step.
LEMMA PlacesOfCalls ==
    ASSUME NEW d, NEW st, NEW l, NEW s
    PROVE  /\ d.at \notin {"lead", "begin", "preflight", "run"} => RunsLeft(d, l, s) = {}
           /\ d.at \notin {"lead", "begin", "preflight", "run", "commit", "failed", "mark"} =>
                ~RunsNow(d, st, l, s)
           /\ d.at \notin {"lead", "begin", "rollback", "walk", "record"} => ~UndoLeft(d, l, s)
           /\ d.at \notin {"record", "mark"} /\ UndoesNow(d, st, l, s) => UndoLeft(d, l, s)
<1>1. d.at \notin {"lead", "begin", "preflight", "run"} => RunsLeft(d, l, s) = {}
  BY Zenon DEF RunsLeft
<1>2. d.at \notin {"lead", "begin", "preflight", "run", "commit", "failed", "mark"} =>
        ~RunsNow(d, st, l, s)
  BY Zenon DEF RunsNow
<1>3. d.at \notin {"lead", "begin", "rollback", "walk", "record"} => ~UndoLeft(d, l, s)
  BY Zenon DEF UndoLeft
<1>4. d.at \notin {"record", "mark"} /\ UndoesNow(d, st, l, s) => UndoLeft(d, l, s)
  BY Zenon DEF UndoesNow
<1> QED
  BY <1>1, <1>2, <1>3, <1>4, Zenon

\* A drive that is neither recording nor marking undoes what it has left to undo.
LEMMA UndoIsKept ==
    ASSUME NEW old, NEW d, NEW st, NEW l, NEW s, old.at \notin {"record", "mark"}
    PROVE  UndoKept(old, d, st, l, s)
<1>1. UndoesNow(old, st, l, s) => UndoLeft(old, l, s)
  BY PlacesOfCalls, Zenon
<1>2. UndoLeft(d, l, s) => UndoesNow(d, st, l, s)
  BY Zenon DEF UndoesNow
<1> QED
  BY <1>1, <1>2, Zenon DEF UndoKept

\* The holder of the lease, before it comes to a step, has all the calls of a round left.
Fresh(old, st) == old.at \in {"lead", "begin"} /\ old.attempt = 0 /\ old.was = st

\* A drive that has called nothing yet gives back a whole round.
LEMMA RoundIsWhole ==
    ASSUME NEW old, NEW d, NEW st, NEW l, NEW s, Fresh(old, st), RunsLeft(d, l, s) = {}
    PROVE  RunKept(old, d, st, l, s)
<1>1. ASSUME st \in {"pending", "running"}, MayRun(l, s) PROVE RunsLeft(old, l, s) = 1 .. MaxAttempts
  <2>1. \A k \in 1 .. MaxAttempts : k > old.attempt
    BY SagaAssumption DEF Fresh
  <2>2. old.was # "compensating"
    BY <1>1, Zenon DEF Fresh
  <2> QED
    BY <1>1, <2>1, <2>2, Zenon DEF RunsLeft, Fresh
<1> QED
  BY <1>1, Zenon DEF RunKept

\* A drive ends, and leaves nothing behind that is not paid for.
LEMMA EndPays ==
    ASSUME Sizes, SagaInv, Accounts, NEW c \in Coordinators, NEW i \in Instances,
           ~At(c, i, "idle"), Goes(c, i, Idle),
           fenced(c, i) /\ mishaps'[i] = mishaps[i] =>
                \A s \in Steps : /\ RunKept(drive[c][i], Idle, status[i], log[i], s)
                                 /\ UndoKept(drive[c][i], Idle, status[i], log[i], s)
    PROVE  Accounts'
<1>1. \A s \in Steps : RunsLeft(Idle, log[i], s) = {} /\ ~UndoLeft(Idle, log[i], s)
  BY PlacesOfCalls, Zenon DEF Idle
<1> QED
  BY <1>1, QuietPays, Zenon

\* The leader gate makes no call.
LEMMA AcquireLeadPays ==
    ASSUME Sizes, SagaInv, Accounts, NEW c \in Coordinators, NEW i \in Instances, acquireLead(c, i)
    PROVE  Accounts'
<1> DEFINE old == drive[c][i]
<1>0. /\ old \in Drives /\ DriveOK(old, log[i], undone[i], deploy.removable) /\ old.at = "lead"
      /\ (lease[i] = c => HolderOK(old, status[i], log[i])) /\ ~At(c, i, "idle")
  BY LogTyped, Zenon DEF At, acquireLead
<1>1. fenced(c, i) => Fresh(old, status[i])
  BY <1>0, Zenon DEF DriveOK, HolderOK, fenced, Fresh
<1>2. CASE Set(c, i, Idle)
  <2>1. Goes(c, i, Idle)
    BY <1>2, Zenon DEF Goes, Set, acquireLead, runVars
  <2>2. ASSUME fenced(c, i), NEW s \in Steps
        PROVE  /\ RunKept(old, Idle, status[i], log[i], s)
               /\ UndoKept(old, Idle, status[i], log[i], s)
    <3>1. RunsLeft(Idle, log[i], s) = {}
      BY PlacesOfCalls, Zenon DEF Idle
    <3>2. RunKept(old, Idle, status[i], log[i], s)
      BY <1>1, <2>2, <3>1, RoundIsWhole, Zenon
    <3>3. UndoKept(old, Idle, status[i], log[i], s)
      BY <1>0, UndoIsKept, Zenon
    <3> QED
      BY <3>2, <3>3, Zenon
  <2> QED
    BY <1>0, <2>1, <2>2, EndPays, Zenon
<1>3. CASE Goto(c, i, "begin")
  <2> DEFINE d == [drive[c][i] EXCEPT !.at = "begin"]
  <2>1. d.at = "begin" /\ d.was = old.was /\ d.attempt = old.attempt
    BY <1>0, Zenon DEF Drives
  <2>2. Goes(c, i, d)
    BY <1>3, Zenon DEF Goes, Goto, Set, acquireLead, runVars
  <2> HIDE DEF d
  <2>3. ASSUME NEW s \in Steps
        PROVE  /\ RunsLeft(d, log[i], s) \subseteq RunsLeft(old, log[i], s)
               /\ UndoLeft(d, log[i], s) => UndoLeft(old, log[i], s)
               /\ RunsNow(d, status[i], log[i], s)
               /\ UndoKept(old, d, status[i], log[i], s)
    <3>1. RunsLeft(d, log[i], s) \subseteq RunsLeft(old, log[i], s)
      BY <1>0, <2>1, Zenon DEF RunsLeft
    <3>2. UndoLeft(d, log[i], s) => UndoLeft(old, log[i], s)
      BY <1>0, <2>1, Zenon DEF UndoLeft
    <3>3. RunsNow(d, status[i], log[i], s)
      BY <2>1, Zenon DEF RunsNow
    <3>4. UndoKept(old, d, status[i], log[i], s)
      BY <1>0, UndoIsKept, Zenon
    <3> QED
      BY <3>1, <3>2, <3>3, <3>4, Zenon
  <2>4. \A s \in Steps : RunKept(old, d, status[i], log[i], s)
    BY <2>3, Zenon DEF RunKept
  <2> QED
    BY <1>0, <2>2, <2>3, <2>4, QuietPays, Zenon
<1> QED
  BY <1>2, <1>3, Zenon DEF acquireLead

\* driveOne comes to the step it may run, to the rollback, or to an end.
LEMMA DriveOnePays ==
    ASSUME Sizes, SagaInv, Accounts, NEW c \in Coordinators, NEW i \in Instances, driveOne(c, i)
    PROVE  Accounts'
<1> DEFINE old == drive[c][i]
           l == log[i]
           load(place) == [[drive[c][i] EXCEPT !.seen = Len(log[i])] EXCEPT !.at = place]
<1>0. /\ old \in Drives /\ DriveOK(old, l, undone[i], deploy.removable) /\ old.at = "begin"
      /\ (lease[i] = c => HolderOK(old, status[i], l)) /\ ~At(c, i, "idle")
      /\ l \in Seq(Events) /\ Len(l) \in Nat /\ DOMAIN l = 1 .. Len(l)
      /\ cursor(l) \in 0 .. NSteps
  BY LogTyped, Positions, Zenon DEF At, driveOne, LogOK
<1>1. fenced(c, i) => Fresh(old, status[i])
  BY <1>0, Zenon DEF DriveOK, HolderOK, fenced, Fresh
<1>2. UNCHANGED <<journalVars, ran, undos, mishaps>>
  BY Zenon DEF driveOne, runVars
<1>3. ASSUME NEW w, Set(c, i, Mark(c, i, w)) PROVE Accounts'
  <2> DEFINE d == Mark(c, i, w)
  <2>1. d.at = "mark"
    BY <1>0, Zenon DEF Mark, Drives
  <2>2. Goes(c, i, d)
    BY <1>2, <1>3, Zenon DEF Goes, Set
  <2> HIDE DEF d
  <2>3. ASSUME NEW s \in Steps
        PROVE  /\ RunsLeft(d, l, s) = {} /\ ~UndoLeft(d, l, s)
               /\ UndoKept(old, d, status[i], l, s)
               /\ fenced(c, i) => RunKept(old, d, status[i], l, s)
    <3>1. RunsLeft(d, l, s) = {} /\ ~UndoLeft(d, l, s)
      BY <2>1, PlacesOfCalls, Zenon
    <3>2. fenced(c, i) => RunKept(old, d, status[i], l, s)
      BY <1>1, <3>1, RoundIsWhole, Zenon
    <3>3. UndoKept(old, d, status[i], l, s)
      BY <1>0, UndoIsKept, Zenon
    <3> QED
      BY <3>1, <3>2, <3>3, Zenon
  <2> QED
    BY <1>0, <2>2, <2>3, QuietPays, Zenon
<1>4. ASSUME Set(c, i, load("rollback")), old.was = "compensating" PROVE Accounts'
  <2> DEFINE d == load("rollback")
  <2>1. d.at = "rollback" /\ d.seen = Len(l)
    BY <1>0, Zenon DEF Drives
  <2>2. Goes(c, i, d)
    BY <1>2, <1>4, Zenon DEF Goes, Set
  <2> HIDE DEF d
  <2>3. SubSeq(l, 1, d.seen) = l
    BY <1>0, <2>1, Prefix
  <2>4. ASSUME NEW s \in Steps
        PROVE  /\ RunsLeft(d, l, s) = {} /\ (UndoLeft(d, l, s) => UndoLeft(old, l, s))
               /\ UndoKept(old, d, status[i], l, s)
               /\ fenced(c, i) => RunKept(old, d, status[i], l, s)
    <3>1. RunsLeft(d, l, s) = {}
      BY <2>1, PlacesOfCalls, Zenon
    <3>2. UndoLeft(d, l, s) => s \notin settled(l)
      BY <2>1, <2>3, Zenon DEF UndoLeft, Waits, collectCommittedSteps
    <3>3. UndoLeft(d, l, s) => UndoLeft(old, l, s)
      BY <1>0, <1>4, <3>2, Zenon DEF UndoLeft
    <3>4. fenced(c, i) => RunKept(old, d, status[i], l, s)
      BY <1>1, <3>1, RoundIsWhole, Zenon
    <3>5. UndoKept(old, d, status[i], l, s)
      BY <1>0, UndoIsKept, Zenon
    <3> QED
      BY <3>1, <3>3, <3>4, <3>5, Zenon
  <2> QED
    BY <1>0, <2>2, <2>4, QuietPays, Zenon
<1>5. ASSUME Set(c, i, load("preflight")), old.was # "compensating", ~FoldFails(l) PROVE Accounts'
  <2> DEFINE d == load("preflight")
  <2>1. d.at = "preflight" /\ d.seen = Len(l) /\ d.attempt = old.attempt
    BY <1>0, Zenon DEF Drives
  <2>2. Goes(c, i, d)
    BY <1>2, <1>5, Zenon DEF Goes, Set
  <2> HIDE DEF d
  <2>3. SubSeq(l, 1, d.seen) = l
    BY <1>0, <2>1, Prefix
  <2>4. ASSUME NEW s \in Steps
        PROVE  /\ RunsLeft(d, l, s) \subseteq RunsLeft(old, l, s) /\ ~UndoLeft(d, l, s)
               /\ UndoKept(old, d, status[i], l, s)
               /\ fenced(c, i) => RunKept(old, d, status[i], l, s)
    <3>1. cursor(l) + 1 = s => MayRun(l, s)
      BY <1>0, <1>5, JournalAssumption DEF MayRun
    <3>2. RunsLeft(d, l, s) \subseteq RunsLeft(old, l, s)
      BY <1>0, <1>5, <2>1, <2>3, <3>1, Zenon DEF RunsLeft
    <3>3. ~UndoLeft(d, l, s)
      BY <2>1, PlacesOfCalls, Zenon
    <3>4. ASSUME cursor(l) + 1 = s PROVE RunKept(old, d, status[i], l, s)
      <4>1. RunsNow(d, status[i], l, s)
        BY <2>1, <2>3, <3>4, Zenon DEF RunsNow
      <4> QED
        BY <4>1, Zenon DEF RunKept
    <3>5. ASSUME cursor(l) + 1 # s, fenced(c, i) PROVE RunKept(old, d, status[i], l, s)
      <4>1. RunsLeft(d, l, s) = {}
        BY <2>1, <2>3, <3>5, Zenon DEF RunsLeft
      <4> QED
        BY <1>1, <3>5, <4>1, RoundIsWhole, Zenon
    <3>6. UndoKept(old, d, status[i], l, s)
      BY <1>0, UndoIsKept, Zenon
    <3> QED
      BY <3>2, <3>3, <3>4, <3>5, <3>6, Zenon
  <2> QED
    BY <1>0, <2>2, <2>4, QuietPays, Zenon
<1>6. \/ \E w \in Terminal : Set(c, i, Mark(c, i, w))
      \/ Set(c, i, load("rollback")) /\ old.was = "compensating"
      \/ Set(c, i, load("preflight")) /\ old.was # "compensating" /\ ~FoldFails(l)
  <2>1. \/ Set(c, i, Mark(c, i, "failed")) \/ Set(c, i, Mark(c, i, "expired"))
        \/ Set(c, i, Mark(c, i, "succeeded"))
        \/ Set(c, i, load("rollback")) /\ old.was = "compensating"
        \/ Set(c, i, load("preflight")) /\ old.was # "compensating" /\ ~FoldFails(l)
    BY Zenon DEF driveOne
  <2>2. {"failed", "expired", "succeeded"} \subseteq Terminal
    BY Zenon DEF Terminal
  <2> HIDE DEF load
  <2> QED
    BY <2>1, <2>2, Zenon
<1> QED
  BY <1>3, <1>4, <1>5, <1>6, Zenon

\* Run is called for the attempt that comes next.
LEMMA InvokePays ==
    ASSUME Counting, Sizes, SagaInv, Accounts, NEW c \in Coordinators, NEW i \in Instances,
           NEW a \in 1 .. MaxAttempts, a = drive[c][i].attempt + 1,
           At(c, i, "preflight") \/ At(c, i, "run"), Invoke(c, i, a),
           UNCHANGED journalVars, UNCHANGED mishaps \/ Mishap(i)
    PROVE  Accounts'
<1> DEFINE old == drive[c][i]
           l == log[i]
           d == [drive[c][i] EXCEPT !.at = "run", !.attempt = a]
           t == NextStep(c, i)
<1>0. old \in Drives /\ old.at \in {"preflight", "run"} /\ ~At(c, i, "idle")
  BY LogTyped, Zenon DEF At
<1>1. d.at = "run" /\ d.seen = old.seen /\ d.attempt = a
  BY <1>0, Zenon DEF Drives
<1>2. t \in Steps /\ cursor(SubSeq(l, 1, old.seen)) + 1 = t
  BY <1>0, NextStepTyped, Zenon DEF History
<1>3. /\ \A j \in Instances \ {i} : ran'[j] = ran[j] /\ undos'[j] = undos[j]
      /\ ran'[i][t] = ran[i][t] + 1 /\ \A s \in Steps \ {t} : ran'[i][s] = ran[i][s]
      /\ undos' = undos
  BY <1>2, Zenon DEF Invoke, SagaInv, SagaTypeOK
<1>4. Moves(c, i, d)
  BY <1>3, Zenon DEF Moves, Invoke, Set
<1> HIDE DEF d, t
<1>5. /\ \A j \in Instances \ {i} : Untouched(j)
      /\ Turns(DrivesOf(i), DrivesOf(i)', c, d)
      /\ mishaps'[i] \in Nat /\ mishaps[i] <= mishaps'[i]
      /\ status'[i] = status[i] /\ log'[i] = log[i] /\ Holder(i)' = Holder(i)
  BY <1>4, MovesTyped, Zenon
<1>6. /\ PaidFor(i) /\ mishaps[i] \in Nat /\ DrivesOf(i)[c] = old
      /\ \A s \in Steps : ran[i][s] \in Nat /\ undos[i][s] \in Nat
  BY AccountTyped, Zenon
<1>7. ASSUME NEW s \in Steps
      PROVE  RunsLeft(d, l, s) \subseteq RunsLeft(DrivesOf(i)[c], l, s)
  <2>1. \A k \in 1 .. MaxAttempts : k > d.attempt => k > old.attempt
    BY <1>0, <1>1, SagaAssumption DEF Drives
  <2> QED
    BY <1>0, <1>1, <1>6, <2>1, ZenonT(60) DEF RunsLeft
<1>8. RunsPaid(ran'[i][t], DrivesOf(i)', Holder(i), status[i], l, mishaps'[i], t)
  <2>1. a > old.attempt /\ ~(a > d.attempt)
    BY <1>0, <1>1, SagaAssumption DEF Drives
  <2>2. a \in RunsLeft(DrivesOf(i)[c], l, t) /\ a \notin RunsLeft(d, l, t)
    BY <1>0, <1>2, <1>6, <2>1, Zenon DEF RunsLeft
  <2>3. RunsNow(d, status[i], l, t)
    BY <1>1, <1>2, Zenon DEF RunsNow
  <2>4. RunsPaid(ran[i][t], DrivesOf(i), Holder(i), status[i], l, mishaps[i], t)
    BY <1>2, <1>6, Zenon DEF PaidFor
  <2>5. RunsPaid(ran[i][t] + 1, DrivesOf(i)', Holder(i), status[i], l, mishaps'[i], t)
    BY <1>2, <1>5, <1>6, <1>7, <2>2, <2>3, <2>4, RunIsPaid, ZenonT(60)
  <2> QED
    BY <1>3, <2>5, Zenon
<1>9. ASSUME NEW s \in Steps \ {t}
      PROVE  RunsPaid(ran'[i][s], DrivesOf(i)', Holder(i), status[i], l, mishaps'[i], s)
  <2>1. RunKept(DrivesOf(i)[c], d, status[i], l, s)
    BY <1>0, <1>2, <1>6, Zenon DEF RunKept, RunsNow
  <2>2. RunsPaid(ran[i][s], DrivesOf(i), Holder(i), status[i], l, mishaps[i], s)
    BY <1>6, Zenon DEF PaidFor
  <2> QED
    BY <1>3, <1>5, <1>6, <1>7, <2>1, <2>2, RunsStayPaid, Zenon
<1>10. ASSUME NEW s \in Steps
       PROVE  UndosPaid(undos[i][s], DrivesOf(i)', Holder(i), status[i], l, mishaps'[i], s)
  <2>1. ~UndoLeft(d, l, s) /\ UndoKept(DrivesOf(i)[c], d, status[i], l, s)
    BY <1>0, <1>1, <1>6, PlacesOfCalls, UndoIsKept, Zenon
  <2>2. UndosPaid(undos[i][s], DrivesOf(i), Holder(i), status[i], l, mishaps[i], s)
    BY <1>6, Zenon DEF PaidFor
  <2> QED
    BY <1>5, <1>6, <2>1, <2>2, UndosStayPaid, Zenon
<1>11. PaidFor(i)'
  BY <1>3, <1>5, <1>8, <1>9, <1>10, Zenon DEF PaidFor
<1> QED
  BY <1>0, <1>5, <1>11, AccountsFrame, DrivenIsEnrolled, Zenon

\* The ends of a drive that has lost its lease, or meets a mishap.
LEMMA BrokenOffPays ==
    ASSUME Sizes, SagaInv, Accounts, NEW c \in Coordinators, NEW i \in Instances,
           ~At(c, i, "idle"), Goes(c, i, Idle), ~fenced(c, i) \/ Mishap(i)
    PROVE  Accounts'
<1>1. Mishap(i) => mishaps'[i] # mishaps[i]
  BY DEF Mishap, SagaInv, SagaTypeOK
<1> QED
  BY <1>1, EndPays, Zenon

\* A lost lease, a cancellation or an error ends the drive; the mishap pays for the round.
LEMMA GiveUpPays ==
    ASSUME Sizes, SagaInv, Accounts, NEW c \in Coordinators, NEW i \in Instances,
           LeaseLost(c, i) \/ Canceled(c, i) \/ DriveError(c, i)
    PROVE  Accounts'
<1>1. Goes(c, i, Idle)
  BY Zenon DEF Goes, LeaseLost, Canceled, DriveError, End, Set, runVars
<1>2. ~At(c, i, "idle") /\ (~fenced(c, i) \/ Mishap(i))
  BY Zenon DEF LeaseLost, Canceled, DriveError, At
<1> QED
  BY <1>1, <1>2, BrokenOffPays, Zenon

\* The first attempt is the first call of a round.
LEMMA ExecutePays ==
    ASSUME Counting, Sizes, SagaInv, Accounts, NEW c \in Coordinators, NEW i \in Instances,
           Execute(c, i) \/ HeartbeatError(c, i)
    PROVE  Accounts'
<1>1. /\ At(c, i, "preflight") /\ ~At(c, i, "idle") /\ UNCHANGED journalVars
      /\ UNCHANGED mishaps \/ Mishap(i)
  BY Zenon DEF Execute, HeartbeatError, At
<1>2. CASE Invoke(c, i, 1)
  <2>1. drive[c][i].attempt = 0
    BY <1>1, LogTyped, Zenon DEF DriveOK, At
  <2>2. 1 \in 1 .. MaxAttempts /\ 1 = drive[c][i].attempt + 1
    BY <2>1, SagaAssumption
  <2> QED
    BY <1>1, <1>2, <2>2, InvokePays, Zenon
<1>3. CASE End(c, i) /\ UNCHANGED runVars /\ ~fenced(c, i)
  <2>1. Goes(c, i, Idle)
    BY <1>1, <1>3, Zenon DEF Goes, End, Set, runVars
  <2> QED
    BY <1>1, <1>3, <2>1, BrokenOffPays, Zenon
<1> QED
  BY <1>2, <1>3, Zenon DEF Execute, HeartbeatError

\* A further attempt is a further call of the same round.
LEMMA RunFailsPays ==
    ASSUME Counting, Sizes, SagaInv, Accounts, NEW c \in Coordinators, NEW i \in Instances,
           RunFails(c, i) \/ RunSucceeds(c, i) \/ RunExpires(c, i)
    PROVE  Accounts'
<1> DEFINE old == drive[c][i]
           l == log[i]
<1>0. /\ old \in Drives /\ old.at = "run" /\ At(c, i, "run") /\ ~At(c, i, "idle")
      /\ (lease[i] = c => HolderOK(old, status[i], l))
      /\ UNCHANGED <<journalVars, mishaps>>
  BY LogTyped, Zenon DEF At, RunFails, RunSucceeds, RunExpires
<1>1. CASE Invoke(c, i, old.attempt + 1) /\ old.attempt < MaxAttempts
  <2>1. old.attempt + 1 \in 1 .. MaxAttempts
    BY <1>0, <1>1, SagaAssumption DEF Drives
  <2> QED
    BY <1>0, <1>1, <2>1, InvokePays, Zenon
<1>2. ASSUME NEW d, Set(c, i, d), UNCHANGED runVars,
             \/ d.at \in {"failed", "commit"} /\ d.seen = old.seen
             \/ d.at = "mark" /\ d.want = "expired"
      PROVE  Accounts'
  <2>1. Goes(c, i, d)
    BY <1>0, <1>2, Zenon DEF Goes, Set, runVars
  <2>2. ASSUME NEW s \in Steps
        PROVE  /\ RunsLeft(d, l, s) = {} /\ ~UndoLeft(d, l, s)
               /\ UndoKept(old, d, status[i], l, s)
               /\ fenced(c, i) => RunKept(old, d, status[i], l, s)
    <3>1. RunsLeft(d, l, s) = {} /\ ~UndoLeft(d, l, s)
      BY <1>2, PlacesOfCalls, Zenon
    <3>2. UndoKept(old, d, status[i], l, s)
      BY <1>0, UndoIsKept, Zenon
    <3>3. CASE d.at \in {"failed", "commit"} /\ d.seen = old.seen
      BY <1>0, <3>1, <3>2, <3>3, Zenon DEF RunKept, RunsNow
    <3>4. CASE d.at = "mark" /\ d.want = "expired"
      <4>1. fenced(c, i) => CanTransitionTo(status[i], d.want)
        BY <1>0, <3>4 DEF fenced, HolderOK, CanTransitionTo, Open, statusTransitions
      <4> QED
        BY <3>1, <3>2, <3>4, <4>1, ZenonT(60) DEF RunKept, RunsNow
    <3> QED
      BY <1>2, <3>3, <3>4, Zenon
  <2> QED
    BY <1>0, <2>1, <2>2, QuietPays, Zenon
<1>3. ASSUME NEW p \in {"failed", "commit"}, Goto(c, i, p), UNCHANGED runVars PROVE Accounts'
  <2> DEFINE d == [drive[c][i] EXCEPT !.at = p]
  <2>1. d.at = p /\ d.seen = old.seen
    BY <1>0, Zenon DEF Drives
  <2>2. Set(c, i, d)
    BY <1>3, Zenon DEF Goto
  <2> HIDE DEF d
  <2>3. d.at \in {"failed", "commit"}
    BY <2>1, Zenon
  <2> QED
    BY <1>2, <1>3, <2>1, <2>2, <2>3, Zenon
<1>4. CASE RunExpires(c, i)
  <2>1. Mark(c, i, "expired").at = "mark" /\ Mark(c, i, "expired").want = "expired"
    BY <1>0, Zenon DEF Drives, Mark
  <2> QED
    BY <1>2, <1>4, <2>1, Zenon DEF RunExpires
<1>5. CASE RunFails(c, i)
  BY <1>1, <1>3, <1>5, Zenon DEF RunFails
<1>6. CASE RunSucceeds(c, i)
  BY <1>3, <1>6, Zenon DEF RunSucceeds
<1> QED
  BY <1>4, <1>5, <1>6, Zenon

\* A step of a rollback that calls nothing and writes nothing.
LEMMA WalkPays ==
    ASSUME Sizes, SagaInv, Accounts, NEW c \in Coordinators, NEW i \in Instances, NEW d,
           drive[c][i].at \in {"rollback", "walk", "record"},
           d.at \notin {"lead", "begin", "preflight", "run"}, Goes(c, i, d),
           \A s \in Steps : UndoLeft(d, log[i], s) => UndoLeft(drive[c][i], log[i], s),
           At(c, i, "record") => ~fenced(c, i) \/ mishaps'[i] # mishaps[i]
    PROVE  Accounts'
<1>1. ASSUME NEW s \in Steps
      PROVE  RunsLeft(d, log[i], s) = {} /\ RunKept(drive[c][i], d, status[i], log[i], s)
  <2>1. RunsLeft(d, log[i], s) = {} /\ ~RunsNow(drive[c][i], status[i], log[i], s)
    BY PlacesOfCalls, Zenon
  <2> QED
    BY <2>1, Zenon DEF RunKept
<1>2. ASSUME NEW s \in Steps, fenced(c, i), mishaps'[i] = mishaps[i]
      PROVE  UndoKept(drive[c][i], d, status[i], log[i], s)
  <2>1. drive[c][i].at \notin {"record", "mark"}
    BY <1>2, Zenon DEF At
  <2> QED
    BY <2>1, UndoIsKept, Zenon
<1>3. ~At(c, i, "idle")
  BY Zenon DEF At
<1> QED
  BY <1>1, <1>2, <1>3, QuietPays, Zenon

\* The walk begins with what is not settled; each is undone once in it.
LEMMA RunCompensationPays ==
    ASSUME Sizes, SagaInv, Accounts, NEW c \in Coordinators, NEW i \in Instances,
           runCompensation(c, i) \/ WalkHeartbeatError(c, i)
    PROVE  Accounts'
<1> DEFINE old == drive[c][i]
           l == log[i]
<1>0. /\ old \in Drives /\ old.at = "rollback" /\ UNCHANGED <<journalVars, runVars>>
      /\ UNCHANGED mishaps \/ Mishap(i)
      /\ ~At(c, i, "idle") /\ ~At(c, i, "record")
  BY LogTyped, ZenonT(60) DEF At, runCompensation, WalkHeartbeatError
<1>1. CASE Walk(c, i)
  <2> DEFINE d == [drive[c][i] EXCEPT !.at = "walk",
                                      !.todo = collectCommittedSteps(History(c, i)),
                                      !.bad = "StepCompensationFailed" \in KindsOf(History(c, i))]
  <2>1. d.at = "walk" /\ d.todo = collectCommittedSteps(SubSeq(l, 1, old.seen))
    BY <1>0, Zenon DEF Drives, History
  <2>2. Goes(c, i, d)
    BY <1>0, <1>1, Zenon DEF Goes, Walk, Set, runVars
  <2> HIDE DEF d
  <2>3. \A s \in Steps : UndoLeft(d, l, s) => UndoLeft(old, l, s)
    BY <1>0, <2>1, Zenon DEF UndoLeft
  <2>9. /\ old.at \in {"rollback", "walk", "record"}
        /\ d.at \notin {"lead", "begin", "preflight", "run"}
    BY <1>0, <2>1, <2>2, <2>3, Zenon
  <2> QED
    BY <1>0, <2>1, <2>2, <2>3, <2>9, WalkPays, SMTT(30)
<1>2. CASE End(c, i) /\ ~fenced(c, i)
  <2>1. Goes(c, i, Idle)
    BY <1>0, <1>2, Zenon DEF Goes, End, Set, runVars
  <2> QED
    BY <1>0, <1>2, <2>1, BrokenOffPays, Zenon
<1> QED
  BY <1>1, <1>2, Zenon DEF runCompensation, WalkHeartbeatError

\* The walk goes on without a record, or ends.
LEMMA ProceedPays ==
    ASSUME Sizes, SagaInv, Accounts, NEW c \in Coordinators, NEW i \in Instances,
           \/ At(c, i, "record") /\ Proceed(c, i) /\ (~fenced(c, i) \/ Mishap(i))
           \/ FinishWalk(c, i),
           UNCHANGED <<journalVars, runVars>>, UNCHANGED mishaps \/ Mishap(i)
    PROVE  Accounts'
<1> DEFINE old == drive[c][i]
           l == log[i]
<1>0. old \in Drives
  BY LogTyped, Zenon
<1>1. CASE At(c, i, "record") /\ Proceed(c, i) /\ (~fenced(c, i) \/ Mishap(i))
  <2> DEFINE d == [drive[c][i] EXCEPT !.at = "walk", !.step = 0, !.ok = FALSE]
  <2>1. d.at = "walk" /\ d.todo = old.todo /\ old.at = "record"
    BY <1>0, <1>1, Zenon DEF Drives, At
  <2>2. Goes(c, i, d)
    BY <1>1, Zenon DEF Goes, Proceed, Set, runVars
  <2> HIDE DEF d
  <2>3. \A s \in Steps : UndoLeft(d, l, s) => UndoLeft(old, l, s)
    BY <2>1, Zenon DEF UndoLeft
  <2>4. ~fenced(c, i) \/ mishaps'[i] # mishaps[i]
    BY <1>1 DEF Mishap, SagaInv, SagaTypeOK
  <2>9. /\ old.at \in {"rollback", "walk", "record"}
        /\ d.at \notin {"lead", "begin", "preflight", "run"}
    BY <2>1, <2>2, <2>3, <2>4, ZenonT(60)
  <2> QED
    BY <2>1, <2>2, <2>3, <2>4, <2>9, WalkPays, SMTT(30)
<1>2. CASE FinishWalk(c, i)
  <2>1. PICK w : Set(c, i, Mark(c, i, w))
    BY <1>2, Zenon DEF FinishWalk
  <2> DEFINE d == Mark(c, i, w)
  <2>2. d.at = "mark" /\ old.at = "walk" /\ ~At(c, i, "record")
    BY <1>0, <1>2, Zenon DEF Drives, At, Mark, FinishWalk
  <2>3. Goes(c, i, d)
    BY <2>1, Zenon DEF Goes, Set, runVars
  <2> HIDE DEF d
  <2>4. \A s \in Steps : ~UndoLeft(d, l, s)
    BY <2>2, PlacesOfCalls, Zenon
  <2>9. /\ old.at \in {"rollback", "walk", "record"}
        /\ d.at \notin {"lead", "begin", "preflight", "run"}
    BY <2>2, <2>3, <2>4, Zenon
  <2> QED
    BY <2>2, <2>3, <2>4, <2>9, WalkPays, SMTT(30)
<1> QED
  BY <1>1, <1>2, Zenon

\* Compensate is called.
LEMMA UndoPays ==
    ASSUME Sizes, SagaInv, Accounts, NEW c \in Coordinators, NEW i \in Instances,
           At(c, i, "walk"), NEW n \in drive[c][i].todo, log[i][n].step \in Compensable, Undo(c, i, n),
           UNCHANGED <<journalVars, mishaps>>
    PROVE  Accounts'
<1> DEFINE old == drive[c][i]
           l == log[i]
           t == log[i][n].step
<1>0. /\ old \in Drives /\ old.at = "walk" /\ ~At(c, i, "idle") /\ l \in Seq(Events) /\ LogOK(l)
      /\ old.todo \subseteq PositionsOf(l, "StepCompleted")
  BY LogTyped, Zenon DEF At, DriveOK
<1>1. PICK d : /\ drive' = [drive EXCEPT ![c][i] = d]
               /\ d.at = "record" /\ d.step = t /\ d.todo = old.todo \ {n}
  <2> DEFINE taken == [[drive[c][i] EXCEPT !.todo = @ \ {n}] EXCEPT !.at = "record", !.step = t]
             good == [taken EXCEPT !.ok = TRUE]
             failed == [taken EXCEPT !.ok = FALSE, !.bad = TRUE]
  <2>1. /\ good.at = "record" /\ good.step = t /\ good.todo = old.todo \ {n}
        /\ failed.at = "record" /\ failed.step = t /\ failed.todo = old.todo \ {n}
    BY <1>0, Zenon DEF Drives
  <2>2. drive' = [drive EXCEPT ![c][i] = good] \/ drive' = [drive EXCEPT ![c][i] = failed]
    BY Zenon DEF Undo, Take, Set
  <2> HIDE DEF good, failed
  <2> QED
    BY <2>1, <2>2, Zenon
<1>2. t \in Steps
  BY JournalAssumption, Zenon
<1>3. /\ \A j \in Instances \ {i} : ran'[j] = ran[j] /\ undos'[j] = undos[j]
      /\ undos'[i][t] = undos[i][t] + 1 /\ \A s \in Steps \ {t} : undos'[i][s] = undos[i][s]
      /\ ran' = ran
  BY <1>2, Zenon DEF Undo, SagaInv, SagaTypeOK
<1>4. Moves(c, i, d)
  BY <1>1, <1>3, Zenon DEF Moves
<1>5. /\ \A j \in Instances \ {i} : Untouched(j)
      /\ Turns(DrivesOf(i), DrivesOf(i)', c, d)
      /\ status'[i] = status[i] /\ log'[i] = log[i] /\ Holder(i)' = Holder(i)
      /\ mishaps'[i] = mishaps[i]
  BY <1>4, MovesTyped, Zenon
<1>6. /\ PaidFor(i) /\ mishaps[i] \in Nat /\ mishaps[i] <= mishaps[i] /\ DrivesOf(i)[c] = old
      /\ \A s \in Steps : ran[i][s] \in Nat /\ undos[i][s] \in Nat
  <2>1. mishaps[i] \in Nat => mishaps[i] <= mishaps[i]
    OBVIOUS
  <2> QED
    BY <2>1, AccountTyped, Zenon
<1>7. ASSUME NEW s \in Steps
      PROVE  UndoLeft(d, l, s) => UndoLeft(DrivesOf(i)[c], l, s)
  BY <1>0, <1>1, <1>6, Zenon DEF UndoLeft, Waits
<1>8. UndosPaid(undos'[i][t], DrivesOf(i)', Holder(i), status[i], l, mishaps[i], t)
  <2>1. \A m \in old.todo : l[m].step = m
    BY <1>0, Zenon DEF LogOK, OneRun, PositionsOf
  <2>2. ~Waits(l, d.todo, t) /\ Waits(l, old.todo, t)
    BY <1>1, <2>1, Zenon DEF Waits
  <2>3. ~UndoLeft(d, l, t) /\ UndoLeft(DrivesOf(i)[c], l, t) /\ UndoesNow(d, status[i], l, t)
    BY <1>0, <1>1, <1>6, <2>2, Zenon DEF UndoLeft, UndoesNow
  <2>4. UndosPaid(undos[i][t], DrivesOf(i), Holder(i), status[i], l, mishaps[i], t)
    BY <1>2, <1>6, Zenon DEF PaidFor
  <2>5. UndosPaid(undos[i][t] + 1, DrivesOf(i)', Holder(i), status[i], l, mishaps[i], t)
    BY <1>2, <1>5, <1>6, <2>3, <2>4, UndoIsPaid, Zenon
  <2> QED
    BY <1>3, <2>5, Zenon
<1>9. ASSUME NEW s \in Steps \ {t}
      PROVE  UndosPaid(undos'[i][s], DrivesOf(i)', Holder(i), status[i], l, mishaps[i], s)
  <2>1. UndoKept(DrivesOf(i)[c], d, status[i], l, s)
    BY <1>0, <1>6, UndoIsKept, Zenon
  <2>2. UndosPaid(undos[i][s], DrivesOf(i), Holder(i), status[i], l, mishaps[i], s)
    BY <1>6, Zenon DEF PaidFor
  <2>3. UndosPaid(undos[i][s], DrivesOf(i)', Holder(i), status[i], l, mishaps[i], s)
    BY <1>5, <1>6, <1>7, <2>1, <2>2, UndosStayPaid, Zenon
  <2> QED
    BY <1>3, <2>3, Zenon
<1>10. ASSUME NEW s \in Steps
       PROVE  RunsPaid(ran[i][s], DrivesOf(i)', Holder(i), status[i], l, mishaps[i], s)
  <2>1. RunsLeft(d, l, s) = {} /\ RunKept(DrivesOf(i)[c], d, status[i], l, s)
    <3>1. RunsLeft(d, l, s) = {} /\ ~RunsNow(old, status[i], l, s)
      BY <1>0, <1>1, PlacesOfCalls, Zenon
    <3> QED
      BY <1>6, <3>1, Zenon DEF RunKept
  <2>2. RunsPaid(ran[i][s], DrivesOf(i), Holder(i), status[i], l, mishaps[i], s)
    BY <1>6, Zenon DEF PaidFor
  <2>3. RunsLeft(d, l, s) \subseteq RunsLeft(DrivesOf(i)[c], l, s)
    BY <2>1, Zenon
  <2> QED
    BY <1>5, <1>6, <2>1, <2>2, <2>3, RunsStayPaid, Zenon
<1>11. PaidFor(i)'
  BY <1>3, <1>5, <1>8, <1>9, <1>10, Zenon DEF PaidFor
<1> QED
  BY <1>0, <1>5, <1>11, AccountsFrame, DrivenIsEnrolled, Zenon

\* compensateOneStep calls Compensate and takes the step off the walk.
LEMMA CompensatePays ==
    ASSUME Sizes, SagaInv, Accounts, NEW c \in Coordinators, NEW i \in Instances, compensateOneStep(c, i)
    PROVE  Accounts'
<1> DEFINE old == drive[c][i]
           l == log[i]
<1>0. /\ old \in Drives /\ old.at = "walk" /\ At(c, i, "walk") /\ ~At(c, i, "record")
      /\ UNCHANGED <<journalVars, mishaps>>
  BY LogTyped, Zenon DEF At, compensateOneStep
<1>1. PICK n \in old.todo :
        \/ l[n].step \in Compensable /\ Undo(c, i, n)
        \/ Set(c, i, Take(c, i, n)) /\ UNCHANGED runVars
  BY Zenon DEF compensateOneStep
<1>2. CASE l[n].step \in Compensable /\ Undo(c, i, n)
  BY <1>0, <1>2, UndoPays, ZenonT(60)
<1>3. CASE Set(c, i, Take(c, i, n)) /\ UNCHANGED runVars
  <2> DEFINE d == Take(c, i, n)
  <2>1. d.at = "walk" /\ d.todo \subseteq old.todo
    BY <1>0, Zenon DEF Drives, Take
  <2>2. Goes(c, i, d)
    BY <1>0, <1>3, Zenon DEF Goes, Set, runVars
  <2> HIDE DEF d
  <2>3. \A s \in Steps : UndoLeft(d, l, s) => UndoLeft(old, l, s)
    BY <1>0, <2>1, Zenon DEF UndoLeft, Waits
  <2>9. /\ old.at \in {"rollback", "walk", "record"}
        /\ d.at \notin {"lead", "begin", "preflight", "run"}
    BY <1>0, <2>1, <2>2, <2>3, Zenon
  <2> QED
    BY <1>0, <2>1, <2>2, <2>3, <2>9, WalkPays, SMTT(30)
<1> QED
  BY <1>1, <1>2, <1>3, Zenon

\* The drives dr have no more calls left with the log k than with the log l.
LessOn(dr, l, k, s) ==
    \A b \in Coordinators :
        /\ RunsLeft(dr[b], k, s) \subseteq RunsLeft(dr[b], l, s)
        /\ UndoLeft(dr[b], k, s) => UndoLeft(dr[b], l, s)

\* With an event more on the log, calls of Run are still paid for.
LEMMA RunsOnLonger ==
    ASSUME Sizes, NEW dr, NEW dq, NEW c \in Coordinators, NEW d, NEW h, NEW g, NEW st, NEW su,
           NEW l, NEW k, NEW s, NEW n \in Nat, NEW m \in Nat,
           Turns(dr, dq, c, d), RunsPaid(n, dr, h, st, l, m, s), LessOn(dr, l, k, s),
           RunsLeft(d, k, s) \subseteq RunsLeft(dr[c], l, s),
           RunEngaged(dr, h, st, l, s) => RunEngaged(dq, g, su, k, s)
    PROVE  RunsPaid(n, dq, g, su, k, m, s)
<1> DEFINE x == [b \in Coordinators |-> RunsLeft(dr[b], l, s)]
           y == [b \in Coordinators |-> RunsLeft(dq[b], k, s)]
           e == RunEngaged(dr, h, st, l, s)
           f == RunEngaged(dq, g, su, k, s)
<1>1. e \in BOOLEAN /\ f \in BOOLEAN
  BY Zenon DEF RunEngaged
<1>2. NoMore(x, y)
  BY Zenon DEF NoMore, Turns, LessOn
<1>3. Paid(n, x, m, e, MaxAttempts) /\ MaxAttempts \in Nat
  BY SagaAssumption, Zenon DEF RunsPaid
<1>4. m <= m
  OBVIOUS
<1> HIDE DEF x, y, e, f
<1>5. Carries(e, f, m, m)
  BY Zenon DEF Carries, e, f
<1>6. Paid(n, y, m, f, MaxAttempts)
  BY <1>1, <1>2, <1>3, <1>4, <1>5, PaysOn, ZenonT(60)
<1> QED
  BY <1>6, Zenon DEF RunsPaid, y, f

\* And so are calls of Compensate.
LEMMA UndosOnLonger ==
    ASSUME Sizes, NEW dr, NEW dq, NEW c \in Coordinators, NEW d, NEW h, NEW g, NEW st, NEW su,
           NEW l, NEW k, NEW s, NEW n \in Nat, NEW m \in Nat,
           Turns(dr, dq, c, d), UndosPaid(n, dr, h, st, l, m, s), LessOn(dr, l, k, s),
           UndoLeft(d, k, s) => UndoLeft(dr[c], l, s),
           UndoEngaged(dr, h, st, l, s) => UndoEngaged(dq, g, su, k, s)
    PROVE  UndosPaid(n, dq, g, su, k, m, s)
<1> DEFINE x == [b \in Coordinators |-> UndosLeft(dr[b], l, s)]
           y == [b \in Coordinators |-> UndosLeft(dq[b], k, s)]
           e == UndoEngaged(dr, h, st, l, s)
           f == UndoEngaged(dq, g, su, k, s)
<1>1. e \in BOOLEAN /\ f \in BOOLEAN
  BY Zenon DEF UndoEngaged
<1>2. NoMore(x, y)
  BY Zenon DEF NoMore, Turns, LessOn, UndosLeft
<1>3. Paid(n, x, m, e, 1) /\ 1 \in Nat
  BY Zenon DEF UndosPaid
<1>4. m <= m /\ 1 \in Nat
  OBVIOUS
<1> HIDE DEF x, y, e, f
<1>5. Carries(e, f, m, m)
  BY Zenon DEF Carries, e, f
<1>6. Paid(n, y, m, f, 1)
  BY <1>1, <1>2, <1>3, <1>4, <1>5, PaysOn, ZenonT(60)
<1> QED
  BY <1>6, Zenon DEF UndosPaid, y, f

\* On a longer log no drive may call more than before.
LEMMA LessOnLonger ==
    ASSUME NEW dr, NEW l \in Seq(Events), NEW e \in Events, NEW s,
           \A b \in Coordinators : Within(dr[b], l), MayRun(Append(l, e), s) => MayRun(l, s)
    PROVE  LessOn(dr, l, Append(l, e), s) /\ \A b \in Coordinators : Within(dr[b], Append(l, e))
<1>1. LessOn(dr, l, Append(l, e), s)
  BY LeftOfLonger, Zenon DEF LessOn
<1>2. 0 .. Len(l) \subseteq 0 .. Len(Append(l, e)) /\ DOMAIN l \subseteq DOMAIN Append(l, e)
  BY Appended, Positions
<1> QED
  BY <1>1, <1>2, Zenon DEF Within

\* Only the completion of the step that comes next makes a step need no run.
LEMMA MayRunLess ==
    ASSUME Counting, NEW l \in Seq(Events), NEW e \in Events, NEW s \in Steps,
           e.kind = "StepCompleted" => \A n \in DOMAIN l : l[n].kind = "StepCompleted"
    PROVE  /\ MayRun(Append(l, e), s) => MayRun(l, s)
           /\ e.kind = "StepFailed" => ~MayRun(Append(l, e), s)
<1>1. FoldFails(l) \/ e.kind = "StepFailed" => FoldFails(Append(l, e))
  <2>1. /\ \A n \in DOMAIN l : n \in DOMAIN Append(l, e) /\ Append(l, e)[n] = l[n]
        /\ Len(l) + 1 \in DOMAIN Append(l, e) /\ Append(l, e)[Len(l) + 1] = e
    BY Appended, Positions
  <2> QED
    BY <2>1, Zenon DEF FoldFails, KindsOf
<1>2. CASE e.kind # "StepCompleted"
  <2>1. cursor(Append(l, e)) = cursor(l)
    BY <1>2, CursorStays, Zenon
  <2> QED
    BY <1>1, <2>1, Zenon DEF MayRun
<1>3. CASE e.kind = "StepCompleted"
  <2>1. cursor(Append(l, e)) = Len(l) + 1 /\ cursor(l) = Len(l) /\ Len(l) \in Nat
    BY <1>3, CursorMoves, Positions, Zenon
  <2>2. s > cursor(Append(l, e)) => s > cursor(l)
    BY <2>1 DEF Steps
  <2> QED
    BY <1>1, <1>3, <2>2, Zenon DEF MayRun
<1> QED
  BY <1>2, <1>3, Zenon

\* What a drive has seen, and what waits for it, is on the log.
LEMMA DrivesWithin ==
    ASSUME SagaInv, NEW i \in Instances
    PROVE  \A b \in Coordinators : Within(DrivesOf(i)[b], log[i]) /\ DrivesOf(i)[b] = drive[b][i]
<1> SUFFICES ASSUME NEW b \in Coordinators PROVE Within(drive[b][i], log[i])
  BY Zenon DEF DrivesOf
<1>1. /\ drive[b][i] \in Drives /\ DriveOK(drive[b][i], log[i], undone[i], deploy.removable)
      /\ Len(log[i]) \in Nat
  BY LogTyped, Positions, ZenonT(60)
<1>2. drive[b][i].seen \in 0 .. Len(log[i])
  BY <1>1 DEF Drives, DriveOK
<1> QED
  BY <1>1, <1>2, Zenon DEF Within, DriveOK, PositionsOf

\* The holder c of the lease writes: the saga i gets the status st and the log l.
Writes(c, i, d, st, l) ==
    /\ drive' = [drive EXCEPT ![c][i] = d]
    /\ status' = [status EXCEPT ![i] = st]
    /\ log' = [log EXCEPT ![i] = l]
    /\ \A j \in Instances \ {i} : lease'[j] = lease[j] /\ live'[j] = live[j]
    /\ UNCHANGED <<mishaps, ran, undos>>

\* What a write by c leaves alone.
LEMMA WritesTyped ==
    ASSUME SagaInv, NEW c \in Coordinators, NEW i \in Instances, NEW d, NEW st, NEW l,
           Writes(c, i, d, st, l)
    PROVE  /\ \A j \in Instances \ {i} : Untouched(j)
           /\ Turns(DrivesOf(i), DrivesOf(i)', c, d)
           /\ status'[i] = st /\ log'[i] = l
           /\ mishaps' = mishaps /\ ran' = ran /\ undos' = undos
<1>1. SagaTypeOK
  BY Zenon DEF SagaInv
<1>2. \A b \in Coordinators, j \in Instances :
        drive'[b][j] = IF b = c /\ j = i THEN d ELSE drive[b][j]
  BY <1>1, Zenon DEF Writes, SagaTypeOK
<1>3. /\ status'[i] = st /\ log'[i] = l
      /\ \A j \in Instances \ {i} : status'[j] = status[j] /\ log'[j] = log[j]
  BY <1>1, Zenon DEF Writes, SagaTypeOK
<1>a. \A j \in Instances \ {i} :
        /\ lease'[j] = lease[j] /\ live'[j] = live[j]
        /\ mishaps'[j] = mishaps[j] /\ ran'[j] = ran[j] /\ undos'[j] = undos[j]
  BY Zenon DEF Writes
<1>4. \A j \in Instances \ {i} : Untouched(j)
  BY <1>2, <1>3, <1>a, Zenon DEF Untouched
<1>5. Turns(DrivesOf(i), DrivesOf(i)', c, d)
  BY <1>2, Zenon DEF DrivesOf, Turns
<1> QED
  BY <1>3, <1>4, <1>5, Zenon DEF Writes

\* A write that ends the round of its drive.
LEMMA WritePays ==
    ASSUME Sizes, SagaInv, Accounts, NEW c \in Coordinators, NEW i \in Instances, NEW d, NEW st, NEW l,
           Writes(c, i, d, st, l), st # "absent",
           \A s \in Steps :
                /\ LessOn(DrivesOf(i), log[i], l, s)
                /\ RunsLeft(d, l, s) = {}
                /\ RunEngaged(DrivesOf(i), Holder(i), status[i], log[i], s) =>
                        RunEngaged(DrivesOf(i)', Holder(i)', st, l, s)
                /\ UndosPaid(undos[i][s], DrivesOf(i)', Holder(i)', st, l, mishaps[i], s)
    PROVE  Accounts'
<1>1. /\ \A j \in Instances \ {i} : Untouched(j)
      /\ Turns(DrivesOf(i), DrivesOf(i)', c, d)
      /\ status'[i] = st /\ log'[i] = l
      /\ mishaps' = mishaps /\ ran' = ran /\ undos' = undos
  BY WritesTyped, Zenon
<1>2. /\ PaidFor(i) /\ mishaps[i] \in Nat
      /\ \A s \in Steps : ran[i][s] \in Nat
  BY AccountTyped, Zenon
<1>3. ASSUME NEW s \in Steps
      PROVE  RunsPaid(ran[i][s], DrivesOf(i)', Holder(i)', st, l, mishaps[i], s)
  <2>1. RunsPaid(ran[i][s], DrivesOf(i), Holder(i), status[i], log[i], mishaps[i], s)
    BY <1>2, Zenon DEF PaidFor
  <2>2. RunsLeft(d, l, s) \subseteq RunsLeft(DrivesOf(i)[c], log[i], s)
    BY Zenon
  <2> QED
    BY <1>1, <1>2, <2>1, <2>2, RunsOnLonger, Zenon
<1>4. PaidFor(i)'
  BY <1>1, <1>3, Zenon DEF PaidFor
<1> QED
  BY <1>1, <1>4, AccountsFrame, Zenon

\* A write of a drive that has nothing to do with the undoing of steps, or settles one.
LEMMA WriteUndosPay ==
    ASSUME Sizes, SagaInv, Accounts, NEW c \in Coordinators, NEW i \in Instances, NEW d, NEW st, NEW l,
           Writes(c, i, d, st, l), NEW s \in Steps,
           LessOn(DrivesOf(i), log[i], l, s),
           UndoLeft(d, l, s) => UndoLeft(drive[c][i], log[i], s),
           UndoEngaged(DrivesOf(i), Holder(i), status[i], log[i], s) =>
                UndoEngaged(DrivesOf(i)', Holder(i)', st, l, s)
    PROVE  UndosPaid(undos[i][s], DrivesOf(i)', Holder(i)', st, l, mishaps[i], s)
<1>1. Turns(DrivesOf(i), DrivesOf(i)', c, d)
  BY WritesTyped, Zenon
<1>2. /\ PaidFor(i) /\ mishaps[i] \in Nat /\ undos[i][s] \in Nat /\ DrivesOf(i)[c] = drive[c][i]
  BY AccountTyped, Zenon
<1>3. UndosPaid(undos[i][s], DrivesOf(i), Holder(i), status[i], log[i], mishaps[i], s)
  BY <1>2, Zenon DEF PaidFor
<1>4. UndoLeft(d, l, s) => UndoLeft(DrivesOf(i)[c], log[i], s)
  BY <1>2, Zenon
<1> QED
  BY <1>1, <1>2, <1>3, <1>4, UndosOnLonger, Zenon

\* A write that ends the drive and starts no rollback.
LEMMA LastWritePays ==
    ASSUME Sizes, SagaInv, Accounts, NEW c \in Coordinators, NEW i \in Instances, NEW st, NEW l,
           Writes(c, i, Idle, st, l), st \notin {"absent", "compensating"},
           \A s \in Steps :
                /\ LessOn(DrivesOf(i), log[i], l, s)
                /\ RunEngaged(DrivesOf(i), Holder(i), status[i], log[i], s) =>
                        RunEngaged(DrivesOf(i)', Holder(i)', st, l, s)
    PROVE  Accounts'
<1>1. ASSUME NEW s \in Steps
      PROVE  RunsLeft(Idle, l, s) = {} /\ ~UndoLeft(Idle, l, s)
  BY PlacesOfCalls, Zenon DEF Idle
<1>2. ASSUME NEW s \in Steps
      PROVE  UndosPaid(undos[i][s], DrivesOf(i)', Holder(i)', st, l, mishaps[i], s)
  <2>1. UndoEngaged(DrivesOf(i)', Holder(i)', st, l, s)
    BY Zenon DEF UndoEngaged
  <2> QED
    BY <1>1, <2>1, WriteUndosPay, Zenon
<1> QED
  BY <1>1, <1>2, WritePays, Zenon

\* An end that the journal refuses to a drive that no longer has the lease.
LEMMA RefusedPays ==
    ASSUME Sizes, SagaInv, Accounts, NEW c \in Coordinators, NEW i \in Instances,
           ~At(c, i, "idle"), ~fenced(c, i), End(c, i), UNCHANGED <<journalVars, mishaps, runVars>>
    PROVE  Accounts'
<1>1. Goes(c, i, Idle)
  BY Zenon DEF Goes, End, Set, runVars
<1> QED
  BY <1>1, BrokenOffPays, Zenon

\* One event, or one and the terminal event behind it, with a drive that ends.
LEMMA CommitPays ==
    ASSUME Counting, Sizes, SagaInv, Accounts, NEW c \in Coordinators, NEW i \in Instances,
           NEW e \in Events, NEW w \in {"succeeded", "failed"},
           e.kind = "StepCompleted" => \A n \in DOMAIN log[i] : log[i][n].kind = "StepCompleted",
           Projected(status[i], e.kind) = "running",
           \A s \in Steps :
                RunEngaged(DrivesOf(i), Holder(i), status[i], log[i], s) => ~MayRun(Append(log[i], e), s),
           Record(c, i, e) \/ AppendAndMark(c, i, e, w),
           End(c, i), UNCHANGED <<mishaps, runVars>>
    PROVE  Accounts'
<1> DEFINE l == Append(log[i], e)
           a == Append(l, Event(w))
<1>0. log[i] \in Seq(Events) /\ l \in Seq(Events) /\ SagaTypeOK
  BY LogTyped, Appended, Zenon DEF SagaInv
<1>1. Event(w) \in Events /\ Event(w).kind = w /\ w # "StepCompleted" /\ w \notin {"absent", "compensating", "pending", "running"}
  BY EventTyped, Zenon DEF Terminal
<1>2. ASSUME NEW s \in Steps PROVE LessOn(DrivesOf(i), log[i], l, s) /\ LessOn(DrivesOf(i), log[i], a, s)
  <2>1. \A b \in Coordinators : Within(DrivesOf(i)[b], log[i])
    BY DrivesWithin, Zenon
  <2>2. MayRun(l, s) => MayRun(log[i], s)
    BY <1>0, MayRunLess, Zenon
  <2>3. LessOn(DrivesOf(i), log[i], l, s) /\ \A b \in Coordinators : Within(DrivesOf(i)[b], l)
    BY <1>0, <2>1, <2>2, LessOnLonger, Zenon
  <2> HIDE DEF l
  <2>4. MayRun(a, s) => MayRun(l, s)
    BY <1>0, <1>1, MayRunLess, Zenon
  <2>5. LessOn(DrivesOf(i), l, a, s)
    BY <1>0, <1>1, <2>3, <2>4, LessOnLonger, Zenon
  <2> QED
    BY <2>3, <2>5, Zenon DEF LessOn
<1>3. CASE /\ log' = [log EXCEPT ![i] = l] /\ status' = [status EXCEPT ![i] = "running"]
           /\ lease' = lease /\ live' \in {live, [live EXCEPT ![i] = FALSE]}
  <2>1. Writes(c, i, Idle, "running", l)
    BY <1>0, <1>3, Zenon DEF Writes, End, Set, runVars, SagaTypeOK
  <2>2. ASSUME NEW s \in Steps,
               RunEngaged(DrivesOf(i), Holder(i), status[i], log[i], s)
        PROVE  RunEngaged(DrivesOf(i)', Holder(i)', "running", l, s)
    BY <2>2, Zenon DEF RunEngaged
  <2> HIDE DEF l
  <2> QED
    BY <1>2, <2>1, <2>2, LastWritePays, Zenon
<1>4. CASE /\ log' = [log EXCEPT ![i] = a] /\ status' = [status EXCEPT ![i] = w]
           /\ lease' = [lease EXCEPT ![i] = Nobody] /\ live' = [live EXCEPT ![i] = FALSE]
  <2>1. Writes(c, i, Idle, w, a)
    BY <1>0, <1>4, Zenon DEF Writes, End, Set, runVars, SagaTypeOK
  <2>2. ASSUME NEW s \in Steps PROVE RunEngaged(DrivesOf(i)', Holder(i)', w, a, s)
    BY <1>1, Zenon DEF RunEngaged
  <2> HIDE DEF a
  <2> QED
    BY <1>1, <1>2, <2>1, <2>2, LastWritePays, Zenon
<1>5. CASE Record(c, i, e)
  BY <1>0, <1>3, <1>5, Zenon DEF Record, SagaTypeOK
<1>6. CASE AppendAndMark(c, i, e, w)
  BY <1>0, <1>3, <1>4, <1>6, Zenon DEF AppendAndMark, SagaTypeOK
<1> QED
  BY <1>5, <1>6, Zenon

\* What the holder of the lease with the result of step t in its hands is engaged in.
LEMMA EngagedForward ==
    ASSUME Counting, SagaInv, NEW c \in Coordinators, NEW i \in Instances, fenced(c, i),
           drive[c][i].at \in {"commit", "failed"}, NEW s \in Steps,
           RunEngaged(DrivesOf(i), Holder(i), status[i], log[i], s)
    PROVE  s <= Len(log[i]) + 1
<1>1. /\ History(c, i) = log[i] /\ status[i] \in {"pending", "running"} /\ ~FoldFails(log[i])
      /\ cursor(log[i]) = Len(log[i])
  BY HolderForward, ZenonT(60) DEF fenced
<1>2. Len(log[i]) \in Nat /\ s \in Nat
  BY LogTyped, Positions, JournalAssumption, SMTT(30) DEF Steps
<1>3. Holder(i) = c /\ DrivesOf(i)[c] = drive[c][i]
  BY Zenon DEF Holder, DrivesOf, fenced
<1>4. CASE MayRun(log[i], s)
  <2>1. RunsNow(drive[c][i], status[i], log[i], s)
    BY <1>1, <1>3, <1>4, Zenon DEF RunEngaged
  <2>2. Len(log[i]) + 1 = s
    BY <1>1, <2>1, Zenon DEF RunsNow, History
  <2> QED
    BY <1>2, <2>2
<1>5. CASE ~MayRun(log[i], s)
  <2>1. ~(s > Len(log[i]))
    BY <1>1, <1>5, Zenon DEF MayRun
  <2> QED
    BY <1>2, <2>1
<1> QED
  BY <1>4, <1>5, Zenon

\* A completed step is not run again.
LEMMA CommitCompletedPays ==
    ASSUME Counting, Sizes, SagaInv, Accounts, NEW c \in Coordinators, NEW i \in Instances,
           commitStepCompleted(c, i)
    PROVE  Accounts'
<1> DEFINE e == StepEvent("StepCompleted", NextStep(c, i))
<1>0. /\ End(c, i) /\ UNCHANGED <<mishaps, runVars>> /\ drive[c][i].at = "commit" /\ ~At(c, i, "idle")
      /\ \/ ~CanAppend(c, i, e) /\ UNCHANGED journalVars
         \/ Record(c, i, e) \/ AppendAndMark(c, i, e, "succeeded")
  BY Zenon DEF commitStepCompleted, At
<1>1. e.kind = "StepCompleted"
  BY Zenon DEF StepEvent
<1>2. CASE ~fenced(c, i)
  <2>1. UNCHANGED journalVars
    BY <1>0, <1>2, Zenon DEF Record, AppendAndMark, CanAppend
  <2> QED
    BY <1>0, <1>2, <2>1, RefusedPays, Zenon
<1>3. CASE fenced(c, i)
  <2>1. /\ status[i] \in {"pending", "running"}
        /\ \A n \in DOMAIN log[i] : log[i][n].kind = "StepCompleted"
        /\ NextStep(c, i) = Len(log[i]) + 1
    BY <1>0, <1>3, HolderForward, ZenonT(60) DEF fenced
  <2>2. log[i] \in Seq(Events) /\ Len(log[i]) \in Nat
    BY LogTyped, Positions, Zenon
  <2>3. e \in Events
    BY <2>1, <2>2, EventTyped DEF StepKinds
  <2>4. Record(c, i, e) \/ AppendAndMark(c, i, e, "succeeded")
    BY <1>0, <1>1, <1>3, <2>1, Zenon DEF CanAppend, InPhase
  <2>5. Projected(status[i], e.kind) = "running"
    BY <1>1, Zenon DEF Projected
  <2> HIDE DEF e
  <2>6. ASSUME NEW s \in Steps, RunEngaged(DrivesOf(i), Holder(i), status[i], log[i], s)
        PROVE  ~MayRun(Append(log[i], e), s)
    <3>a. drive[c][i].at \in {"commit", "failed"}
      BY <1>0, Zenon
    <3>b. s <= Len(log[i]) + 1
      BY <1>3, <2>6, <3>a, EngagedForward, ZenonT(60)
    <3>1. s <= Len(log[i]) + 1 /\ s \in Nat
      BY <3>b, JournalAssumption DEF Steps
    <3>2. cursor(Append(log[i], e)) = Len(log[i]) + 1
      BY <1>1, <2>1, <2>2, <2>3, CursorMoves, Zenon
    <3> QED
      BY <2>2, <3>1, <3>2 DEF MayRun
  <2> QED
    BY <1>0, <2>1, <2>3, <2>4, <2>5, <2>6, CommitPays, ZenonT(60)
<1> QED
  BY <1>2, <1>3, Zenon

\* A failed step of a saga that has nothing to undo closes it.
LEMMA CommitFailedPays ==
    ASSUME Counting, Sizes, SagaInv, Accounts, NEW c \in Coordinators, NEW i \in Instances,
           commitStepFailed(c, i)
    PROVE  Accounts'
<1> DEFINE e == StepEvent("StepFailed", NextStep(c, i))
<1>0. /\ End(c, i) /\ UNCHANGED <<mishaps, runVars>> /\ drive[c][i].at = "failed" /\ ~At(c, i, "idle")
      /\ \/ ~CanAppend(c, i, e) /\ UNCHANGED journalVars
         \/ AppendAndMark(c, i, e, "failed")
  BY Zenon DEF commitStepFailed, At
<1>1. e.kind = "StepFailed"
  BY Zenon DEF StepEvent
<1>2. CASE ~fenced(c, i)
  <2>1. UNCHANGED journalVars
    BY <1>0, <1>2, Zenon DEF AppendAndMark, CanAppend
  <2> QED
    BY <1>0, <1>2, <2>1, RefusedPays, Zenon
<1>3. CASE fenced(c, i)
  <2>1. status[i] \in {"pending", "running"} /\ NextStep(c, i) = Len(log[i]) + 1
    BY <1>0, <1>3, HolderForward, Zenon DEF fenced
  <2>2. log[i] \in Seq(Events) /\ Len(log[i]) \in Nat
    BY LogTyped, Positions, Zenon
  <2>3. e \in Events
    BY <2>1, <2>2, EventTyped, SMTT(30) DEF StepKinds
  <2>4. AppendAndMark(c, i, e, "failed")
    BY <1>0, <1>1, <1>3, <2>1, Zenon DEF CanAppend, InPhase
  <2>5. Projected(status[i], e.kind) = "running" /\ e.kind # "StepCompleted"
    BY <1>1, Zenon DEF Projected
  <2> HIDE DEF e
  <2>6. \A s \in Steps : ~MayRun(Append(log[i], e), s)
    BY <1>1, <2>2, <2>3, <2>5, MayRunLess, ZenonT(60)
  <2> QED
    BY <1>0, <2>3, <2>4, <2>5, <2>6, CommitPays, ZenonT(60)
<1> QED
  BY <1>2, <1>3, Zenon

\* A closed saga needs no round, and one that is refused was not in one.
LEMMA MarkTerminalPays ==
    ASSUME Counting, Sizes, SagaInv, Accounts, NEW c \in Coordinators, NEW i \in Instances,
           markTerminal(c, i)
    PROVE  Accounts'
<1> DEFINE w == drive[c][i].want
           e == Event(w)
           l == Append(log[i], e)
<1>0. /\ End(c, i) /\ UNCHANGED <<mishaps, runVars>> /\ drive[c][i].at = "mark" /\ ~At(c, i, "idle")
      /\ DriveOK(drive[c][i], log[i], undone[i], deploy.removable)
      /\ log[i] \in Seq(Events) /\ SagaTypeOK
  BY LogTyped, Zenon DEF markTerminal, At, SagaInv
<1>1. CASE UNCHANGED journalVars /\ ~(fenced(c, i) /\ CanTransitionTo(status[i], w))
  <2>1. Goes(c, i, Idle)
    BY <1>0, <1>1, Zenon DEF Goes, End, Set, runVars
  <2>2. ASSUME fenced(c, i), NEW s \in Steps
        PROVE  /\ RunKept(drive[c][i], Idle, status[i], log[i], s)
               /\ UndoKept(drive[c][i], Idle, status[i], log[i], s)
    <3>1. ~RunsNow(drive[c][i], status[i], log[i], s)
      BY <1>0, <1>1, <2>2, Zenon DEF RunsNow
    <3>2. ~UndoesNow(drive[c][i], status[i], log[i], s)
      BY <1>0, <1>1, <2>2, Zenon DEF UndoesNow, UndoLeft
    <3> QED
      BY <3>1, <3>2, Zenon DEF RunKept, UndoKept
  <2> QED
    BY <1>0, <2>1, <2>2, EndPays, Zenon
<1>2. CASE /\ status' = [status EXCEPT ![i] = w]
           /\ log' = [log EXCEPT ![i] = l]
           /\ lease' = [lease EXCEPT ![i] = Nobody]
           /\ live' = [live EXCEPT ![i] = FALSE]
  <2>1. /\ e \in Events /\ e.kind # "StepCompleted"
        /\ w \notin {"absent", "compensating", "pending", "running"}
    BY <1>0, EventTyped, Zenon DEF DriveOK, Terminal
  <2>2. Writes(c, i, Idle, w, l)
    BY <1>0, <1>2, Zenon DEF Writes, End, Set, runVars, SagaTypeOK
  <2> HIDE DEF w, e
  <2>3. ASSUME NEW s \in Steps
        PROVE  LessOn(DrivesOf(i), log[i], l, s) /\ RunEngaged(DrivesOf(i)', Holder(i)', w, l, s)
    <3>1. \A b \in Coordinators : Within(DrivesOf(i)[b], log[i])
      BY DrivesWithin, Zenon
    <3>2. MayRun(l, s) => MayRun(log[i], s)
      BY <1>0, <2>1, MayRunLess, Zenon
    <3>3. LessOn(DrivesOf(i), log[i], l, s)
      BY <1>0, <2>1, <3>1, <3>2, LessOnLonger, Zenon
    <3>4. RunEngaged(DrivesOf(i)', Holder(i)', w, l, s)
      BY <2>1, Zenon DEF RunEngaged
    <3> QED
      BY <3>3, <3>4, Zenon
  <2> HIDE DEF l
  <2> QED
    BY <2>1, <2>2, <2>3, LastWritePays, Zenon
<1> QED
  BY <1>1, <1>2, Zenon DEF markTerminal, MarkTerminal

\* Before a rollback is declared, no step was undone, and no drive has one to undo.
LEMMA NoneUndone ==
    ASSUME SagaInv, NEW i \in Instances, ~Started(log[i]), NEW s \in Steps
    PROVE  /\ undos[i][s] = 0
           /\ \A b \in Coordinators : ~UndoLeft(DrivesOf(i)[b], log[i], s)
<1>1. undos[i][s] = 0
  BY DEF SagaInv, SagaTypeOK
<1>2. ASSUME NEW b \in Coordinators PROVE ~UndoLeft(drive[b][i], log[i], s)
  <2>1. DriveOK(drive[b][i], log[i], undone[i], deploy.removable)
    BY LogTyped, Zenon
  <2> QED
    BY <2>1, Zenon DEF DriveOK, UndoLeft
<1> QED
  BY <1>1, <1>2, Zenon DEF DrivesOf

\* The start of a rollback ends the calls of Run and allows one round of Compensate.
LEMMA StartPays ==
    ASSUME Counting, Sizes, SagaInv, Accounts, NEW c \in Coordinators, NEW i \in Instances,
           appendCompensationStarted(c, i)
    PROVE  Accounts'
<1> DEFINE e == Event("CompensationStarted")
           l == Append(log[i], e)
           d == [drive[c][i] EXCEPT !.at = "rollback"]
<1>0. /\ drive[c][i].at = "failed" /\ drive[c][i] \in Drives /\ ~At(c, i, "idle")
      /\ UNCHANGED <<mishaps, runVars>> /\ log[i] \in Seq(Events) /\ SagaTypeOK
      /\ e \in Events /\ e.kind = "CompensationStarted"
  BY LogTyped, EventTyped, Zenon DEF appendCompensationStarted, At, SagaInv
<1>1. fenced(c, i) => /\ ~Started(log[i]) /\ ~FoldFails(log[i]) /\ History(c, i) = log[i]
                      /\ status[i] \in {"pending", "running"} /\ status[i] = Folded(log[i])
  BY <1>0, HolderForward, Zenon DEF fenced
<1>2. CASE UNCHANGED journalVars /\ End(c, i) /\ ~CanAppend(c, i, e)
  <2>1. ASSUME fenced(c, i) PROVE FALSE
    <3>1. log[i] # <<>>
      <4>1. "StepCompleted" \in KindsOf(log[i])
        BY <1>1, <2>1, Zenon DEF appendCompensationStarted, shouldCompensate
      <4> QED
        BY <4>1 DEF KindsOf
    <3>2. status[i] = "running"
      BY <1>1, <2>1, <3>1, Zenon DEF Folded, Terminal
    <3> QED
      BY <1>0, <1>2, <2>1, <3>2, SMTT(30) DEF CanAppend, InPhase, CanTransitionTo, Open, statusTransitions
  <2> QED
    BY <1>0, <1>2, <2>1, RefusedPays, Zenon
<1>3. CASE Record(c, i, e) /\ Goto(c, i, "rollback")
  <2>1. fenced(c, i)
    BY <1>3, Zenon DEF Record, CanAppend
  <2>2. d.at = "rollback"
    BY <1>0, Zenon DEF Drives
  <2>3. Writes(c, i, d, "compensating", l)
    BY <1>0, <1>3, Zenon DEF Writes, Record, Projected, Goto, Set, runVars
  <2> HIDE DEF e, d
  <2>4. ASSUME NEW s \in Steps
        PROVE  /\ LessOn(DrivesOf(i), log[i], l, s)
               /\ RunsLeft(d, l, s) = {}
               /\ RunEngaged(DrivesOf(i)', Holder(i)', "compensating", l, s)
    <3>1. \A b \in Coordinators : Within(DrivesOf(i)[b], log[i])
      BY DrivesWithin, Zenon
    <3>2. MayRun(l, s) => MayRun(log[i], s)
      BY <1>0, MayRunLess, Zenon
    <3>3. LessOn(DrivesOf(i), log[i], l, s)
      BY <1>0, <3>1, <3>2, LessOnLonger, Zenon
    <3>4. RunEngaged(DrivesOf(i)', Holder(i)', "compensating", l, s)
      BY Zenon DEF RunEngaged
    <3>5. RunsLeft(d, l, s) = {}
      BY <2>2, PlacesOfCalls, Zenon
    <3> QED
      BY <3>3, <3>4, <3>5, Zenon
  <2> HIDE DEF l
  <2>5. Turns(DrivesOf(i), DrivesOf(i)', c, d)
    BY <2>3, WritesTyped, Zenon
  <2>6. Holder(i)' = c
    BY <1>3, <2>1, Zenon DEF Record, Holder, fenced
  <2>7. ASSUME NEW s \in Steps
        PROVE  UndosPaid(undos[i][s], DrivesOf(i)', Holder(i)', "compensating", l, mishaps[i], s)
    <3> DEFINE y == [b \in Coordinators |-> UndosLeft(DrivesOf(i)'[b], l, s)]
               f == UndoEngaged(DrivesOf(i)', Holder(i)', "compensating", l, s)
               z == [b \in Coordinators |-> {}]
    <3>0. f \in BOOLEAN
      BY Zenon DEF UndoEngaged
    <3>1. undos[i][s] = 0 /\ \A b \in Coordinators \ {c} : y[b] = {}
      <4>1. undos[i][s] = 0 /\ \A b \in Coordinators : ~UndoLeft(DrivesOf(i)[b], log[i], s)
        BY <1>1, <2>1, NoneUndone, Zenon
      <4>2. \A b \in Coordinators \ {c} : DrivesOf(i)'[b] = DrivesOf(i)[b]
        BY <2>5, Zenon DEF Turns
      <4>3. \A b \in Coordinators \ {c} : ~UndoLeft(DrivesOf(i)'[b], l, s)
        BY <2>4, <4>1, <4>2, Zenon DEF LessOn
      <4> QED
        BY <4>1, <4>3, Zenon DEF UndosLeft
    <3>2. DrivesOf(i)'[c] = d
      BY <2>5, Zenon DEF Turns
    <3>3. UndoLeft(d, l, s) => f
      BY <2>6, <3>2, Zenon DEF UndoEngaged, UndoesNow
    <3>4. ~UndoLeft(d, l, s) => y[c] = {}
      BY <3>2, Zenon DEF UndosLeft
    <3>5. mishaps[i] \in Nat /\ 1 \in Nat /\ 0 \in Nat
      BY AccountTyped, Zenon
    <3>6. mishaps[i] <= mishaps[i] /\ FALSE \in BOOLEAN /\ \A b \in Coordinators : z[b] = {}
      BY <3>5
    <3> HIDE DEF y, f, z
    <3>7. CASE UndoLeft(d, l, s)
      <4>1. Paid(0, z, mishaps[i], FALSE, 1)
        BY <3>5, <3>6, NothingToPay, Zenon
      <4>2. \A b \in Coordinators \ {c} : y[b] \subseteq z[b]
        BY <3>1, Zenon
      <4>3. Paid(0, y, mishaps[i], TRUE, 1)
        BY <3>5, <3>6, <4>1, <4>2, PaysForRound, ZenonT(60)
      <4>4. f = TRUE
        BY <3>0, <3>3, <3>7, ZenonT(60)
      <4> QED
        BY <3>1, <4>3, <4>4, Zenon DEF UndosPaid, y, f
    <3>8. CASE ~UndoLeft(d, l, s)
      <4>1. \A b \in Coordinators : y[b] = {}
        BY <3>1, <3>4, <3>8, Zenon
      <4>2. Paid(0, y, mishaps[i], f, 1)
        BY <3>0, <3>5, <4>1, NothingToPay, Zenon
      <4> QED
        BY <3>1, <4>2, Zenon DEF UndosPaid, y, f
    <3> QED
      BY <3>7, <3>8, Zenon
  <2>8. "compensating" # "absent"
    BY Zenon
  <2> QED
    BY <2>3, <2>4, <2>7, <2>8, WritePays, Zenon
<1> QED
  BY <1>2, <1>3, Zenon DEF appendCompensationStarted

\* A settled step is not undone again; an error pays for the round it breaks off.
LEMMA RecordOutcomePays ==
    ASSUME Counting, Sizes, SagaInv, Accounts, NEW c \in Coordinators, NEW i \in Instances,
           RecordOutcome(c, i) \/ RecordError(c, i) \/ FinishWalk(c, i)
    PROVE  Accounts'
<1> DEFINE e == Outcome(c, i)
           old == drive[c][i]
           l == Append(log[i], e)
           d == [drive[c][i] EXCEPT !.at = "walk", !.step = 0, !.ok = FALSE]
<1>1. CASE FinishWalk(c, i)
  BY <1>1, ProceedPays, Zenon DEF FinishWalk
<1>2. CASE RecordError(c, i)
  BY <1>2, ProceedPays, Zenon DEF RecordError
<1>3. CASE RecordOutcome(c, i)
  <2>0. /\ old.at = "record" /\ old \in Drives /\ Proceed(c, i) /\ UNCHANGED <<mishaps, runVars>>
        /\ DriveOK(old, log[i], undone[i], deploy.removable) /\ At(c, i, "record")
        /\ (lease[i] = c => HolderOK(old, status[i], log[i])) /\ log[i] \in Seq(Events)
    BY <1>3, LogTyped, Zenon DEF RecordOutcome, At
  <2>1. /\ e.kind \in Backward /\ e.step = old.step /\ e.kind # "StepCompleted"
        /\ e.kind \notin {"StepCompleted", "StepFailed", "CompensationStarted"}
    BY Zenon DEF Outcome, StepEvent, Backward
  <2>2. CASE ~CanAppend(c, i, e)
    <3>1. ~fenced(c, i)
      BY <2>0, <2>1, <2>2, Zenon DEF CanAppend, InPhase, HolderOK, fenced
    <3>2. UNCHANGED journalVars
      BY <1>3, <2>2, Zenon DEF RecordOutcome
    <3> QED
      BY <2>0, <3>1, <3>2, ProceedPays, Zenon
  <2>3. CASE CanAppend(c, i, e)
    <3>0. fenced(c, i) /\ Record(c, i, e) /\ status[i] = "compensating"
      BY <1>3, <2>0, <2>3, Zenon DEF RecordOutcome, CanAppend, fenced, HolderOK
    <3>1. e \in Events
      <4>1. old.step \in Nat
        BY <2>0, Zenon DEF Drives
      <4> QED
        BY <4>1, EventTyped, Zenon DEF Outcome, StepKinds
    <3>2. d.at = "walk" /\ d.todo = old.todo
      BY <2>0, Zenon DEF Drives
    <3>3. Writes(c, i, d, "compensating", l)
      BY <2>0, <2>1, <3>0, Zenon DEF Writes, Record, Projected, Proceed, Set, runVars
    <3> HIDE DEF e, d
    <3>4. ASSUME NEW s \in Steps
          PROVE  /\ LessOn(DrivesOf(i), log[i], l, s)
                 /\ RunsLeft(d, l, s) = {}
                 /\ RunEngaged(DrivesOf(i)', Holder(i)', "compensating", l, s)
      <4>1. \A b \in Coordinators : Within(DrivesOf(i)[b], log[i])
        BY DrivesWithin, Zenon
      <4>2. MayRun(l, s) => MayRun(log[i], s)
        BY <2>0, <2>1, <3>1, MayRunLess, Zenon
      <4>3. LessOn(DrivesOf(i), log[i], l, s)
        BY <2>0, <3>1, <4>1, <4>2, LessOnLonger, Zenon
      <4>4. RunEngaged(DrivesOf(i)', Holder(i)', "compensating", l, s)
        BY Zenon DEF RunEngaged
      <4>5. RunsLeft(d, l, s) = {}
        BY <3>2, PlacesOfCalls, Zenon
      <4> QED
        BY <4>3, <4>4, <4>5, Zenon
    <3>5. /\ settled(log[i]) \subseteq settled(l) /\ old.step \in settled(l)
          /\ \A n \in old.todo : l[n] = log[i][n]
      <4>1. settled(l) = settled(log[i]) \cup {old.step}
        BY <2>0, <2>1, <3>1, SettledAdds, ZenonT(60)
      <4>2. \A n \in old.todo : n \in 1 .. Len(log[i])
        BY <2>0, Positions, Zenon DEF DriveOK, PositionsOf
      <4>3. \A n \in 1 .. Len(log[i]) : l[n] = log[i][n]
        BY <2>0, <3>1, Appended, Zenon
      <4> QED
        BY <4>1, <4>2, <4>3, Zenon
    <3>6. ASSUME NEW s \in Steps PROVE UndoLeft(d, l, s) <=> UndoLeft(old, log[i], s)
      BY <2>0, <3>2, <3>5, Zenon DEF UndoLeft, Waits
    <3>7. Turns(DrivesOf(i), DrivesOf(i)', c, d)
      BY <3>3, WritesTyped, Zenon
    <3>8. Holder(i)' = c /\ Holder(i) = c /\ DrivesOf(i)[c] = old /\ DrivesOf(i)'[c] = d
      BY <3>0, <3>7, Zenon DEF Record, Holder, fenced, DrivesOf, Turns
    <3>9. ASSUME NEW s \in Steps, UndoEngaged(DrivesOf(i), Holder(i), status[i], log[i], s)
          PROVE  UndoEngaged(DrivesOf(i)', Holder(i)', "compensating", l, s)
      <4>1. CASE s \in settled(l)
        BY <4>1, Zenon DEF UndoEngaged
      <4>2. CASE s \notin settled(l)
        <5>1. UndoesNow(old, status[i], log[i], s)
          BY <3>0, <3>5, <3>8, <3>9, <4>2, ZenonT(60) DEF UndoEngaged
        <5>2. UndoLeft(old, log[i], s)
          BY <2>0, <3>5, <4>2, <5>1, Zenon DEF UndoesNow
        <5>3. UndoLeft(d, l, s)
          BY <3>6, <5>2, Zenon
        <5> QED
          BY <3>8, <5>3, Zenon DEF UndoEngaged, UndoesNow
      <4> QED
        BY <4>1, <4>2, Zenon
    <3> HIDE DEF l
    <3>10. ASSUME NEW s \in Steps
           PROVE  UndosPaid(undos[i][s], DrivesOf(i)', Holder(i)', "compensating", l, mishaps[i], s)
      BY <3>3, <3>4, <3>6, <3>9, WriteUndosPay, Zenon
    <3>11. "compensating" # "absent"
      BY Zenon
    <3> QED
      BY <3>3, <3>4, <3>10, <3>11, WritePays, ZenonT(60)
  <2> QED
    BY <2>2, <2>3, Zenon
<1> QED
  BY <1>1, <1>2, <1>3, Zenon

\* The drive of c is over, by a mishap or because there was none.
LEMMA OverStaysPaid ==
    ASSUME Sizes, NEW dr, NEW dq, NEW c \in Coordinators, NEW h, NEW st, NEW l, NEW s,
           NEW n \in Nat, NEW u \in Nat, NEW m \in Nat, NEW k \in Nat, m <= k,
           Turns(dr, dq, c, Idle), RunsPaid(n, dr, h, st, l, m, s), UndosPaid(u, dr, h, st, l, m, s),
           dr[c].at = "idle" \/ k # m
    PROVE  RunsPaid(n, dq, h, st, l, k, s) /\ UndosPaid(u, dq, h, st, l, k, s)
<1>1. RunsLeft(Idle, l, s) = {} /\ ~UndoLeft(Idle, l, s)
  BY PlacesOfCalls, Zenon DEF Idle
<1>2. RunsLeft(Idle, l, s) \subseteq RunsLeft(dr[c], l, s)
  BY <1>1, Zenon
<1>3. k = m => RunKept(dr[c], Idle, st, l, s)
  <2>1. k = m => ~RunsNow(dr[c], st, l, s)
    BY PlacesOfCalls, Zenon
  <2> QED
    BY <2>1, Zenon DEF RunKept
<1>4. k = m => UndoKept(dr[c], Idle, st, l, s)
  BY UndoIsKept, Zenon
<1>5. RunsPaid(n, dq, h, st, l, k, s)
  BY <1>2, <1>3, RunsStayPaid, Zenon
<1>6. UndosPaid(u, dq, h, st, l, k, s)
  BY <1>1, <1>4, UndosStayPaid, Zenon
<1> QED
  BY <1>5, <1>6, Zenon

\* The lease goes to g, from one who had no drive under it or by a mishap.
LEMMA HolderGoes ==
    ASSUME Sizes, NEW dr, NEW h, NEW g, NEW st, NEW l, NEW s,
           NEW n \in Nat, NEW u \in Nat, NEW m \in Nat, NEW k \in Nat, m <= k,
           RunsPaid(n, dr, h, st, l, m, s), UndosPaid(u, dr, h, st, l, m, s),
           m < k \/ (h \in Coordinators => dr[h].at = "idle")
    PROVE  RunsPaid(n, dr, g, st, l, k, s) /\ UndosPaid(u, dr, g, st, l, k, s)
<1> DEFINE x == [b \in Coordinators |-> RunsLeft(dr[b], l, s)]
           y == [b \in Coordinators |-> UndosLeft(dr[b], l, s)]
           e == RunEngaged(dr, h, st, l, s)
           f == RunEngaged(dr, g, st, l, s)
           p == UndoEngaged(dr, h, st, l, s)
           q == UndoEngaged(dr, g, st, l, s)
<1>1. e \in BOOLEAN /\ f \in BOOLEAN /\ p \in BOOLEAN /\ q \in BOOLEAN
  BY Zenon DEF RunEngaged, UndoEngaged
<1>2. NoMore(x, x) /\ NoMore(y, y)
  BY Zenon DEF NoMore
<1>3. Paid(n, x, m, e, MaxAttempts) /\ Paid(u, y, m, p, 1)
  BY Zenon DEF RunsPaid, UndosPaid
<1>4. MaxAttempts \in Nat /\ 1 \in Nat
  BY SagaAssumption, Zenon
<1>5. (e => f \/ m < k) /\ (p => q \/ m < k)
  <2>1. CASE m < k
    BY <2>1, Zenon
  <2>2. CASE h \in Coordinators => dr[h].at = "idle"
    <3>1. h \in Coordinators => ~RunsNow(dr[h], st, l, s) /\ ~UndoesNow(dr[h], st, l, s)
      BY <2>2, PlacesOfCalls, Zenon
    <3> QED
      BY <3>1, Zenon DEF RunEngaged, UndoEngaged
  <2> QED
    BY <2>1, <2>2, Zenon
<1> HIDE DEF x, y, e, f, p, q
<1>6. Paid(n, x, k, f, MaxAttempts)
  <2>1. /\ e \in BOOLEAN /\ f \in BOOLEAN /\ MaxAttempts \in Nat
        /\ NoMore(x, x) /\ Paid(n, x, m, e, MaxAttempts) /\ Carries(e, f, m, k)
    BY <1>1, <1>2, <1>3, <1>4, <1>5, Zenon DEF Carries
  <2> QED
    BY <2>1, PaysOn, ZenonT(60)
<1>7. Paid(u, y, k, q, 1)
  <2>1. /\ p \in BOOLEAN /\ q \in BOOLEAN /\ 1 \in Nat
        /\ NoMore(y, y) /\ Paid(u, y, m, p, 1) /\ Carries(p, q, m, k)
    BY <1>1, <1>2, <1>3, <1>4, <1>5, Zenon DEF Carries
  <2> QED
    BY <2>1, PaysOn, ZenonT(60)
<1> QED
  BY <1>6, <1>7, Zenon DEF RunsPaid, UndosPaid, x, y, f, q

\* A claim: c, which had no drive, gets the lease that nobody had.
LEMMA ClaimIsPaid ==
    ASSUME Sizes, NEW dr, NEW dq, NEW c \in Coordinators, NEW d, NEW h, NEW st \in Open, NEW l, NEW s,
           NEW n \in Nat, NEW u \in Nat, NEW m \in Nat,
           Turns(dr, dq, c, d), RunsPaid(n, dr, h, st, l, m, s), UndosPaid(u, dr, h, st, l, m, s),
           h \notin Coordinators, d.at = "lead", d.was = st
    PROVE  RunsPaid(n, dq, c, st, l, m, s) /\ UndosPaid(u, dq, c, st, l, m, s)
<1> DEFINE x == [b \in Coordinators |-> RunsLeft(dr[b], l, s)]
           y == [b \in Coordinators |-> RunsLeft(dq[b], l, s)]
           v == [b \in Coordinators |-> UndosLeft(dr[b], l, s)]
           w == [b \in Coordinators |-> UndosLeft(dq[b], l, s)]
           e == RunEngaged(dr, h, st, l, s)
           f == RunEngaged(dq, c, st, l, s)
           p == UndoEngaged(dr, h, st, l, s)
           q == UndoEngaged(dq, c, st, l, s)
<1>1. e \in BOOLEAN /\ f \in BOOLEAN /\ p \in BOOLEAN /\ q \in BOOLEAN
  BY Zenon DEF RunEngaged, UndoEngaged
<1>2. Paid(n, x, m, e, MaxAttempts) /\ Paid(u, v, m, p, 1)
  BY Zenon DEF RunsPaid, UndosPaid
<1>3. MaxAttempts \in Nat /\ 1 \in Nat /\ m <= m
  BY SagaAssumption
<1>4. \A b \in Coordinators \ {c} : y[b] \subseteq x[b] /\ w[b] \subseteq v[b]
  BY Zenon DEF Turns
<1>5. dq[c] = d
  BY Zenon DEF Turns
<1>6. f
  BY <1>5, Zenon DEF RunEngaged, RunsNow
<1>7. e => y[c] = {}
  <2>1. e => st = "compensating" \/ ~MayRun(l, s)
    BY Zenon DEF RunEngaged, Open
  <2> QED
    BY <1>5, <2>1, Zenon DEF RunsLeft
<1>8. (p => ~UndoLeft(d, l, s)) /\ (~p => UndoLeft(d, l, s))
  BY Zenon DEF UndoEngaged, UndoLeft
<1>9. (p => w[c] = {} /\ q) /\ (~p => q)
  BY <1>5, <1>8, Zenon DEF UndosLeft, UndoEngaged, UndoesNow
<1> HIDE DEF x, y, v, w, e, f, p, q
<1>10. Paid(n, y, m, f, MaxAttempts)
  <2>1. CASE e
    <3>1. /\ e \in BOOLEAN /\ f \in BOOLEAN /\ MaxAttempts \in Nat /\ m <= m
          /\ NoMore(x, y) /\ Paid(n, x, m, e, MaxAttempts) /\ Carries(e, f, m, m)
      BY <1>1, <1>2, <1>3, <1>4, <1>6, <1>7, <2>1, Zenon DEF NoMore, Carries
    <3> QED
      BY <3>1, PaysOn, ZenonT(60)
  <2>2. CASE ~e
    <3>1. e = FALSE /\ f = TRUE
      BY <1>1, <1>6, <2>2, Zenon
    <3>2. Paid(n, y, m, TRUE, MaxAttempts)
      BY <1>2, <1>3, <1>4, <3>1, PaysForRound, Zenon
    <3> QED
      BY <3>1, <3>2, Zenon
  <2> QED
    BY <2>1, <2>2, Zenon
<1>11. Paid(u, w, m, q, 1)
  <2>1. CASE p
    <3>1. /\ p \in BOOLEAN /\ q \in BOOLEAN /\ 1 \in Nat /\ m <= m
          /\ NoMore(v, w) /\ Paid(u, v, m, p, 1) /\ Carries(p, q, m, m)
      BY <1>1, <1>2, <1>3, <1>4, <1>9, <2>1, Zenon DEF NoMore, Carries
    <3> QED
      BY <3>1, PaysOn, ZenonT(60)
  <2>2. CASE ~p
    <3>1. p = FALSE /\ q = TRUE
      BY <1>1, <1>9, <2>2, Zenon
    <3>2. Paid(u, w, m, TRUE, 1)
      BY <1>2, <1>3, <1>4, <3>1, PaysForRound, ZenonT(60)
    <3> QED
      BY <3>1, <3>2, Zenon
  <2> QED
    BY <2>1, <2>2, Zenon
<1> QED
  BY <1>10, <1>11, Zenon DEF RunsPaid, UndosPaid, y, w, f, q

\* No drive has a call left and none was made.
LEMMA NothingIsPaid ==
    ASSUME Sizes, NEW dr, NEW h, NEW st, NEW l, NEW s, NEW m \in Nat,
           \A b \in Coordinators : dr[b].at = "idle"
    PROVE  RunsPaid(0, dr, h, st, l, m, s) /\ UndosPaid(0, dr, h, st, l, m, s)
<1> DEFINE x == [b \in Coordinators |-> RunsLeft(dr[b], l, s)]
           y == [b \in Coordinators |-> UndosLeft(dr[b], l, s)]
           e == RunEngaged(dr, h, st, l, s)
           p == UndoEngaged(dr, h, st, l, s)
<1>1. e \in BOOLEAN /\ p \in BOOLEAN
  BY Zenon DEF RunEngaged, UndoEngaged
<1>2. (\A b \in Coordinators : x[b] = {}) /\ (\A b \in Coordinators : y[b] = {})
  BY PlacesOfCalls, Zenon DEF UndosLeft
<1>3. MaxAttempts \in Nat /\ 1 \in Nat
  BY SagaAssumption, Zenon
<1> HIDE DEF x, y, e, p
<1>4. Paid(0, x, m, e, MaxAttempts) /\ Paid(0, y, m, p, 1)
  BY <1>1, <1>2, <1>3, NothingToPay, ZenonT(60)
<1> QED
  BY <1>4, Zenon DEF RunsPaid, UndosPaid, x, y, e, p

\* A claim begins a round that nobody else is in.
LEMMA TickPays ==
    ASSUME Sizes, SagaInv, Accounts, NEW c \in Coordinators, tickOnce(c)
    PROVE  Accounts'
<1>1. PICK S \in SUBSET Instances :
        /\ ClaimPending(c, S)
        /\ drive' = [drive EXCEPT ![c] = [i \in Instances |->
                        IF i \in S THEN [Idle EXCEPT !.at = "lead", !.was = status[i]] ELSE Idle]]
  BY Zenon DEF tickOnce
<1>2. /\ UNCHANGED <<status, log, ran, undos, mishaps>>
      /\ \A i \in Instances : lease'[i] = IF i \in S THEN c ELSE lease[i]
      /\ \A i \in Instances : live'[i] <=> (i \in S \/ live[i])
      /\ \A i \in S : status[i] \in Open /\ (lease[i] = Nobody \/ ~live[i])
      /\ \A i \in Instances : At(c, i, "idle")
  <2>1. UNCHANGED <<status, log, ran, undos, mishaps>> /\ \A i \in Instances : At(c, i, "idle")
    BY <1>1, Zenon DEF tickOnce, ClaimPending, runVars
  <2>2. /\ \A i \in Instances : lease'[i] = IF i \in S THEN c ELSE lease[i]
        /\ \A i \in Instances : live'[i] <=> (i \in S \/ live[i])
    BY <1>1, Zenon DEF ClaimPending
  <2>3. \A i \in S : status[i] \in Open /\ (lease[i] = Nobody \/ ~live[i])
    BY <1>1, Zenon DEF ClaimPending, Claimable
  <2> QED
    BY <2>1, <2>2, <2>3, Zenon
<1>3. \A b \in Coordinators, i \in Instances :
        drive'[b][i] = IF b # c THEN drive[b][i]
                       ELSE IF i \in S THEN [Idle EXCEPT !.at = "lead", !.was = status[i]] ELSE Idle
  BY <1>1, Zenon DEF SagaInv, SagaTypeOK
<1>4. ASSUME NEW i \in Instances, NEW s \in Steps
      PROVE  /\ RunsPaid(ran[i][s], DrivesOf(i)', Holder(i)', status[i], log[i], mishaps[i], s)
             /\ UndosPaid(undos[i][s], DrivesOf(i)', Holder(i)', status[i], log[i], mishaps[i], s)
  <2>1. /\ ran[i][s] \in Nat /\ undos[i][s] \in Nat /\ mishaps[i] \in Nat
        /\ RunsPaid(ran[i][s], DrivesOf(i), Holder(i), status[i], log[i], mishaps[i], s)
        /\ UndosPaid(undos[i][s], DrivesOf(i), Holder(i), status[i], log[i], mishaps[i], s)
    BY AccountTyped, Zenon DEF PaidFor
  <2>2. CASE i \in S
    <3> DEFINE d == [Idle EXCEPT !.at = "lead", !.was = status[i]]
    <3>1. d.at = "lead" /\ d.was = status[i]
      BY Zenon DEF Idle
    <3>2. Turns(DrivesOf(i), DrivesOf(i)', c, d)
      BY <1>3, <2>2, Zenon DEF Turns, DrivesOf
    <3>3. Holder(i) \notin Coordinators /\ Holder(i)' = c /\ status[i] \in Open
      BY <1>2, <2>2, JournalAssumption, Zenon DEF Holder
    <3> HIDE DEF d
    <3> QED
      BY <2>1, <3>1, <3>2, <3>3, ClaimIsPaid, ZenonT(60)
  <2>3. CASE i \notin S
    <3>1. Turns(DrivesOf(i), DrivesOf(i)', c, Idle)
      BY <1>3, <2>3, Zenon DEF Turns, DrivesOf
    <3>2. Holder(i)' = Holder(i)
      BY <1>2, <2>3, ZenonT(60) DEF Holder
    <3>3. DrivesOf(i)[c].at = "idle" /\ mishaps[i] <= mishaps[i]
      BY <1>2, <2>1 DEF DrivesOf, At
    <3>4. /\ RunsPaid(ran[i][s], DrivesOf(i)', Holder(i), status[i], log[i], mishaps[i], s)
          /\ UndosPaid(undos[i][s], DrivesOf(i)', Holder(i), status[i], log[i], mishaps[i], s)
      BY <2>1, <3>1, <3>3, OverStaysPaid, ZenonT(60)
    <3> QED
      BY <3>2, <3>4, Zenon
  <2> QED
    BY <2>2, <2>3, Zenon
<1>5. ASSUME NEW i \in Instances, status[i] = "absent"
      PROVE  /\ \A b \in Coordinators : drive'[b][i].at = "idle"
             /\ \A s \in Steps : ran[i][s] = 0
  <2>1. i \notin S
    BY <1>2, <1>5, Zenon DEF Open
  <2>2. /\ \A b \in Coordinators : drive[b][i].at = "idle"
        /\ \A s \in Steps : ran[i][s] = 0
    BY <1>5, Zenon DEF Accounts, At
  <2>3. Idle.at = "idle"
    BY Zenon DEF Idle
  <2> QED
    BY <1>3, <2>1, <2>2, <2>3, ZenonT(60)
<1> QED
  BY <1>2, <1>4, <1>5, Zenon DEF Accounts, At

\* A crash pays for the rounds it breaks off.
LEMMA CrashPays ==
    ASSUME Sizes, SagaInv, Accounts, NEW c \in Coordinators, Crash(c)
    PROVE  Accounts'
<1>1. UNCHANGED <<status, log, lease, live, ran, undos>>
  BY Zenon DEF Crash, journalVars, runVars
<1>2. \A b \in Coordinators, i \in Instances : drive'[b][i] = IF b = c THEN Idle ELSE drive[b][i]
  BY Zenon DEF Crash, SagaInv, SagaTypeOK
<1>3. ASSUME NEW i \in Instances
      PROVE  /\ mishaps'[i] \in Nat /\ mishaps[i] <= mishaps'[i]
             /\ drive[c][i].at = "idle" \/ mishaps'[i] # mishaps[i]
  <2>1. mishaps[i] \in Nat /\ mishaps'[i] = mishaps[i] + IF i \in Driving(c) THEN 1 ELSE 0
    BY Zenon DEF Crash, SagaInv, SagaTypeOK
  <2>2. i \in Driving(c) <=> drive[c][i].at # "idle"
    BY Zenon DEF Driving, At
  <2> QED
    BY <2>1, <2>2, SMTT(30)
<1>4. ASSUME NEW i \in Instances, NEW s \in Steps
      PROVE  /\ RunsPaid(ran[i][s], DrivesOf(i)', Holder(i), status[i], log[i], mishaps'[i], s)
             /\ UndosPaid(undos[i][s], DrivesOf(i)', Holder(i), status[i], log[i], mishaps'[i], s)
  <2>1. /\ ran[i][s] \in Nat /\ undos[i][s] \in Nat /\ mishaps[i] \in Nat
        /\ RunsPaid(ran[i][s], DrivesOf(i), Holder(i), status[i], log[i], mishaps[i], s)
        /\ UndosPaid(undos[i][s], DrivesOf(i), Holder(i), status[i], log[i], mishaps[i], s)
    BY AccountTyped, Zenon DEF PaidFor
  <2>2. Turns(DrivesOf(i), DrivesOf(i)', c, Idle)
    BY <1>2, Zenon DEF Turns, DrivesOf
  <2>3. DrivesOf(i)[c].at = "idle" \/ mishaps'[i] # mishaps[i]
    BY <1>3, Zenon DEF DrivesOf
  <2> QED
    BY <1>3, <2>1, <2>2, <2>3, OverStaysPaid, Zenon
<1>5. \A i \in Instances : Holder(i)' = Holder(i)
  BY <1>1, Zenon DEF Holder
<1>6. ASSUME NEW i \in Instances, status[i] = "absent"
      PROVE  /\ \A b \in Coordinators : drive'[b][i].at = "idle"
             /\ \A s \in Steps : ran[i][s] = 0
  <2>1. /\ \A b \in Coordinators : drive[b][i].at = "idle"
        /\ \A s \in Steps : ran[i][s] = 0
    BY <1>6, Zenon DEF Accounts, At
  <2>2. Idle.at = "idle"
    BY Zenon DEF Idle
  <2> QED
    BY <1>2, <2>1, <2>2, Zenon
<1> QED
  BY <1>1, <1>4, <1>5, <1>6, ZenonT(60) DEF Accounts, At

\* A lease that runs out under its drive is a mishap; one that nobody drives under was in no round.
LEMMA ExpiryPays ==
    ASSUME Sizes, SagaInv, Accounts, NEW i \in Instances,
           Stall(i) \/ LeaseExpires(i) \/ LockExpires(i) \/ LockLost(i) \/ Overdue(i)
    PROVE  Accounts'
<1>1. UNCHANGED <<status, log, lease, drive, ran, undos>>
  BY Zenon DEF Stall, LeaseExpires, LockExpires, LockLost, Overdue, Expire, journalVars, runVars
<1>2. ASSUME NEW j \in Instances
      PROVE  /\ mishaps[j] \in Nat /\ mishaps'[j] \in Nat /\ mishaps[j] <= mishaps'[j]
             /\ \/ live'[j] = live[j] \/ mishaps[j] < mishaps'[j]
                \/ Holder(j) \in Coordinators => drive[Holder(j)][j].at = "idle"
  <2>1. mishaps \in [Instances -> Nat] /\ live \in [Instances -> BOOLEAN]
    BY ZenonT(60) DEF SagaInv, SagaTypeOK
  <2>2. CASE Stall(i) \/ LockLost(i)
    BY <2>1, <2>2, SMTT(30) DEF Stall, LockLost, Mishap, Expire, journalVars
  <2>3. CASE LeaseExpires(i)
    <3>1. mishaps' = mishaps /\ live' = [live EXCEPT ![i] = FALSE] /\ drive[lease[i]][i].at = "idle"
          /\ Holder(i) = lease[i]
      BY <2>3, Zenon DEF LeaseExpires, Expire, At, Holder
    <3>2. j # i => live'[j] = live[j]
      BY <2>1, <3>1, Zenon
    <3>3. mishaps[j] <= mishaps[j]
      BY <2>1, SMTT(30)
    <3> QED
      BY <2>1, <3>1, <3>2, <3>3, Zenon
  <2>4. CASE LockExpires(i) \/ Overdue(i)
    <3>1. mishaps' = mishaps /\ live' = live
      BY <2>4, Zenon DEF LockExpires, Overdue, journalVars
    <3>2. mishaps[j] <= mishaps[j]
      BY <2>1, SMTT(30)
    <3> QED
      BY <2>1, <3>1, <3>2, Zenon
  <2> QED
    BY <2>2, <2>3, <2>4, Zenon
<1>3. ASSUME NEW j \in Instances, NEW s \in Steps
      PROVE  /\ RunsPaid(ran[j][s], DrivesOf(j), Holder(j)', status[j], log[j], mishaps'[j], s)
             /\ UndosPaid(undos[j][s], DrivesOf(j), Holder(j)', status[j], log[j], mishaps'[j], s)
  <2>1. /\ ran[j][s] \in Nat /\ undos[j][s] \in Nat
        /\ RunsPaid(ran[j][s], DrivesOf(j), Holder(j), status[j], log[j], mishaps[j], s)
        /\ UndosPaid(undos[j][s], DrivesOf(j), Holder(j), status[j], log[j], mishaps[j], s)
    BY AccountTyped, Zenon DEF PaidFor
  <2>2. CASE \/ mishaps[j] < mishaps'[j]
             \/ Holder(j) \in Coordinators => drive[Holder(j)][j].at = "idle"
    <3>1. \/ mishaps[j] < mishaps'[j]
          \/ Holder(j) \in Coordinators => DrivesOf(j)[Holder(j)].at = "idle"
      BY <2>2, Zenon DEF DrivesOf
    <3> QED
      BY <1>2, <2>1, <3>1, HolderGoes, Zenon
  <2>3. CASE live'[j] = live[j] /\ ~(mishaps[j] < mishaps'[j])
    <3>1. mishaps'[j] = mishaps[j]
      BY <1>2, <2>3
    <3>2. Holder(j)' = Holder(j)
      BY <1>1, <2>3, Zenon DEF Holder
    <3> QED
      BY <2>1, <3>1, <3>2, ZenonT(60)
  <2> QED
    BY <1>2, <2>2, <2>3, Zenon
<1>4. \A j \in Instances : DrivesOf(j)' = DrivesOf(j)
  BY <1>1, ZenonT(60) DEF DrivesOf
<1> QED
  BY <1>1, <1>3, <1>4, Zenon DEF Accounts, At

\* A saga is enrolled without a call.
LEMMA EnrollPays ==
    ASSUME Sizes, SagaInv, Accounts, NEW i \in Instances, Start(i)
    PROVE  Accounts'
<1>1. /\ status[i] = "absent" /\ status' = [status EXCEPT ![i] = "pending"]
      /\ UNCHANGED <<log, lease, live, drive, mishaps, ran, undos>>
  BY Zenon DEF Start, Enqueue, runVars
<1>2. /\ status'[i] = "pending" /\ \A j \in Instances \ {i} : status'[j] = status[j]
  BY <1>1, Zenon DEF SagaInv, SagaTypeOK
<1>3. \A j \in Instances \ {i} : Untouched(j)
  BY <1>1, <1>2, Zenon DEF Untouched
<1>4. /\ \A b \in Coordinators : DrivesOf(i)[b].at = "idle"
      /\ \A s \in Steps : ran[i][s] = 0
      /\ mishaps[i] \in Nat
  BY <1>1, AccountTyped, Zenon DEF Accounts, At, DrivesOf
<1>5. \A s \in Steps : undos[i][s] = 0
  <2>1. ~Started(log[i])
    <3>1. log[i] = <<>>
      BY <1>1, LogTyped, Zenon DEF StatusOK
    <3> QED
      BY <3>1 DEF Started
  <2> QED
    BY <2>1, NoneUndone, Zenon
<1>6. ASSUME NEW s \in Steps
      PROVE  /\ RunsPaid(0, DrivesOf(i), Holder(i), "pending", log[i], mishaps[i], s)
             /\ UndosPaid(0, DrivesOf(i), Holder(i), "pending", log[i], mishaps[i], s)
  BY <1>4, NothingIsPaid, Zenon
<1>7. DrivesOf(i)' = DrivesOf(i) /\ Holder(i)' = Holder(i)
  BY <1>1, Zenon DEF DrivesOf, Holder
<1>8. PaidFor(i)'
  BY <1>1, <1>2, <1>4, <1>5, <1>6, <1>7, ZenonT(60) DEF PaidFor
<1> QED
  BY <1>2, <1>3, <1>8, AccountsFrame, SMTT(30)

\* Before the first saga nothing has been called.
LEMMA InitAccounts == ASSUME Sizes, Init PROVE Accounts
<1>1. ASSUME NEW i \in Instances
      PROVE  /\ \A b \in Coordinators : drive[b][i].at = "idle" /\ DrivesOf(i)[b].at = "idle"
             /\ \A s \in Steps : ran[i][s] = 0 /\ undos[i][s] = 0
             /\ mishaps[i] = 0
  BY Zenon DEF Init, DrivesOf, Idle
<1>2. ASSUME NEW i \in Instances, NEW s \in Steps
      PROVE  /\ RunsPaid(0, DrivesOf(i), Holder(i), status[i], log[i], 0, s)
             /\ UndosPaid(0, DrivesOf(i), Holder(i), status[i], log[i], 0, s)
  <2>1. 0 \in Nat
    OBVIOUS
  <2> QED
    BY <1>1, <2>1, NothingIsPaid, Zenon
<1> QED
  BY <1>1, <1>2, Zenon DEF Accounts, At

\* Nothing happens.
LEMMA StutterPays == ASSUME Accounts, UNCHANGED vars PROVE Accounts'
<1>1. UNCHANGED <<status, log, lease, live, drive, mishaps, ran, undos>>
  BY Zenon DEF vars, journalVars, runVars
<1> QED
  BY <1>1, Zenon DEF Accounts, At, DrivesOf, Holder

\* Every step keeps the accounts.
LEMMA NextAccounts == ASSUME Counting, Sizes, SagaInv, Accounts, [Next]_vars PROVE Accounts'
<1>1. ASSUME NEW c \in Coordinators, NEW i \in Instances, DriveStep(c, i) PROVE Accounts'
  BY <1>1, AcquireLeadPays, DriveOnePays, MarkTerminalPays, ExecutePays, RunFailsPays,
     GiveUpPays, CommitCompletedPays, CommitFailedPays, StartPays, RunCompensationPays,
     CompensatePays, RecordOutcomePays, Zenon DEF DriveStep
<1>2. ASSUME NEW c \in Coordinators, NEW i \in Instances, DriveMishap(c, i) PROVE Accounts'
  BY <1>2, ExecutePays, RunCompensationPays, GiveUpPays, RecordOutcomePays, ZenonT(60) DEF DriveMishap
<1>3. ASSUME NEW i \in Instances,
             \/ Start(i) \/ Stall(i) \/ LeaseExpires(i) \/ LockExpires(i) \/ LockLost(i) \/ Overdue(i)
      PROVE  Accounts'
  BY <1>3, EnrollPays, ExpiryPays, Zenon
<1>4. ASSUME NEW c \in Coordinators, tickOnce(c) \/ Crash(c) PROVE Accounts'
  BY <1>4, TickPays, CrashPays, Zenon
<1>5. CASE UNCHANGED vars
  BY <1>5, StutterPays, Zenon
<1> QED
  BY <1>1, <1>2, <1>3, <1>4, <1>5, Zenon DEF Next, Quiescent

----------------------------------------------------------------------------
(* The theorems.                                                               *)

INSTANCE FiniteSetTheorems

\* The hypothesis on intervals.
LEMMA Counted == Counting
<1> SUFFICES ASSUME NEW k \in Nat PROVE Cardinality(1 .. k) = k
  BY Zenon DEF Counting
<1>1. Cardinality(1 .. k) = IF 1 > k THEN 0 ELSE k - 1 + 1
  BY FS_Interval
<1> QED
  BY <1>1, SMTT(30)

\* The sizes of the parts of a finite set.
LEMMA FiniteIsMeasured == ASSUME NEW U, IsFiniteSet(U) PROVE Measured(U)
<1>1. ASSUME NEW P \in SUBSET U PROVE IsFiniteSet(P) /\ Cardinality(P) \in Nat
  BY <1>1, FS_Subset, FS_CardinalityType, ZenonT(60)
<1>2. ASSUME NEW P \in SUBSET U, NEW Q \in SUBSET P
      PROVE  Cardinality(P) = Cardinality(Q) + Cardinality(P \ Q)
  <2>1. Q \in SUBSET U /\ P \ Q \in SUBSET U /\ P \cap Q = Q
    BY <1>2, Zenon
  <2>2. Cardinality(P \ Q) = Cardinality(P) - Cardinality(P \cap Q)
    <3>1. IsFiniteSet(P)
      BY <1>1, <1>2, ZenonT(60)
    <3> QED
      BY <3>1, FS_Difference, Zenon
  <2>3. /\ Cardinality(P) \in Nat /\ Cardinality(Q) \in Nat
        /\ Cardinality(P \ Q) = Cardinality(P) - Cardinality(Q)
    BY <1>1, <1>2, <2>1, <2>2, ZenonT(60)
  <2> QED
    BY <2>3, SMTT(30)
<1>3. ASSUME NEW P \in SUBSET U, NEW Q \in SUBSET U
      PROVE  Cardinality(P \cup Q) <= Cardinality(P) + Cardinality(Q)
  <2>1. P \cap Q \in SUBSET U
    BY <1>3, Zenon
  <2>2. Cardinality(P \cup Q) = Cardinality(P) + Cardinality(Q) - Cardinality(P \cap Q)
    BY <1>1, <1>3, FS_Union, ZenonT(60)
  <2>3. Cardinality(P) \in Nat /\ Cardinality(Q) \in Nat /\ Cardinality(P \cap Q) \in Nat
    BY <1>1, <1>3, <2>1, ZenonT(60)
  <2> QED
    BY <2>2, <2>3, SMTT(30)
<1> QED
  BY <1>1, <1>2, <1>3, Zenon DEF Measured

\* The hypothesis on sizes: there are finitely many coordinators.
LEMMA Sized == Sizes
<1>1. ASSUME NEW a \in Nat
      PROVE  IsFiniteSet(1 .. a) /\ Cardinality(1 .. a) = a
  BY FS_Interval, SMTT(30)
<1>2. ASSUME NEW a \in Nat PROVE Measured(Coordinators \X (1 .. a))
  BY <1>1, SagaAssumption, FS_Product, FiniteIsMeasured, ZenonT(60)
<1>3. ASSUME NEW c \in Coordinators, NEW a \in Nat PROVE Cardinality({c} \X (1 .. a)) = a
  <2>1. IsFiniteSet({c}) /\ Cardinality({c}) = 1
    BY FS_Singleton, ZenonT(60)
  <2>2. Cardinality({c} \X (1 .. a)) = Cardinality({c}) * Cardinality(1 .. a)
    BY <1>1, <2>1, FS_Product, ZenonT(60)
  <2> QED
    BY <1>1, <2>1, <2>2, SMTT(30)
<1> QED
  BY <1>2, <1>3, FS_Singleton, FS_EmptySet, ZenonT(60) DEF Sizes

\* However claims, stalls, crashes and late writers interleave, the log of every saga,
\* its status and every drive of it agree in the sense of SagaInv.
THEOREM SagaInvariant == Spec => []SagaInv
<1>1. Init => SagaInv
  BY Counted, InitSagaInv, ZenonT(60)
<1>2. SagaInv /\ [Next]_vars => SagaInv'
  BY Counted, NextSagaInv, Zenon
<1> QED
  BY <1>1, <1>2, PTL DEF Spec

\* The log of a saga reads as one run, whoever wrote which part of it.
THEOREM LogsAreOneRun == Spec => []LogIsOneRun
<1>1. SagaInv => LogIsOneRun
  BY ZenonT(60) DEF SagaInv, LogOK, OneRun, LogIsOneRun
<1> QED
  BY <1>1, SagaInvariant, PTL

\* The status that claims and the transition gate read is what the log replays to.
THEOREM StatusReplays == Spec => []StatusIsFold
<1>1. SagaInv => StatusIsFold
  BY ZenonT(60) DEF SagaInv, StatusOK, StatusIsFold
<1> QED
  BY <1>1, SagaInvariant, PTL

\* A saga that markTerminal reports as compensated has undone all that it could undo.
THEOREM RollbacksAreComplete == Spec => []RollbackComplete
<1>1. SagaInv => RollbackComplete
  BY ZenonT(60) DEF SagaInv, StatusOK, Covered, StepsOf, RollbackComplete
<1> QED
  BY <1>1, SagaInvariant, PTL

\* Compensate is called only behind a CompensationStarted event, and a saga succeeds only
\* with all its steps committed and none of them undone.
THEOREM RollbacksAreDeclared == Spec => []NothingUndoneInSecret
<1>1. ASSUME SagaInv, NEW i \in Instances, status[i] = "succeeded"
      PROVE  StepsOf(log[i], "StepCompleted") = Steps
  <2>1. /\ PositionsOf(log[i], "StepCompleted") = Steps
        /\ \A n \in PositionsOf(log[i], "StepCompleted") : log[i][n].step = n
    BY <1>1, ZenonT(60) DEF SagaInv, StatusOK, LogOK, OneRun, PositionsOf, Steps
  <2> QED
    BY <2>1, ZenonT(60) DEF StepsOf
<1>2. ASSUME SagaInv, NEW i \in Instances, NEW s \in Steps, undos[i][s] > 0
      PROVE  "CompensationStarted" \in KindsOf(log[i])
  BY <1>2, ZenonT(60) DEF SagaInv, Started, KindsOf
<1>3. ASSUME SagaInv, NEW i \in Instances, status[i] = "succeeded", NEW s \in Steps
      PROVE  undos[i][s] = 0
  <2>1. ~Started(log[i])
    BY <1>3, Zenon DEF SagaInv, StatusOK
  <2>2. undos[i][s] \in Nat /\ ~(undos[i][s] > 0)
    BY <1>3, <2>1, Zenon DEF SagaInv, SagaTypeOK
  <2> QED
    BY <2>2
<1>4. SagaInv => NothingUndoneInSecret
  BY <1>1, <1>2, <1>3, Zenon DEF NothingUndoneInSecret
<1> QED
  BY <1>4, SagaInvariant, PTL

\* While its definition stays registered, a saga that failed has no committed step that a
\* Compensate function could undo.
THEOREM FailuresLeaveNothing == Spec => []FailedHasNothingToUndo
<1>1. SagaInv => FailedHasNothingToUndo
  BY Zenon DEF SagaInv, StatusOK, NothingToUndo, StepsOf, FailedHasNothingToUndo
<1> QED
  BY <1>1, SagaInvariant, PTL

\* Run and Compensate are at-least-once, and every round of invocations after the first is
\* owed to a mishap: a crash, a stalled lease, a lost lock, an error of the journal.
THEOREM InvocationsAreBounded == Spec => []InvocationsBounded
<1>1. Init => Accounts
  BY Sized, InitAccounts, Zenon
<1>2. SagaInv /\ Accounts /\ [Next]_vars => Accounts'
  BY Counted, Sized, NextAccounts, ZenonT(60)
<1>3. ASSUME SagaInv, Accounts PROVE InvocationsBounded
  <2> SUFFICES ASSUME NEW i \in Instances, NEW s \in Steps
               PROVE  ran[i][s] <= MaxAttempts * (1 + mishaps[i]) /\ undos[i][s] <= 1 + mishaps[i]
    BY Zenon DEF InvocationsBounded
  <2>1. /\ ran[i][s] \in Nat /\ undos[i][s] \in Nat /\ mishaps[i] \in Nat
        /\ MaxAttempts \in Nat /\ 1 \in Nat
    BY <1>3, AccountTyped, SagaAssumption, SMTT(30)
  <2>2. ran[i][s] <= MaxAttempts * (1 + mishaps[i])
    BY <1>3, <2>1, Sized, RoundsBound, ZenonT(60) DEF Accounts, RunsPaid
  <2>3. undos[i][s] <= 1 * (1 + mishaps[i])
    BY <1>3, <2>1, Sized, RoundsBound, ZenonT(60) DEF Accounts, UndosPaid
  <2> QED
    BY <2>1, <2>2, <2>3, SMTT(30)
<1> QED
  BY <1>1, <1>2, <1>3, SagaInvariant, PTL DEF Spec

\* The coordinators and the journal implement SagaPromise: every step of theirs is one that
\* the producer of a saga was promised, or one it does not see.
THEOREM SagasKeepPromise == Spec => KeepsPromise
<1>1. Init => Promise!Init
  <2>1. cursor(<<>>) = 0
    <3>1. PositionsOf(<<>>, "StepCompleted") = 1 .. 0
      BY DEF PositionsOf
    <3>2. 0 \in Nat
      OBVIOUS
    <3> QED
      BY <3>1, <3>2, Counted, ZenonT(60) DEF Counting, cursor
  <2> QED
    BY <2>1, Zenon DEF Init, JournalInit, Promise!Init
<1>2. SagaInv /\ [Next]_vars => [Promise!Next]_<<status, [i \in Instances |-> cursor(log[i])]>>
  BY Counted, NextAsPromised, Zenon DEF PromiseStep, Done
<1> QED
  BY <1>1, <1>2, SagaInvariant, PTL DEF Spec, KeepsPromise, Promise!Spec

=============================================================================
