-------------------------- MODULE LifecycleProofs --------------------------
(***************************************************************************)
(* What the atomic state, the mutex and the two channels of Start and Stop *)
(* guarantee (Lifecycle), for any number of callers and of runs.           *)
(***************************************************************************)
EXTENDS Lifecycle, TLAPS

States == {"stopped", "starting", "running", "stopping"}
StartLabels == {"idle", "check", "register", "run", "announce", "block"}
StopLabels == {"idle", "await", "mark", "take", "finish"}

TypeOK ==
    /\ state \in States
    /\ cancel \in Nat /\ ready \in Nat /\ runs \in Nat
    /\ readyClosed \in SUBSET Nat
    /\ start \in [Starters -> StartLabels]
    /\ run \in [Starters -> Nat]
    /\ stop \in [Stoppers -> StopLabels]
    /\ sawCancel \in [Stoppers -> Nat]

\* The Start call of s has a run, and has registered it.
HasRun(s) == start[s] \in {"register", "run", "announce", "block"}
Registered(s) == start[s] \in {"run", "announce", "block"}

\* Only a state that is not "stopped" keeps a second Start out, and no Stop call ever
\* stores "stopped".
GuardedByState == state = "stopped" => \A s \in Starters : start[s] = "idle"

\* The ready channel in place is the one of the run that is on, or of the next one,
\* and of the channels that are closed only that of a blocked Start is in place.
ReadyFollowsRuns ==
    /\ \A s \in Starters : HasRun(s) => run[s] = runs /\ ready = runs /\ runs # None
    /\ (\A s \in Starters : ~HasRun(s)) => ready = runs + 1
    /\ \A n \in readyClosed : n <= ready
    /\ (\A s \in Starters : start[s] # "block") => ready \notin readyClosed

\* The cancel function of a registered run is in place, or taken by a Stop call that
\* has still to call it, or called.
CancelIsSomewhere ==
    /\ \A s \in Starters : Registered(s) =>
          \/ cancel = run[s]
          \/ run[s] \in canceled
          \/ \E t \in Stoppers : sawCancel[t] = run[s]
    /\ \A t \in Stoppers : sawCancel[t] # None => stop[t] = "finish"

IInv == TypeOK /\ OneRun /\ GuardedByState /\ ReadyFollowsRuns /\ CancelIsSomewhere

\* Before the first Start there is no run.
LEMMA InitIInv == Init => IInv
BY DEF Init, IInv, TypeOK, OneRun, Active, GuardedByState, ReadyFollowsRuns, CancelIsSomewhere,
    HasRun, Registered, States, StartLabels, StopLabels, None

\* Every step keeps the types.
LEMMA StepTyped == TypeOK /\ [Next]_vars => TypeOK'
<1> SUFFICES ASSUME TypeOK, [Next]_vars PROVE TypeOK'
  OBVIOUS
<1> USE DEF TypeOK, States, StartLabels, StopLabels, StartGoto, StopGoto, None
<1>1. ASSUME NEW s \in Starters, StartCAS(s) \/ StartRefused(s) \/ StartStep(s) \/ ParentCancel(s)
      PROVE  TypeOK'
  <2>1. CASE StartCAS(s) \/ StartRefused(s) \/ ParentCancel(s)
    BY <2>1, Zenon DEF StartCAS, StartRefused, ParentCancel, vars, shared, startVars, stopVars
  <2>2. CASE StartCheck(s)
    BY <2>2 DEF StartCheck, stopVars
  <2>3. CASE StartRegister(s)
    BY <2>3 DEF StartRegister, stopVars
  <2>4. CASE StartRunning(s)
    BY <2>4 DEF StartRunning, stopVars
  <2>5. CASE StartAnnounce(s)
    BY <2>5 DEF StartAnnounce, stopVars
  <2>6. CASE StartReturn(s)
    BY <2>6 DEF StartReturn, stopVars
  <2> QED
    BY <1>1, <2>1, <2>2, <2>3, <2>4, <2>5, <2>6 DEF StartStep
<1>2. ASSUME NEW t \in Stoppers, StopRead(t) \/ StopStep(t) \/ StopTimeout(t)
      PROVE  TypeOK'
  <2>1. CASE StopRead(t) \/ StopAwaitReady(t) \/ StopMark(t)
    BY <2>1, Zenon DEF StopRead, StopAwaitReady, StopMark, shared, startVars
  <2>2. CASE StopTake(t)
    BY <2>2 DEF StopTake, startVars
  <2>3. CASE StopCancel(t)
    BY <2>3 DEF StopCancel, startVars
  <2>4. CASE StopDone(t) \/ StopTimeout(t)
    <3>1. StopReturn(t) /\ UNCHANGED <<shared, startVars>>
      BY <2>4 DEF StopDone, StopTimeout
    <3> QED
      BY <3>1 DEF StopReturn, shared, startVars
  <2> QED
    BY <1>2, <2>1, <2>2, <2>3, <2>4 DEF StopStep
<1>3. CASE Correct \/ Quiescent \/ UNCHANGED vars
  BY <1>3, Zenon DEF Correct, Quiescent, vars, shared, startVars, stopVars
<1> QED
  BY <1>1, <1>2, <1>3 DEF Next

\* A Start call of s that takes a step leaves the others where they are.
LEMMA StartKeeps ==
    ASSUME IInv, NEW s \in Starters, StartCAS(s) \/ StartStep(s)
    PROVE  /\ OneRun' /\ GuardedByState' /\ ReadyFollowsRuns' /\ CancelIsSomewhere'
<1> USE DEF IInv, TypeOK, StartGoto, None
<1>a. \A r \in Starters : r # s => start'[r] = start[r] /\ run'[r] = run[r]
  BY DEF StartCAS, StartStep, StartCheck, StartRegister, StartRunning, StartAnnounce, StartReturn,
      stopVars
<1>b. \A r \in Starters : r # s => start[r] = "idle"
  BY DEF StartCAS, StartStep, StartCheck, StartRegister, StartRunning, StartAnnounce, StartReturn,
      OneRun, Active, GuardedByState
<1>c. sawCancel' = sawCancel /\ stop' = stop
  BY DEF StartCAS, StartStep, StartCheck, StartRegister, StartRunning, StartAnnounce, StartReturn,
      stopVars
<1>1. OneRun'
  BY <1>a, <1>b DEF OneRun, Active
<1>2. GuardedByState'
  BY <1>a, <1>b DEF GuardedByState, StartCAS, StartStep, StartCheck, StartRegister, StartRunning,
      StartAnnounce, StartReturn
<1>3. ReadyFollowsRuns'
  <2>1. CASE StartCAS(s)
    BY <2>1, <1>a, <1>b DEF StartCAS, ReadyFollowsRuns, HasRun
  <2>2. CASE StartCheck(s)
    BY <2>2, <1>a, <1>b DEF StartCheck, ReadyFollowsRuns, HasRun
  <2>3. CASE StartRegister(s)
    BY <2>3, <1>a, <1>b DEF StartRegister, ReadyFollowsRuns, HasRun
  <2>4. CASE StartRunning(s)
    BY <2>4, <1>a, <1>b DEF StartRunning, ReadyFollowsRuns, HasRun
  <2>5. CASE StartAnnounce(s)
    BY <2>5, <1>a, <1>b DEF StartAnnounce, ReadyFollowsRuns, HasRun
  <2>6. CASE StartReturn(s)
    BY <2>6, <1>a, <1>b DEF StartReturn, ReadyFollowsRuns, HasRun
  <2> QED
    BY <2>1, <2>2, <2>3, <2>4, <2>5, <2>6 DEF StartStep
<1>4. CancelIsSomewhere'
  BY <1>a, <1>b, <1>c DEF CancelIsSomewhere, Registered, StartCAS, StartStep, StartCheck,
      StartRegister, StartRunning, StartAnnounce, StartReturn
<1> QED
  BY <1>1, <1>2, <1>3, <1>4

\* A Stop call never makes room for a second Start, and the cancel function it takes
\* stays with it until it has called it.
LEMMA StopKeeps ==
    ASSUME IInv, NEW t \in Stoppers, StopRead(t) \/ StopStep(t) \/ StopTimeout(t)
    PROVE  /\ OneRun' /\ GuardedByState' /\ ReadyFollowsRuns' /\ CancelIsSomewhere'
<1> USE DEF IInv, TypeOK, StopGoto, None
<1>a. /\ start' = start /\ run' = run /\ runs' = runs /\ ready' = ready
      /\ readyClosed' = readyClosed
      /\ state' \in {state, "stopping"}
  BY DEF StopRead, StopStep, StopAwaitReady, StopMark, StopTake, StopCancel, StopDone,
      StopTimeout, StopReturn, shared, startVars
<1>1. OneRun' /\ GuardedByState' /\ ReadyFollowsRuns'
  BY <1>a DEF OneRun, Active, GuardedByState, ReadyFollowsRuns, HasRun
<1>2. CancelIsSomewhere'
  <2>1. CASE StopTake(t)
    BY <2>1, <1>a DEF CancelIsSomewhere, Registered, StopTake
  <2>2. CASE StopCancel(t)
    BY <2>2, <1>a DEF CancelIsSomewhere, Registered, StopCancel
  <2>3. CASE StopDone(t) \/ StopTimeout(t)
    BY <2>3, <1>a DEF CancelIsSomewhere, Registered, StopDone, StopTimeout, StopReturn, shared
  <2>4. CASE StopRead(t) \/ StopAwaitReady(t) \/ StopMark(t)
    BY <2>4, <1>a DEF CancelIsSomewhere, Registered, StopRead, StopAwaitReady, StopMark, shared
  <2> QED
    BY <2>1, <2>2, <2>3, <2>4 DEF StopStep
<1> QED
  BY <1>1, <1>2

\* Every step keeps the inductive invariant.
LEMMA NextIInv == IInv /\ [Next]_vars => IInv'
<1> SUFFICES ASSUME IInv, [Next]_vars PROVE IInv'
  OBVIOUS
<1>1. TypeOK'
  BY StepTyped DEF IInv
<1>2. ASSUME NEW s \in Starters, ParentCancel(s) PROVE IInv'
  BY <1>1, <1>2 DEF IInv, OneRun, Active, GuardedByState, ReadyFollowsRuns, CancelIsSomewhere,
      HasRun, Registered, ParentCancel, startVars, stopVars
<1>3. ASSUME NEW s \in Starters, StartCAS(s) \/ StartStep(s) PROVE IInv'
  BY <1>1, <1>3, StartKeeps DEF IInv
<1>4. ASSUME NEW t \in Stoppers, StopRead(t) \/ StopStep(t) \/ StopTimeout(t) PROVE IInv'
  BY <1>1, <1>4, StopKeeps DEF IInv
<1>5. CASE \/ Correct \/ Quiescent \/ UNCHANGED vars
           \/ \E s \in Starters : StartRefused(s)
  BY <1>1, <1>5 DEF IInv, OneRun, Active, GuardedByState, ReadyFollowsRuns, CancelIsSomewhere,
      HasRun, Registered, Correct, Quiescent, StartRefused, vars, shared, startVars, stopVars
<1> QED
  BY <1>2, <1>3, <1>4, <1>5 DEF Next

\* The inductive invariant holds throughout.
THEOREM LifecycleInvariant == Spec => []IInv
BY InitIInv, NextIInv, PTL DEF Spec

\* Two Start calls never run at a time, whatever Stop calls store in the state.
THEOREM OneRunAtATime == Spec => []OneRun
<1>1. IInv => OneRun
  BY DEF IInv
<1> QED
  BY <1>1, LifecycleInvariant, PTL

\* No ready channel is closed twice, so close(readyCh) outside the mutex never panics.
THEOREM ReadyNeverPanics == Spec => []ReadyClosedOnce
<1>1. IInv => ReadyClosedOnce
  BY DEF IInv, TypeOK, OneRun, Active, ReadyFollowsRuns, HasRun, ReadyClosedOnce
<1> QED
  BY <1>1, LifecycleInvariant, PTL

\* The cancel function of a run is never dropped by the Stop calls that race for it.
THEOREM CancelIsNeverDropped == Spec => []TakenRunIsCanceled
<1>1. IInv => TakenRunIsCanceled
  BY DEF IInv, CancelIsSomewhere, Registered, TakenRunIsCanceled
<1> QED
  BY <1>1, LifecycleInvariant, PTL
============================================================================
