----------------------------- MODULE Lifecycle -----------------------------
(***************************************************************************)
(* Start, Stop and Ready of the outbox relay (runtime/outbox/relay.go) and *)
(* of the saga coordinator, which mirrors them (runtime/saga/              *)
(* coordinator.go).  The methods share an atomic state, a mutex over       *)
(* cancel, done and readyCh, and two channels; several goroutines call     *)
(* them, and the state and the fields under the mutex are read and written *)
(* at different moments.                                                   *)
(*                                                                         *)
(* Runs are numbered by the Start calls that won the CAS; the cancel       *)
(* function and the done channel of a run are its number, and readyCh is   *)
(* the number of the channel it points to.                                 *)
(***************************************************************************)
EXTENDS Naturals

CONSTANTS
    Starters,  \* goroutines that call Start, again and again
    Stoppers,  \* goroutines that call Stop
    MaxRuns    \* bound: runs that are started

ASSUME LifecycleAssumption == MaxRuns \in Nat \ {0}

None == 0

VARIABLES
    state,        \* the atomic lifecycle state
    cancel,       \* r.cancel, None for nil
    done,         \* r.done, None for nil
    ready,        \* r.readyCh
    readyClosed,  \* the ready channels that are closed
    ended,        \* the runs whose done channel is closed
    canceled,     \* the runs whose context is canceled
    runs,         \* runs started so far
    wired,        \* command dispatch has its claimer, or there is none to have
    start,        \* start[s]: where the Start call of s is
    run,          \* run[s]: its run
    stop,         \* stop[t]: where the Stop call of t is
    sawReady,     \* sawReady[t]: the ready channel it read
    sawCancel,    \* sawCancel[t]: the cancel function it took
    sawDone       \* sawDone[t]: the done channel it read

shared == <<state, cancel, done, ready, readyClosed, ended, canceled, runs, wired>>
startVars == <<start, run>>
stopVars == <<stop, sawReady, sawCancel, sawDone>>
vars == <<shared, startVars, stopVars>>

Runs == 0 .. MaxRuns

Init ==
    /\ state = "stopped"
    /\ cancel = None /\ done = None
    /\ ready = 1
    /\ readyClosed = {} /\ ended = {} /\ canceled = {}
    /\ runs = 0
    /\ wired \in BOOLEAN
    /\ start = [s \in Starters |-> "idle"]
    /\ run = [s \in Starters |-> None]
    /\ stop = [t \in Stoppers |-> "idle"]
    /\ sawReady = [t \in Stoppers |-> None]
    /\ sawCancel = [t \in Stoppers |-> None]
    /\ sawDone = [t \in Stoppers |-> None]

----------------------------------------------------------------------------
(* Start.                                                                  *)

StartGoto(s, label) == start' = [start EXCEPT ![s] = label]

\* The CAS from stopped to starting.
StartCAS(s) ==
    /\ start[s] = "idle"
    /\ runs < MaxRuns
    /\ state = "stopped"
    /\ state' = "starting"
    /\ StartGoto(s, "check")
    /\ UNCHANGED <<cancel, done, ready, readyClosed, ended, canceled, runs, wired, run, stopVars>>

\* The CAS fails and Start returns a conflict error.
StartRefused(s) ==
    /\ start[s] = "idle"
    /\ state # "stopped"
    /\ UNCHANGED vars

\* The relay's fail-closed check of the command claimer.
StartCheck(s) ==
    /\ start[s] = "check"
    /\ \/ /\ wired
          /\ runs' = runs + 1
          /\ run' = [run EXCEPT ![s] = runs + 1]
          /\ StartGoto(s, "register")
          /\ UNCHANGED state
       \/ /\ ~wired
          /\ state' = "stopped"
          /\ StartGoto(s, "idle")
          /\ UNCHANGED <<runs, run>>
    /\ UNCHANGED <<cancel, done, ready, readyClosed, ended, canceled, wired, stopVars>>

\* Under the mutex: cancel and done are those of this run.
StartRegister(s) ==
    /\ start[s] = "register"
    /\ cancel' = run[s]
    /\ done' = run[s]
    /\ StartGoto(s, "run")
    /\ UNCHANGED <<state, ready, readyClosed, ended, canceled, runs, wired, run, stopVars>>

StartRunning(s) ==
    /\ start[s] = "run"
    /\ state' = "running"
    /\ StartGoto(s, "announce")
    /\ UNCHANGED <<cancel, done, ready, readyClosed, ended, canceled, runs, wired, run, stopVars>>

\* close(r.readyCh), outside the mutex; then the loops run and Start blocks.
StartAnnounce(s) ==
    /\ start[s] = "announce"
    /\ readyClosed' = readyClosed \cup {ready}
    /\ StartGoto(s, "block")
    /\ UNCHANGED <<state, cancel, done, ready, ended, canceled, runs, wired, run, stopVars>>

\* The caller cancels the context it gave to Start.
ParentCancel(s) ==
    /\ start[s] \notin {"idle", "check"}
    /\ run[s] \notin canceled
    /\ canceled' = canceled \cup {run[s]}
    /\ UNCHANGED <<state, cancel, done, ready, readyClosed, ended, runs, wired, startVars, stopVars>>

\* A bug: the deferred function leaves the closed ready channel in place.
StartReturnKeepsReady(s) ==
    /\ start[s] = "block"
    /\ run[s] \in canceled
    /\ cancel' = None
    /\ done' = None
    /\ state' = "stopped"
    /\ ended' = ended \cup {run[s]}
    /\ StartGoto(s, "idle")
    /\ run' = [run EXCEPT ![s] = None]
    /\ UNCHANGED <<ready, readyClosed, canceled, runs, wired, stopVars>>

\* The context is done, the loops have returned, and the deferred function runs
\* under the mutex.
StartReturn(s) ==
    /\ start[s] = "block"
    /\ run[s] \in canceled
    /\ cancel' = None
    /\ done' = None
    /\ ready' = ready + 1
    /\ state' = "stopped"
    /\ ended' = ended \cup {run[s]}
    /\ StartGoto(s, "idle")
    /\ run' = [run EXCEPT ![s] = None]
    /\ UNCHANGED <<readyClosed, canceled, runs, wired, stopVars>>

\* The missing claimer is wired.
Correct ==
    /\ ~wired
    /\ wired' = TRUE
    /\ UNCHANGED <<state, cancel, done, ready, readyClosed, ended, canceled, runs, startVars, stopVars>>

----------------------------------------------------------------------------
(* Stop.                                                                   *)

StopGoto(t, label) == stop' = [stop EXCEPT ![t] = label]

StopReturn(t) ==
    /\ StopGoto(t, "idle")
    /\ sawReady' = [sawReady EXCEPT ![t] = None]
    /\ sawCancel' = [sawCancel EXCEPT ![t] = None]
    /\ sawDone' = [sawDone EXCEPT ![t] = None]

\* Under the mutex: Stop does nothing if there is no run or one is stopping.
StopRead(t) ==
    /\ stop[t] = "idle"
    /\ ~(cancel = None /\ state = "stopped")
    /\ state # "stopping"
    /\ sawReady' = [sawReady EXCEPT ![t] = ready]
    /\ StopGoto(t, "await")
    /\ UNCHANGED <<shared, startVars, sawCancel, sawDone>>

StopAwaitReady(t) ==
    /\ stop[t] = "await"
    /\ sawReady[t] \in readyClosed
    /\ StopGoto(t, "mark")
    /\ UNCHANGED <<shared, startVars, sawReady, sawCancel, sawDone>>

\* state.Store(stopping), whatever the state is by now.
StopMark(t) ==
    /\ stop[t] = "mark"
    /\ state' = "stopping"
    /\ StopGoto(t, "take")
    /\ UNCHANGED <<cancel, done, ready, readyClosed, ended, canceled, runs, wired, startVars,
                   sawReady, sawCancel, sawDone>>

\* Under the mutex: take cancel and read done.
StopTake(t) ==
    /\ stop[t] = "take"
    /\ sawCancel' = [sawCancel EXCEPT ![t] = cancel]
    /\ sawDone' = [sawDone EXCEPT ![t] = done]
    /\ cancel' = None
    /\ StopGoto(t, "finish")
    /\ UNCHANGED <<state, done, ready, readyClosed, ended, canceled, runs, wired, startVars, sawReady>>

\* A bug: Stop takes the cancel function and does not call it.
StopCancelForgets(t) ==
    /\ stop[t] = "finish"
    /\ sawCancel[t] # None
    /\ sawCancel' = [sawCancel EXCEPT ![t] = None]
    /\ UNCHANGED <<shared, startVars, stop, sawReady, sawDone>>

\* cancel(), if Stop took it.
StopCancel(t) ==
    /\ stop[t] = "finish"
    /\ sawCancel[t] # None
    /\ canceled' = canceled \cup {sawCancel[t]}
    /\ sawCancel' = [sawCancel EXCEPT ![t] = None]
    /\ UNCHANGED <<state, cancel, done, ready, readyClosed, ended, runs, wired, startVars,
                   stop, sawReady, sawDone>>

\* The run is over, or there is no done channel to wait for.
StopDone(t) ==
    /\ stop[t] = "finish"
    /\ sawCancel[t] = None
    /\ sawDone[t] = None \/ sawDone[t] \in ended
    /\ StopReturn(t)
    /\ UNCHANGED <<shared, startVars>>

\* A bug: a Stop that gives up puts the state back.
StopTimeoutResets(t) ==
    /\ \/ stop[t] = "await"
       \/ stop[t] = "finish" /\ sawCancel[t] = None
    /\ StopReturn(t)
    /\ state' = "stopped"
    /\ UNCHANGED <<cancel, done, ready, readyClosed, ended, canceled, runs, wired, startVars>>

\* The caller's deadline expires while Stop waits for ready or for done.
StopTimeout(t) ==
    /\ \/ stop[t] = "await"
       \/ stop[t] = "finish" /\ sawCancel[t] = None
    /\ StopReturn(t)
    /\ UNCHANGED <<shared, startVars>>

\* The last run the bound allows is over and nobody is inside a call.
Quiescent ==
    /\ runs = MaxRuns
    /\ \A s \in Starters : start[s] = "idle"
    /\ \A t \in Stoppers : stop[t] = "idle"
    /\ UNCHANGED vars

StartStep(s) ==
    \/ StartCheck(s) \/ StartRegister(s) \/ StartRunning(s) \/ StartAnnounce(s) \/ StartReturn(s)

StopStep(t) ==
    \/ StopAwaitReady(t) \/ StopMark(t) \/ StopTake(t) \/ StopCancel(t) \/ StopDone(t)

Next ==
    \/ \E s \in Starters : StartCAS(s) \/ StartRefused(s) \/ StartStep(s) \/ ParentCancel(s)
    \/ \E t \in Stoppers : StopRead(t) \/ StopStep(t) \/ StopTimeout(t)
    \/ Correct
    \/ Quiescent

Spec == Init /\ [][Next]_vars

\* A goroutine inside a call takes its next step; nobody has to make a call.
FairSpec ==
    /\ Spec
    /\ \A s \in Starters : WF_vars(StartStep(s))
    /\ \A t \in Stoppers : WF_vars(StopStep(t))

----------------------------------------------------------------------------
Active == {s \in Starters : start[s] # "idle"}

\* Whatever Stop calls do to the state, two Start calls never run at a time, so
\* the loops, the wait group and the channels belong to one run.
OneRun == \A s1, s2 \in Active : s1 = s2

\* A ready channel is closed once, by the run it was made for: close(readyCh)
\* outside the mutex never panics.
ReadyClosedOnce ==
    \A s \in Starters : start[s] \in {"register", "run", "announce"}
                            => ready = run[s] /\ ready \notin readyClosed

\* A Stop that has taken a run down sees it end: cancel is never dropped, so no
\* run outlives the Stop calls that share its done channel.
TakenRunIsCanceled ==
    \A s \in Starters :
        start[s] = "block" /\ cancel # run[s] /\ run[s] \notin canceled
            => \E t \in Stoppers : sawCancel[t] = run[s]

\* A Stop call that has seen its run become ready returns, however many Stop and
\* Start calls and cancellations race with it.
StopReturns ==
    \A t \in Stoppers : (sawReady[t] \in readyClosed) ~> (stop[t] = "idle")

\* TestRelay_CanRestartAfterStop: once every Start and Stop call has returned,
\* the next Start is not refused.
CanRestartAfterStop ==
    Active = {} /\ (\A t \in Stoppers : stop[t] = "idle") => state = "stopped"
============================================================================
