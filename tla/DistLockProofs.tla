--------------------------- MODULE DistLockProofs ---------------------------
(***************************************************************************)
(* The manager of distributed locks (DistLock), for any number of          *)
(* processes, acquisitions and keys: it leaves nothing behind, a detached  *)
(* lock is renewed once at most, and a key is freed by its holder only.    *)
(***************************************************************************)
EXTENDS DistLock, FiniteSetTheorems, TLAPS

Calls == {"new", "failed", "won", "added", "held", "releasing", "orphaning", "io", "returned"}
Results == {"none", "held", "lost", "error"}
Events == [kind : {"add", "remove", "orphan", "renewResult"}, lock : Locks, res : Results]
Workers == [at : {"none", "ready", "sent", "post"}, tries : Nat, canceled : BOOLEAN,
            left : BOOLEAN, res : Results]

TypeOK ==
    /\ key \in [Keys -> Locks \cup {Nobody}]
    /\ mgr \in [Procs -> {"none", "loop", "drain"}]
    /\ pending \in [Procs -> Nat]
    /\ events \in [Procs -> Seq(Events)]
    /\ locks \in [Procs -> SUBSET Locks]
    /\ due \in [Procs -> SUBSET Locks]
    /\ call \in [Locks -> Calls]
    /\ place \in [Locks -> [proc : Procs, key : Keys]]
    /\ cause \in [Locks -> {"none", "released", "orphaned", "lost"}]
    /\ worker \in [Locks -> Workers]
    /\ late \in [Locks -> Nat]

\* The locks of p whose caller has been counted by add and not yet been disposed of.
Owing(p) == {l \in Locks : procOf(l) = p /\ call[l] \in {"added", "held", "releasing", "orphaning"}}

\* The manager's count is the number of locks it owes a disposal.
CountIsOwing == \A p \in Procs : pending[p] = Cardinality(Owing(p))

\* The add of the lock has been sent, and the lock not yet been disposed of.
Sent(l) == call[l] \in {"held", "releasing", "orphaning"}

\* What the map holds is owed a disposal, and the heap holds a part of it.
MapIsOwed ==
    \A p \in Procs :
        /\ \A l \in locks[p] : procOf(l) = p /\ Sent(l) /\ cause[l] = "none"
        /\ due[p] \subseteq locks[p]

\* What an event in the channel says of its lock.
EventOK(p, e) ==
    /\ procOf(e.lock) = p
    /\ e.kind = "add" =>
          Sent(e.lock) /\ e.lock \notin locks[p] /\ cause[e.lock] = "none" /\ worker[e.lock] = NoWorker
    /\ e.kind = "remove" => call[e.lock] = "releasing"
    /\ e.kind = "orphan" => call[e.lock] = "orphaning"
    /\ e.kind = "renewResult" =>
          /\ Sent(e.lock) \/ call[e.lock] \in {"io", "returned"}
          /\ worker[e.lock] = NoWorker /\ e.lock \notin due[p]

EventsOK == \A p \in Procs : \A n \in 1 .. Len(events[p]) : EventOK(p, events[p][n])

\* Two events of one lock: the add is the first, and there is one result of a renewal
\* and one disposal at most.
Follows(d, e) ==
    d.lock = e.lock =>
        /\ e.kind # "add"
        /\ e.kind = "renewResult" => d.kind \in {"remove", "orphan"}
        /\ e.kind \in {"remove", "orphan"} => d.kind \in {"add", "renewResult"}

InOrder ==
    \A p \in Procs : \A m, n \in 1 .. Len(events[p]) :
        m < n => Follows(events[p][m], events[p][n])

\* A renewal in flight has no item in the heap; that of a detached lock is canceled,
\* and sends nothing more once it has taken effect.
WorkerOK(l) ==
    /\ worker[l].at = "none" => worker[l] = NoWorker
    /\ worker[l].at # "none" => l \notin due[procOf(l)]
    /\ ~Sent(l) /\ call[l] \notin {"io", "returned"} => cause[l] = "none" /\ worker[l] = NoWorker
    /\ cause[l] # "none" => worker[l].at = "none" \/ worker[l].canceled
    /\ late[l] = 0 \/ (late[l] = 1 /\ cause[l] # "none" /\ worker[l].at # "sent")

WorkersOK == \A l \in Locks : WorkerOK(l)

IInv ==
    /\ TypeOK /\ CountIsOwing /\ MapIsOwed /\ EventsOK /\ InOrder /\ WorkersOK
    /\ ManagerLeavesNothing

----------------------------------------------------------------------------
(* The channel.                                                            *)

\* Taking the first event moves the others up.
LEMMA Taken ==
    ASSUME TypeOK, NEW p \in Procs, events[p] # <<>>, events' = [events EXCEPT ![p] = Tail(@)]
    PROVE  /\ Len(events[p]) \in Nat \ {0}
           /\ Ev(p) = events[p][1] /\ Ev(p) \in Events
           /\ Len(events'[p]) = Len(events[p]) - 1
           /\ \A n \in 1 .. Len(events'[p]) : events'[p][n] = events[p][n + 1]
           /\ \A q \in Procs : q # p => events'[q] = events[q]
<1>1. events[p] \in Seq(Events)
  BY Zenon DEF TypeOK
<1>2. events'[p] = Tail(events[p]) /\ \A q \in Procs : q # p => events'[q] = events[q]
  BY Zenon DEF TypeOK
<1>3. ASSUME NEW q \in Seq(Events), q # <<>>
      PROVE  /\ Len(q) \in Nat \ {0}
             /\ Head(q) = q[1] /\ Head(q) \in Events
             /\ Len(Tail(q)) = Len(q) - 1
             /\ \A n \in 1 .. Len(Tail(q)) : Tail(q)[n] = q[n + 1]
  BY <1>3
<1> QED
  BY <1>1, <1>2, <1>3, ZenonT(60) DEF Ev

\* The events that stay in the channel keep what was said of them if the step does not
\* disturb it for events that may follow the one it takes.
LEMMA TakeKeeps ==
    ASSUME TypeOK, EventsOK, InOrder,
           NEW p \in Procs, events[p] # <<>>, events' = [events EXCEPT ![p] = Tail(@)],
           \A q \in Procs : \A e \in Events :
               EventOK(q, e) /\ (q = p => Follows(Ev(p), e)) => EventOK(q, e)'
    PROVE  EventsOK' /\ InOrder'
<1>1. ASSUME NEW q \in Procs, NEW n \in 1 .. Len(events'[q]) PROVE EventOK(q, events[q][n])'
  <2>1. CASE q = p
    <3>a. Len(events[p]) \in Nat \ {0} /\ Len(events'[p]) = Len(events[p]) - 1
      BY Taken, Zenon
    <3>1. n + 1 \in 1 .. Len(events[p]) /\ 1 \in 1 .. Len(events[p]) /\ 1 < n + 1
      BY <1>1, <2>1, <3>a
    <3>2. /\ events'[p][n] = events[p][n + 1] /\ events[p][n + 1] \in Events
          /\ Ev(p) = events[p][1]
      <4>1. events'[p][n] = events[p][n + 1] /\ Ev(p) = events[p][1]
        BY <1>1, <2>1, Taken, Zenon
      <4>2. events[p] \in Seq(Events)
        BY Zenon DEF TypeOK
      <4> QED
        BY <3>1, <4>1, <4>2
    <3>3. EventOK(p, events[p][n + 1]) /\ Follows(Ev(p), events[p][n + 1])
      BY <3>1, <3>2, Zenon DEF EventsOK, InOrder
    <3>4. PICK e \in Events : e = events[p][n + 1]
      BY <3>2, Zenon
    <3>5. EventOK(p, e)'
      BY <3>3, <3>4, Zenon
    <3> QED
      BY <2>1, <3>2, <3>4, <3>5 DEF EventOK, Sent, procOf
  <2>2. CASE q # p
    <3>1. events'[q] = events[q] /\ n \in 1 .. Len(events[q])
      BY <1>1, <2>2, Taken, Zenon
    <3>2. EventOK(q, events[q][n]) /\ events[q][n] \in Events
      BY <3>1 DEF EventsOK, TypeOK
    <3>3. PICK e \in Events : e = events[q][n]
      BY <3>2, Zenon
    <3>4. EventOK(q, e)'
      BY <2>2, <3>2, <3>3, Zenon
    <3> QED
      BY <3>1, <3>3, <3>4, Zenon DEF EventOK, Sent, procOf
  <2> QED
    BY <2>1, <2>2, Zenon
<1>2. ASSUME NEW q \in Procs, NEW m \in 1 .. Len(events'[q]), NEW n \in 1 .. Len(events'[q]), m < n
      PROVE  Follows(events'[q][m], events'[q][n])
  <2>1. CASE q = p
    <3>a. Len(events[p]) \in Nat \ {0} /\ Len(events'[p]) = Len(events[p]) - 1
      BY Taken, Zenon
    <3>1. m + 1 \in 1 .. Len(events[p]) /\ n + 1 \in 1 .. Len(events[p]) /\ m + 1 < n + 1
      BY <1>2, <2>1, <3>a
    <3>2. events'[q][m] = events[q][m + 1] /\ events'[q][n] = events[q][n + 1]
      BY <1>2, <2>1, Taken, Zenon
    <3> QED
      BY <2>1, <3>1, <3>2, Zenon DEF InOrder
  <2>2. CASE q # p
    BY <1>2, <2>2, Taken, Zenon DEF InOrder
  <2> QED
    BY <2>1, <2>2, Zenon
<1>3. InOrder'
  BY <1>2, Zenon DEF InOrder, Follows
<1> QED
  BY <1>1, <1>3, Zenon DEF EventsOK

\* A send adds one event at the end.
LEMMA Appended ==
    ASSUME TypeOK, NEW l \in Locks, NEW kind, NEW res, Send(l, kind, res),
           [kind |-> kind, lock |-> l, res |-> res] \in Events
    PROVE  LET p == procOf(l) IN
           /\ p \in Procs
           /\ Len(events[p]) \in Nat
           /\ Len(events'[p]) = Len(events[p]) + 1
           /\ \A n \in 1 .. Len(events[p]) : events'[p][n] = events[p][n]
           /\ events'[p][Len(events[p]) + 1] = [kind |-> kind, lock |-> l, res |-> res]
           /\ \A q \in Procs : q # p => events'[q] = events[q]
<1> DEFINE p == procOf(l)
           e == [kind |-> kind, lock |-> l, res |-> res]
<1>1. p \in Procs /\ events[p] \in Seq(Events)
  BY Zenon DEF TypeOK, procOf
<1>2. events'[p] = Append(events[p], e) /\ \A q \in Procs : q # p => events'[q] = events[q]
  BY <1>1, Zenon DEF TypeOK, Send
<1> HIDE DEF e, p
<1>3. e \in Events
  BY Zenon DEF e
<1>4. /\ Len(events[p]) \in Nat
      /\ Len(events'[p]) = Len(events[p]) + 1
      /\ \A n \in 1 .. Len(events[p]) : events'[p][n] = events[p][n]
      /\ events'[p][Len(events[p]) + 1] = e
  BY <1>1, <1>2, <1>3
<1> QED
  BY <1>1, <1>2, <1>4, Zenon DEF e, p

\* The events in the channel, and the one sent, keep what is said of them.
LEMMA SendKeeps ==
    ASSUME TypeOK, EventsOK, InOrder,
           NEW l \in Locks, NEW kind, NEW res, Send(l, kind, res), place' = place,
           NEW f \in Events, f = [kind |-> kind, lock |-> l, res |-> res],
           EventOK(procOf(l), f)',
           \A e \in Events : EventOK(procOf(l), e) => Follows(e, f),
           \A q \in Procs : \A e \in Events : EventOK(q, e) => EventOK(q, e)'
    PROVE  EventsOK' /\ InOrder'
<1>0. PICK p \in Procs : p = procOf(l)
  BY Zenon DEF TypeOK, procOf
<1>a. /\ p \in Procs
      /\ Len(events[p]) \in Nat
      /\ Len(events'[p]) = Len(events[p]) + 1
      /\ \A n \in 1 .. Len(events[p]) : events'[p][n] = events[p][n]
      /\ events'[p][Len(events[p]) + 1] = f
      /\ \A q \in Procs : q # p => events'[q] = events[q]
  BY <1>0, Appended
<1>b. procOf(l)' = p
  BY <1>0, Zenon DEF procOf
<1>c. EventOK(p, f)'
  BY <1>b, Zenon DEF EventOK, Sent, procOf
<1>1. ASSUME NEW q \in Procs, NEW n \in 1 .. Len(events[q]) PROVE events[q][n] \in Events
  BY DEF TypeOK
<1>2. ASSUME NEW q \in Procs, NEW n \in 1 .. Len(events'[q]) PROVE EventOK(q, events[q][n])'
  <2>1. CASE n \in 1 .. Len(events[q]) /\ events'[q][n] = events[q][n]
    <3>1. PICK e \in Events : e = events[q][n]
      BY <1>1, <2>1, Zenon
    <3>2. EventOK(q, e)'
      BY <2>1, <3>1, Zenon DEF EventsOK
    <3> QED
      BY <2>1, <3>1, <3>2, Zenon DEF EventOK, Sent, procOf
  <2>2. CASE q = p /\ n = Len(events[p]) + 1
    <3>1. events'[q][n] = f
      BY <1>a, <2>2, Zenon
    <3> QED
      BY <1>c, <2>2, <3>1 DEF EventOK, Sent, procOf
  <2> QED
    BY <1>a, <1>2, <2>1, <2>2
<1>3. ASSUME NEW q \in Procs, NEW m \in 1 .. Len(events'[q]), NEW n \in 1 .. Len(events'[q]), m < n
      PROVE  Follows(events'[q][m], events'[q][n])
  <2>1. CASE q = p /\ n = Len(events[p]) + 1
    <3>1. m \in 1 .. Len(events[p]) /\ events'[p][m] = events[p][m] /\ events'[p][n] = f
      BY <1>a, <1>3, <2>1
    <3>2. Follows(events[p][m], f)
      BY <1>0, <1>a, <1>1, <3>1, Zenon DEF EventsOK
    <3> QED
      BY <2>1, <3>1, <3>2, Zenon
  <2>2. CASE ~(q = p /\ n = Len(events[p]) + 1)
    <3>1. /\ m \in 1 .. Len(events[q]) /\ n \in 1 .. Len(events[q])
          /\ events'[q][m] = events[q][m] /\ events'[q][n] = events[q][n]
      BY <1>a, <1>3, <2>2, SMTT(30)
    <3> QED
      BY <1>3, <3>1, Zenon DEF InOrder
  <2> QED
    BY <2>1, <2>2, Zenon
<1>4. InOrder'
  BY <1>3, Zenon DEF InOrder, Follows
<1> QED
  BY <1>2, <1>4, Zenon DEF EventsOK

\* A step that leaves the channel alone.
LEMMA ChannelStays ==
    ASSUME TypeOK, EventsOK, InOrder, events' = events,
           \A q \in Procs : \A e \in Events : EventOK(q, e) => EventOK(q, e)'
    PROVE  EventsOK' /\ InOrder'
<1>1. ASSUME NEW q \in Procs, NEW n \in 1 .. Len(events[q]) PROVE EventOK(q, events[q][n])'
  <2>1. PICK e \in Events : e = events[q][n]
    BY DEF TypeOK
  <2>2. EventOK(q, e)'
    BY <2>1, Zenon DEF EventsOK
  <2> QED
    BY <2>1, <2>2, Zenon DEF EventOK, Sent, procOf
<1> QED
  BY <1>1 DEF EventsOK, InOrder, Follows

----------------------------------------------------------------------------
(* Types.                                                                  *)

\* Nothing has been acquired yet.
LEMMA InitIInv == Init => IInv
<1> SUFFICES ASSUME Init PROVE IInv
  OBVIOUS
<1> USE DEF Init
<1>1. TypeOK
  <2>1. place \in [Locks -> [proc : Procs, key : Keys]]
    BY DistLockAssumption, Zenon
  <2>2. NoWorker \in Workers
    BY Zenon DEF NoWorker, Workers, Results
  <2> QED
    BY <2>1, <2>2 DEF TypeOK, Calls
<1>2. CountIsOwing
  <2>1. \A p \in Procs : Owing(p) = {}
    BY Zenon DEF Owing
  <2> QED
    BY <2>1, FS_EmptySet, Zenon DEF CountIsOwing
<1>3. MapIsOwed /\ EventsOK /\ InOrder /\ ManagerLeavesNothing
  BY DEF MapIsOwed, EventsOK, InOrder, ManagerLeavesNothing
<1>4. WorkersOK
  BY Zenon DEF WorkersOK, WorkerOK, NoWorker, Sent
<1> QED
  BY <1>1, <1>2, <1>3, <1>4, Zenon DEF IInv

\* The steps of a caller keep the types.
LEMMA CallerTyped ==
    ASSUME TypeOK, NEW l \in Locks,
           \/ Acquire(l) \/ AcquireError(l) \/ add(l) \/ sendAdd(l) \/ remove(l) \/ orphan(l)
    PROVE  TypeOK'
<1>a. procOf(l) \in Procs /\ keyOf(l) \in Keys
  BY Zenon DEF TypeOK, procOf, keyOf
<1>1. CASE Acquire(l) \/ AcquireError(l)
  <2>1. key' \in [Keys -> Locks \cup {Nobody}]
    BY <1>1, <1>a, Zenon DEF TypeOK, Acquire, AcquireError, SetNX
  <2>2. call' \in [Locks -> Calls]
    BY <1>1, Zenon DEF TypeOK, Calls, Acquire, AcquireError, Goto
  <2> QED
    BY <1>1, <2>1, <2>2, Zenon DEF TypeOK, Acquire, AcquireError, mgrVars
<1>2. CASE add(l)
  BY <1>2, <1>a DEF TypeOK, Calls, add, Goto, redisVars
<1>3. CASE sendAdd(l) \/ remove(l) \/ orphan(l)
  <2>1. PICK kind \in {"add", "remove", "orphan"} : Send(l, kind, "none")
    BY <1>3, Zenon DEF sendAdd, remove, orphan
  <2>2. [kind |-> kind, lock |-> l, res |-> "none"] \in Events
    BY Zenon DEF Events, Results
  <2>3. events' \in [Procs -> Seq(Events)]
    BY <2>1, <2>2, <1>a DEF TypeOK, Send
  <2>4. call' \in [Locks -> Calls]
    BY <1>3, Zenon DEF TypeOK, Calls, sendAdd, remove, orphan, Goto
  <2> QED
    BY <1>3, <2>3, <2>4, Zenon DEF TypeOK, sendAdd, remove, orphan, redisVars, mgrVars
<1> QED
  BY <1>1, <1>2, <1>3, Zenon

\* So do the steps of the manager.
LEMMA ManagerTyped ==
    ASSUME TypeOK, NEW p \in Procs, CountIsOwing, MapIsOwed, EventsOK,
           Handle(p) \/ \E l \in Locks : handleRenew(p, l)
    PROVE  TypeOK'
<1>1. CASE drain(p)
  <2>1. ASSUME NEW l \in Locks PROVE [worker[l] EXCEPT !.left = TRUE] \in Workers
    BY Zenon DEF TypeOK, Workers
  <2>2. worker' \in [Locks -> Workers]
    BY <1>1, <2>1, Zenon DEF TypeOK, drain
  <2> QED
    BY <1>1, <2>2, Zenon DEF TypeOK, drain, redisVars
<1>2. ASSUME NEW l \in Locks, handleRenew(p, l) PROVE TypeOK'
  <2>1. ASSUME NEW a \in {"ready", worker[l].at} PROVE [worker[l] EXCEPT !.at = a] \in Workers
    BY ZenonT(60) DEF TypeOK, Workers
  <2>2. worker' \in [Locks -> Workers]
    BY <1>2, <2>1, Zenon DEF TypeOK, handleRenew
  <2> QED
    BY <1>2, <2>2, Zenon DEF TypeOK, handleRenew, redisVars
<1>3. ASSUME NEW kind, Receive(p, kind)
      PROVE  events' \in [Procs -> Seq(Events)] /\ Ev(p) \in Events
  <2>1. events[p] # <<>> /\ events' = [events EXCEPT ![p] = Tail(@)]
    BY <1>3, Zenon DEF Receive
  <2>2. Tail(events[p]) \in Seq(Events)
    BY <2>1 DEF TypeOK
  <2> QED
    BY <2>1, <2>2, Taken, Zenon DEF TypeOK
<1>4. CASE handleAdd(p)
  <2>1. events' \in [Procs -> Seq(Events)] /\ Ev(p).lock \in Locks
    BY <1>3, <1>4, Zenon DEF handleAdd, Events
  <2> QED
    BY <1>4, <2>1, Zenon DEF TypeOK, handleAdd, redisVars
<1>5. CASE handleRenewResult(p)
  <2>1. events' \in [Procs -> Seq(Events)] /\ Ev(p).lock \in Locks
    BY <1>3, <1>5, Zenon DEF handleRenewResult, Events
  <2>2. /\ locks' \in [Procs -> SUBSET Locks] /\ due' \in [Procs -> SUBSET Locks]
        /\ cause' \in [Locks -> {"none", "released", "orphaned", "lost"}]
        /\ mgr' = mgr /\ pending' = pending
    <3>1. CASE UNCHANGED <<locks, due, cause, pending, mgr, running>>
      BY <3>1, Zenon DEF TypeOK
    <3>2. CASE /\ due' = [due EXCEPT ![p] = @ \cup {Ev(p).lock}]
               /\ UNCHANGED <<locks, cause, pending, mgr, running>>
      BY <2>1, <3>2, Zenon DEF TypeOK
    <3>3. CASE lose(p, Ev(p).lock) /\ UNCHANGED due
      BY <2>1, <3>3, Zenon DEF TypeOK, lose
    <3> QED
      BY <1>5, <3>1, <3>2, <3>3, Zenon DEF handleRenewResult
  <2> QED
    BY <1>5, <2>1, <2>2, Zenon DEF TypeOK, handleRenewResult, redisVars
<1>6. CASE handleRemove(p) \/ handleOrphan(p)
  <2>1. events' \in [Procs -> Seq(Events)] /\ Ev(p).lock \in Locks
    BY <1>3, <1>6, Zenon DEF handleRemove, handleOrphan, Events
  <2>2. PICK l \in Locks : l = Ev(p).lock
    BY <2>1, Zenon
  <2>3. PICK why \in {"released", "orphaned"} : detachLock(p, l, why)
    BY <1>6, <2>2, Zenon DEF handleRemove, handleOrphan
  <2>4. [worker[l] EXCEPT !.canceled = worker[l].at # "none"] \in Workers
    BY Zenon DEF TypeOK, Workers
  <2>5. /\ locks' \in [Procs -> SUBSET Locks] /\ due' \in [Procs -> SUBSET Locks]
        /\ cause' \in [Locks -> {"none", "released", "orphaned", "lost"}]
        /\ worker' \in [Locks -> Workers]
    <3>1. CASE l \in locks[p]
      <4>1. worker' = [worker EXCEPT ![l] = [@ EXCEPT !.canceled = worker[l].at # "none"]]
        BY <2>3, <3>1, Zenon DEF detachLock
      <4>2. worker' \in [Locks -> Workers]
        BY <2>4, <4>1, Zenon DEF TypeOK
      <4>3. /\ locks' = [locks EXCEPT ![p] = @ \ {l}]
            /\ due' = [due EXCEPT ![p] = @ \ {l}]
            /\ cause' = [cause EXCEPT ![l] = why]
        BY <2>3, <3>1, Zenon DEF detachLock
      <4> QED
        BY <4>2, <4>3, Zenon DEF TypeOK
    <3>2. CASE l \notin locks[p]
      BY <2>3, <3>2, Zenon DEF TypeOK, detachLock
    <3> QED
      BY <3>1, <3>2, Zenon
  <2>6. call' \in [Locks -> Calls]
    BY <1>6, <2>2, Zenon DEF TypeOK, Calls, handleRemove, handleOrphan, Goto
  <2>7. pending[p] > 0
    <3>1. 1 \in 1 .. Len(events[p]) /\ events[p][1] = Ev(p)
      BY <1>6, Taken DEF handleRemove, handleOrphan, Receive
    <3>2. EventOK(p, Ev(p)) /\ Ev(p).kind \in {"remove", "orphan"}
      BY <1>6, <3>1, Zenon DEF EventsOK, handleRemove, handleOrphan, Receive
    <3>3. l \in Owing(p)
      BY <2>2, <3>2, Zenon DEF EventOK, Owing
    <3>4. IsFiniteSet(Owing(p))
      BY DistLockAssumption, FS_Subset, Zenon DEF Owing
    <3>5. Cardinality(Owing(p)) # 0
      BY <3>3, <3>4, FS_EmptySet, Zenon
    <3> QED
      BY <3>5 DEF CountIsOwing, TypeOK
  <2>8. pending' \in [Procs -> Nat] /\ mgr' \in [Procs -> {"none", "loop", "drain"}]
    <3>1. decPending(p)
      BY <1>6, Zenon DEF handleRemove, handleOrphan
    <3> QED
      BY <2>7, <3>1 DEF TypeOK, decPending
  <2> QED
    BY <1>6, <2>1, <2>5, <2>6, <2>8, Zenon DEF TypeOK, handleRemove, handleOrphan, redisVars
<1> QED
  BY <1>1, <1>2, <1>4, <1>5, <1>6, Zenon DEF Handle

\* So do the calls to Redis and the expiry of a key.
LEMMA RedisTyped ==
    ASSUME TypeOK,
           \/ \E l \in Locks : Work(l) \/ RenewError(l) \/ ReleaseError(l)
           \/ \E k \in Keys : Expire(k)
    PROVE  TypeOK'
<1>1. ASSUME NEW k \in Keys, Expire(k) PROVE TypeOK'
  BY <1>1, Zenon DEF TypeOK, Expire, mgrVars
<1>2. ASSUME NEW l \in Locks, Release(l) \/ ReleaseError(l) PROVE TypeOK'
  <2>1. keyOf(l) \in Keys
    BY Zenon DEF TypeOK, keyOf
  <2>2. key' \in [Keys -> Locks \cup {Nobody}]
    BY <1>2, <2>1, Zenon DEF TypeOK, Release, ReleaseError, Delete
  <2>3. call' \in [Locks -> Calls]
    BY <1>2, Zenon DEF TypeOK, Calls, Release, ReleaseError, Goto
  <2> QED
    BY <1>2, <2>2, <2>3, Zenon DEF TypeOK, Release, ReleaseError, mgrVars
<1>3. ASSUME NEW l \in Locks, NEW a \in {"ready", "sent", "post"},
             NEW n \in Nat, NEW r \in Results
      PROVE  /\ [worker[l] EXCEPT !.at = a] \in Workers
             /\ [worker[l] EXCEPT !.at = a, !.res = r] \in Workers
             /\ [worker[l] EXCEPT !.at = a, !.tries = n] \in Workers
  BY ZenonT(60) DEF TypeOK, Workers
<1>4. ASSUME NEW l \in Locks PROVE worker[l].tries + 1 \in Nat
  BY DEF TypeOK, Workers
<1>5. ASSUME NEW l \in Locks, Landed(l) \/ UNCHANGED late PROVE late' \in [Locks -> Nat]
  BY <1>5 DEF TypeOK, Landed
<1>6. ASSUME NEW l \in Locks, Renew(l) PROVE TypeOK'
  <2>1. worker' \in [Locks -> Workers]
    BY <1>3, <1>6, Zenon DEF Renew, Working, TypeOK, Results
  <2> QED
    BY <1>6, <2>1, Zenon DEF TypeOK, Renew, redisVars, mgrVars
<1>7. ASSUME NEW l \in Locks, RenewAnswered(l) PROVE TypeOK'
  <2>1. worker' \in [Locks -> Workers]
    BY <1>3, <1>7, Zenon DEF RenewAnswered, Working, TypeOK, Results
  <2>2. late' \in [Locks -> Nat]
    BY <1>5, <1>7, Zenon DEF RenewAnswered
  <2> QED
    BY <1>7, <2>1, <2>2, Zenon DEF TypeOK, RenewAnswered, redisVars, mgrVars
<1>8. ASSUME NEW l \in Locks, RenewError(l) PROVE TypeOK'
  <2>1. worker' \in [Locks -> Workers]
    BY <1>3, <1>4, <1>8, Zenon DEF RenewError, Working, TypeOK, Results
  <2>2. late' \in [Locks -> Nat]
    BY <1>5, <1>8, Zenon DEF RenewError
  <2> QED
    BY <1>8, <2>1, <2>2, Zenon DEF TypeOK, RenewError, mgrVars
<1>9. ASSUME NEW l \in Locks, Post(l) PROVE TypeOK'
  <2>1. NoWorker \in Workers
    BY Zenon DEF NoWorker, Workers, Results
  <2>2. worker' \in [Locks -> Workers]
    BY <1>9, <2>1, Zenon DEF Post, Working, TypeOK
  <2>3. procOf(l) \in Procs /\ [kind |-> "renewResult", lock |-> l, res |-> worker[l].res] \in Events
    BY Zenon DEF TypeOK, procOf, Events, Workers
  <2>4. events' \in [Procs -> Seq(Events)]
    <3>1. CASE Send(l, "renewResult", worker[l].res)
      BY <2>3, <3>1 DEF Send, TypeOK
    <3>2. CASE UNCHANGED events
      BY <3>2, Zenon DEF TypeOK
    <3> QED
      BY <1>9, <3>1, <3>2, Zenon DEF Post
  <2> QED
    BY <1>9, <2>2, <2>4, Zenon DEF TypeOK, Post, redisVars, mgrVars
<1> QED
  BY <1>1, <1>2, <1>6, <1>7, <1>8, <1>9, Zenon DEF Work

\* Every step keeps the types.
LEMMA StepTyped == IInv /\ [Next]_vars => TypeOK'
<1> SUFFICES ASSUME IInv, [Next]_vars PROVE TypeOK'
  OBVIOUS
<1>1. CASE UNCHANGED vars
  BY <1>1, Zenon DEF IInv, TypeOK, vars, redisVars, mgrVars
<1> QED
  BY <1>1, CallerTyped, ManagerTyped, RedisTyped, Zenon DEF IInv, Next

----------------------------------------------------------------------------
(* The count.                                                              *)

Counted == {"added", "held", "releasing", "orphaning"}

\* The locks a manager owes a disposal are finitely many.
LEMMA OwingFinite == \A p \in Procs : IsFiniteSet(Owing(p))
BY DistLockAssumption, FS_Subset, Zenon DEF Owing

\* The count stands as long as no lock begins or ceases to be owed a disposal.
LEMMA CountStays ==
    ASSUME CountIsOwing, place' = place, pending' = pending,
           \A l \in Locks : call'[l] \in Counted <=> call[l] \in Counted
    PROVE  CountIsOwing'
<1>1. \A p \in Procs : Owing(p)' = Owing(p)
  BY Zenon DEF Owing, procOf, Counted
<1> QED
  BY <1>1, Zenon DEF CountIsOwing

\* add raises the count by the lock it adds.
LEMMA CountRises ==
    ASSUME IInv, NEW l \in Locks, call[l] = "won", call' = [call EXCEPT ![l] = "added"],
           place' = place, pending' = [pending EXCEPT ![procOf(l)] = @ + 1]
    PROVE  CountIsOwing'
<1> USE DEF IInv, TypeOK
<1>1. PICK p \in Procs : p = procOf(l)
  BY Zenon DEF procOf
<1>2. Owing(p)' = Owing(p) \cup {l} /\ l \notin Owing(p)
  BY <1>1, Zenon DEF Owing, procOf
<1>3. \A q \in Procs : q # p => Owing(q)' = Owing(q)
  BY <1>1, Zenon DEF Owing, procOf
<1>4. Cardinality(Owing(p) \cup {l}) = Cardinality(Owing(p)) + 1
  BY <1>2, OwingFinite, FS_AddElement, Zenon
<1>5. pending'[p] = Cardinality(Owing(p)')
  BY <1>1, <1>2, <1>4, Zenon DEF CountIsOwing
<1>6. \A q \in Procs : q # p => pending'[q] = Cardinality(Owing(q)')
  BY <1>1, <1>3, Zenon DEF CountIsOwing
<1> QED
  BY <1>5, <1>6, Zenon DEF CountIsOwing

\* A disposal lowers the count by its lock, and the last one leaves nothing to manage.
LEMMA CountFalls ==
    ASSUME IInv, NEW p \in Procs, NEW l \in Locks, procOf(l) = p, call[l] \in Counted,
           NEW c \in Calls \ Counted, call' = [call EXCEPT ![l] = c],
           place' = place, pending' = [pending EXCEPT ![p] = @ - 1]
    PROVE  CountIsOwing' /\ (pending[p] = 1 => locks[p] \subseteq {l})
<1> USE DEF IInv, TypeOK
<1>2. Owing(p)' = Owing(p) \ {l} /\ l \in Owing(p)
  BY Zenon DEF Owing, procOf, Counted
<1>3. \A q \in Procs : q # p => Owing(q)' = Owing(q)
  BY Zenon DEF Owing, procOf
<1>4. Cardinality(Owing(p) \ {l}) = Cardinality(Owing(p)) - 1
  BY <1>2, OwingFinite, FS_RemoveElement, Zenon
<1>5. pending'[p] = Cardinality(Owing(p)')
  BY <1>2, <1>4, Zenon DEF CountIsOwing
<1>6. \A q \in Procs : q # p => pending'[q] = Cardinality(Owing(q)')
  BY <1>3, Zenon DEF CountIsOwing
<1>7. ASSUME pending[p] = 1 PROVE locks[p] \subseteq {l}
  <2>1. Cardinality(Owing(p) \ {l}) = 0
    BY <1>4, <1>7 DEF CountIsOwing
  <2>2. Owing(p) \ {l} = {}
    BY <2>1, OwingFinite, FS_RemoveElement, FS_EmptySet, Zenon
  <2>3. locks[p] \subseteq Owing(p)
    BY Zenon DEF MapIsOwed, Owing, Sent
  <2> QED
    BY <2>2, <2>3, Zenon
<1> QED
  BY <1>5, <1>6, <1>7, Zenon DEF CountIsOwing

----------------------------------------------------------------------------
(* The steps.                                                              *)

\* A lock the manager does not know of, or is done with, moves on.
LEMMA UnmanagedMoves ==
    ASSUME IInv, NEW l \in Locks, NEW c, call' = [call EXCEPT ![l] = c],
           \/ call[l] \in {"new", "won"} /\ c \in {"won", "failed", "added"}
           \/ call[l] = "io" /\ c = "returned",
           UNCHANGED <<place, events, locks, due, cause, worker, late>>
    PROVE  MapIsOwed' /\ EventsOK' /\ InOrder' /\ WorkersOK'
<1> USE DEF IInv, TypeOK
<1>1. MapIsOwed'
  BY Zenon DEF MapIsOwed, Sent, procOf
<1>2. WorkersOK'
  <2> SUFFICES ASSUME NEW x \in Locks PROVE WorkerOK(x)'
    BY Zenon DEF WorkersOK
  <2>1. WorkerOK(x)
    BY Zenon DEF WorkersOK
  <2> QED
    BY <2>1, Zenon DEF WorkerOK, Sent, procOf
<1>3. ASSUME NEW q \in Procs, NEW e \in Events, EventOK(q, e) PROVE EventOK(q, e)'
  <2>1. e.lock \in Locks /\ e.kind \in {"add", "remove", "orphan", "renewResult"}
    BY Zenon DEF Events
  <2>2. CASE e.lock # l
    BY <1>3, <2>1, <2>2, Zenon DEF EventOK, Sent, procOf
  <2>3. CASE e.lock = l
    BY <1>3, <2>1, <2>3, Zenon DEF EventOK, Sent, procOf
  <2> QED
    BY <2>2, <2>3, Zenon
<1> QED
  BY <1>1, <1>2, <1>3, ChannelStays, Zenon

\* The caller's steps before its lock is sent to the manager, and the end of Release.
LEMMA CallerKeeps ==
    ASSUME IInv, TypeOK', NEW l \in Locks,
           Acquire(l) \/ AcquireError(l) \/ add(l) \/ Release(l) \/ ReleaseError(l)
    PROVE  IInv'
<1>1. CASE Acquire(l) \/ AcquireError(l) \/ Release(l) \/ ReleaseError(l)
  <2>1. PICK c \in {"won", "failed", "returned"} :
            /\ call' = [call EXCEPT ![l] = c]
            /\ \/ call[l] = "new" /\ c \in {"won", "failed"}
               \/ call[l] = "io" /\ c = "returned"
    BY <1>1, Zenon DEF Acquire, AcquireError, Release, ReleaseError, Goto
  <2>2. UNCHANGED <<place, mgrVars, events, cause, worker, late>>
    BY <1>1, Zenon DEF Acquire, AcquireError, Release, ReleaseError
  <2>3. MapIsOwed' /\ EventsOK' /\ InOrder' /\ WorkersOK'
    BY <2>1, <2>2, UnmanagedMoves, Zenon DEF mgrVars
  <2>4. CountIsOwing'
    <3>1. \A x \in Locks : call'[x] \in Counted <=> call[x] \in Counted
      BY <2>1, Zenon DEF IInv, TypeOK, Counted
    <3> QED
      BY <2>2, <3>1, CountStays, Zenon DEF IInv, mgrVars
  <2>5. ManagerLeavesNothing'
    BY <2>2, Zenon DEF IInv, ManagerLeavesNothing, mgrVars
  <2> QED
    BY <2>3, <2>4, <2>5, Zenon DEF IInv
<1>2. CASE add(l)
  <2>1. /\ call[l] = "won" /\ call' = [call EXCEPT ![l] = "added"]
        /\ UNCHANGED <<place, events, locks, due, cause, worker, late>>
        /\ pending' = [pending EXCEPT ![procOf(l)] = @ + 1]
    BY <1>2, Zenon DEF add, Goto
  <2>2. MapIsOwed' /\ EventsOK' /\ InOrder' /\ WorkersOK'
    BY <2>1, UnmanagedMoves, Zenon
  <2>3. CountIsOwing'
    BY <2>1, CountRises, Zenon
  <2>4. ManagerLeavesNothing'
    <3>1. \A q \in Procs : mgr'[q] # "loop" => mgr[q] # "loop"
      BY <1>2, Zenon DEF add, IInv, TypeOK
    <3> QED
      BY <2>1, <3>1, Zenon DEF IInv, ManagerLeavesNothing
  <2> QED
    BY <2>2, <2>3, <2>4, Zenon DEF IInv
<1> QED
  BY <1>1, <1>2, Zenon

\* The sends: of a lock that is added, and of its disposal.
LEMMA SenderKeeps ==
    ASSUME IInv, TypeOK', NEW l \in Locks, sendAdd(l) \/ remove(l) \/ orphan(l)
    PROVE  IInv'
<1>1. PICK kind \in {"add", "remove", "orphan"}, c \in {"held", "releasing", "orphaning"} :
          /\ Send(l, kind, "none")
          /\ call' = [call EXCEPT ![l] = c]
          /\ kind = "add" => call[l] = "added" /\ c = "held"
          /\ kind = "remove" => call[l] = "held" /\ c = "releasing"
          /\ kind = "orphan" => call[l] = "held" /\ c = "orphaning"
  BY Zenon DEF sendAdd, remove, orphan, Goto
<1>2. UNCHANGED <<place, mgrVars, cause, worker, late>>
  BY Zenon DEF sendAdd, remove, orphan
<1> USE DEF IInv, TypeOK
<1>3. MapIsOwed'
  BY <1>1, <1>2, Zenon DEF MapIsOwed, Sent, procOf, mgrVars
<1>4. WorkersOK'
  <2> SUFFICES ASSUME NEW x \in Locks PROVE WorkerOK(x)'
    BY Zenon DEF WorkersOK
  <2>1. WorkerOK(x)
    BY Zenon DEF WorkersOK
  <2> QED
    BY <1>1, <1>2, <2>1, Zenon DEF WorkerOK, Sent, procOf, mgrVars
<1>5. CountIsOwing'
  <2>1. \A x \in Locks : call'[x] \in Counted <=> call[x] \in Counted
    BY <1>1, Zenon DEF Counted
  <2> QED
    BY <1>2, <2>1, CountStays, Zenon DEF mgrVars
<1>6. ManagerLeavesNothing'
  BY <1>2, Zenon DEF ManagerLeavesNothing, mgrVars
<1>7. PICK f \in Events : f = [kind |-> kind, lock |-> l, res |-> "none"]
  BY <1>1, Zenon DEF Events, Results
<1>8. ASSUME NEW q \in Procs, NEW e \in Events, EventOK(q, e) PROVE EventOK(q, e)'
  <2>1. e.lock \in Locks /\ e.kind \in {"add", "remove", "orphan", "renewResult"}
    BY Zenon DEF Events
  <2>2. CASE e.lock # l
    BY <1>1, <1>2, <1>8, <2>1, <2>2, Zenon DEF EventOK, Sent, procOf, mgrVars
  <2>3. CASE e.lock = l
    BY <1>1, <1>2, <1>8, <2>1, <2>3, Zenon DEF EventOK, Sent, procOf, mgrVars
  <2> QED
    BY <2>2, <2>3, Zenon
<1>9. ASSUME NEW e \in Events, EventOK(procOf(l), e) PROVE Follows(e, f)
  <2>1. e.kind \in {"add", "remove", "orphan", "renewResult"}
    BY Zenon DEF Events
  <2> QED
    BY <1>1, <1>7, <1>9, <2>1, Zenon DEF EventOK, Follows, Sent
<1>10. EventOK(procOf(l), f)'
  <2>1. f.kind = kind /\ f.lock = l
    BY <1>7, Zenon
  <2>2. call'[l] = c /\ procOf(l)' = procOf(l)
    BY <1>1, <1>2, Zenon DEF procOf
  <2>3. kind = "add" => l \notin locks'[procOf(l)] /\ cause'[l] = "none" /\ worker'[l] = NoWorker
    <3>1. procOf(l) \in Procs
      BY Zenon DEF procOf
    <3>2. WorkerOK(l)
      BY Zenon DEF WorkersOK
    <3> QED
      BY <1>1, <1>2, <3>1, <3>2, Zenon DEF MapIsOwed, WorkerOK, Sent, mgrVars
  <2> QED
    BY <1>1, <2>1, <2>2, <2>3, Zenon DEF EventOK, Sent
<1>11. EventsOK' /\ InOrder'
  BY <1>1, <1>2, <1>7, <1>8, <1>9, <1>10, SendKeeps, Zenon
<1> QED
  BY <1>3, <1>4, <1>5, <1>6, <1>11, Zenon

\* The manager leaves.
LEMMA DrainKeeps ==
    ASSUME IInv, TypeOK', NEW p \in Procs, drain(p)
    PROVE  IInv'
<1> USE DEF IInv, TypeOK
<1>1. UNCHANGED <<place, pending, locks, due, events, call, cause, late>>
  BY Zenon DEF drain
<1>2. ASSUME NEW l \in Locks
      PROVE  /\ worker'[l].at = worker[l].at /\ worker'[l].canceled = worker[l].canceled
             /\ worker[l].at = "none" => worker'[l] = worker[l]
  BY DEF drain, Workers
<1>3. MapIsOwed' /\ CountIsOwing'
  <2>1. MapIsOwed'
    BY <1>1, Zenon DEF MapIsOwed, Sent, procOf
  <2>2. CountIsOwing'
    BY <1>1, CountStays, Zenon
  <2> QED
    BY <2>1, <2>2, Zenon
<1>4. ManagerLeavesNothing'
  BY <1>1, Zenon DEF ManagerLeavesNothing, drain
<1>5. WorkersOK'
  <2> SUFFICES ASSUME NEW x \in Locks PROVE WorkerOK(x)'
    BY Zenon DEF WorkersOK
  <2>1. WorkerOK(x)
    BY Zenon DEF WorkersOK
  <2> QED
    BY <1>1, <1>2, <2>1 DEF WorkerOK, Sent, procOf, NoWorker
<1>6. ASSUME NEW q \in Procs, NEW e \in Events, EventOK(q, e) PROVE EventOK(q, e)'
  <2>1. e.lock \in Locks
    BY Zenon DEF Events
  <2>2. worker[e.lock] = NoWorker => worker'[e.lock] = NoWorker
    BY <1>2, <2>1 DEF NoWorker
  <2> QED
    BY <1>1, <1>6, <2>1, <2>2, Zenon DEF EventOK, Sent, procOf
<1> QED
  BY <1>1, <1>3, <1>4, <1>5, <1>6, ChannelStays, Zenon

\* What is known of the event the manager takes.
LEMMA FirstEvent ==
    ASSUME IInv, NEW p \in Procs, NEW kind, Receive(p, kind)
    PROVE  /\ Ev(p) \in Events /\ Ev(p).lock \in Locks /\ Ev(p).kind = kind
           /\ procOf(Ev(p).lock) = p
           /\ EventOK(p, Ev(p))
           /\ mgr[p] = "loop"
<1>1. 1 \in 1 .. Len(events[p]) /\ events[p][1] = Ev(p) /\ Ev(p) \in Events
  <2>1. TypeOK /\ events[p] # <<>> /\ events' = [events EXCEPT ![p] = Tail(@)]
    BY Zenon DEF IInv, Receive
  <2>2. Len(events[p]) \in Nat \ {0} /\ events[p][1] = Ev(p) /\ Ev(p) \in Events
    BY <2>1, Taken, Zenon
  <2> QED
    BY <2>2
<1>2. EventOK(p, Ev(p))
  BY <1>1, Zenon DEF IInv, EventsOK
<1> QED
  BY <1>1, <1>2, Zenon DEF EventOK, Events, Receive

\* A lock enters the map and the heap.
LEMMA AddKeeps ==
    ASSUME IInv, TypeOK', NEW p \in Procs, handleAdd(p)
    PROVE  IInv'
<1> USE DEF IInv, TypeOK
<1>1. PICK l \in Locks : l = Ev(p).lock
  BY FirstEvent, Zenon DEF handleAdd
<1>2. /\ Ev(p).kind = "add" /\ procOf(l) = p /\ mgr[p] = "loop"
      /\ Sent(l) /\ cause[l] = "none" /\ worker[l] = NoWorker
  BY <1>1, FirstEvent, Zenon DEF handleAdd, EventOK
<1>3. /\ UNCHANGED <<place, mgr, pending, call, cause, worker, late>>
      /\ locks' = [locks EXCEPT ![p] = @ \cup {l}] /\ due' = [due EXCEPT ![p] = @ \cup {l}]
      /\ events[p] # <<>> /\ events' = [events EXCEPT ![p] = Tail(@)]
  BY <1>1, Zenon DEF handleAdd, Receive
<1>4. MapIsOwed'
  BY <1>2, <1>3, SMTT(30) DEF MapIsOwed, Sent, procOf
<1>5. CountIsOwing'
  BY <1>3 DEF CountIsOwing, Owing, procOf
<1>6. ManagerLeavesNothing'
  BY <1>2, <1>3 DEF ManagerLeavesNothing
<1>7. WorkersOK'
  <2> SUFFICES ASSUME NEW x \in Locks PROVE WorkerOK(x)'
    BY Zenon DEF WorkersOK
  <2>1. WorkerOK(x)
    BY Zenon DEF WorkersOK
  <2>2. CASE x = l
    BY <1>2, <1>3, <2>1, <2>2 DEF WorkerOK, Sent, procOf, NoWorker
  <2>3. CASE x # l
    BY <1>3, <2>1, <2>3, Zenon DEF WorkerOK, Sent, procOf
  <2> QED
    BY <2>2, <2>3, Zenon
<1>8. ASSUME NEW q \in Procs, NEW e \in Events, EventOK(q, e), q = p => Follows(Ev(p), e)
      PROVE  EventOK(q, e)'
  <2>1. CASE e.lock # l
    BY <1>3, <1>8, <2>1, Zenon DEF EventOK, Sent, procOf
  <2>2. CASE e.lock = l
    <3>1. q = p
      BY <1>2, <1>8, <2>2, Zenon DEF EventOK
    <3>2. e.kind \notin {"add", "renewResult"}
      BY <1>1, <1>2, <1>8, <2>2, <3>1, Zenon DEF Follows
    <3> QED
      BY <1>3, <1>8, <3>2, Zenon DEF EventOK, Sent, procOf
  <2> QED
    BY <2>1, <2>2, Zenon
<1>9. EventsOK' /\ InOrder'
  BY <1>3, <1>8, TakeKeeps, Zenon
<1> QED
  BY <1>4, <1>5, <1>6, <1>7, <1>9, Zenon

\* A lock is disposed of: detached if it is still in the map, and no longer counted.
LEMMA DisposalKeeps ==
    ASSUME IInv, TypeOK', NEW p \in Procs, NEW kind \in {"remove", "orphan"}, Receive(p, kind),
           NEW l \in Locks, l = Ev(p).lock,
           NEW why \in {"released", "orphaned"}, detachLock(p, l, why),
           NEW c \in {"io", "returned"}, Goto(l, c),
           decPending(p), UNCHANGED <<place, late>>
    PROVE  IInv'
<1> USE DEF IInv, TypeOK
<1>1. /\ Ev(p).kind = kind /\ procOf(l) = p /\ mgr[p] = "loop"
      /\ call[l] \in {"releasing", "orphaning"}
  <2>1. /\ Ev(p).kind = kind /\ procOf(Ev(p).lock) = p /\ EventOK(p, Ev(p)) /\ mgr[p] = "loop"
    BY FirstEvent, Zenon
  <2>2. kind = "remove" => call[l] = "releasing"
    BY <2>1, Zenon DEF EventOK
  <2>3. kind = "orphan" => call[l] = "orphaning"
    BY <2>1, Zenon DEF EventOK
  <2> QED
    BY <2>1, <2>2, <2>3, Zenon
<1>2. /\ call' = [call EXCEPT ![l] = c]
      /\ pending' = [pending EXCEPT ![p] = @ - 1]
      /\ events[p] # <<>> /\ events' = [events EXCEPT ![p] = Tail(@)]
  BY Zenon DEF Goto, decPending, Receive
<1>3. /\ l \notin locks'[p] /\ l \notin due'[p]
      /\ locks'[p] \subseteq locks[p] /\ due'[p] \subseteq due[p]
      /\ \A x \in Locks : x # l => /\ x \in locks[p] => x \in locks'[p]
                                 /\ worker'[x] = worker[x] /\ cause'[x] = cause[x]
      /\ \A q \in Procs : q # p => locks'[q] = locks[q] /\ due'[q] = due[q]
  BY DEF detachLock, MapIsOwed
<1>4. WorkerOK(l)
  BY Zenon DEF WorkersOK
<1>5. /\ worker'[l].at = worker[l].at
      /\ worker[l].at = "none" => worker'[l] = NoWorker
      /\ cause'[l] # "none" => worker[l].at = "none" \/ worker'[l].canceled
      /\ cause[l] # "none" => cause'[l] # "none"
  <2>1. CASE l \in locks[p]
    <3>1. /\ worker'[l] = [worker[l] EXCEPT !.canceled = (worker[l].at # "none")]
          /\ cause'[l] = why
      BY <2>1, Zenon DEF detachLock
    <3>2. worker[l].at = "none" => worker[l] = NoWorker
      BY <1>4, Zenon DEF WorkerOK
    <3>3. worker'[l].at = worker[l].at /\ worker'[l].canceled = (worker[l].at # "none")
      BY <3>1 DEF Workers
    <3>4. ASSUME worker[l].at = "none" PROVE worker'[l] = NoWorker
      <4>1. worker[l] = NoWorker /\ (worker[l].at # "none") = FALSE
        BY <3>2, <3>4, Zenon
      <4>2. worker'[l] = [NoWorker EXCEPT !.canceled = FALSE]
        BY <3>1, <4>1, Zenon
      <4> QED
        BY <4>2, Zenon DEF NoWorker
    <3> QED
      BY <3>1, <3>3, <3>4, Zenon
  <2>2. CASE l \notin locks[p]
    BY <1>4, <2>2, Zenon DEF detachLock, WorkerOK
  <2> QED
    BY <2>1, <2>2, Zenon
<1>6. MapIsOwed'
  <2>0. \A q \in Procs : locks[q] \subseteq Locks /\ locks'[q] \subseteq locks[q] /\ due'[q] \subseteq due[q]
    BY <1>3, Zenon
  <2>1. ASSUME NEW q \in Procs, NEW x \in locks'[q]
        PROVE  procOf(x)' = q /\ Sent(x)' /\ cause'[x] = "none"
    <3>1. x \in locks[q] /\ x \in Locks
      BY <2>0, Zenon
    <3>2. procOf(x) = q /\ Sent(x) /\ cause[x] = "none"
      BY <3>1, Zenon DEF MapIsOwed
    <3>3. x # l
      BY <1>1, <1>3, <2>1, <3>2, SMTT(30)
    <3> QED
      BY <1>2, <1>3, <3>1, <3>2, <3>3 DEF Sent, procOf
  <2>2. ASSUME NEW q \in Procs, NEW x \in due'[q] PROVE x \in locks'[q]
    <3>1. x \in due[q] /\ x \in locks[q] /\ x \in Locks
      BY <2>0, <2>2, Zenon DEF MapIsOwed
    <3>2. q = p => x # l
      BY <1>3, <2>2, Zenon
    <3> QED
      BY <1>3, <3>1, <3>2, Zenon
  <2> QED
    BY <2>1, <2>2, Zenon DEF MapIsOwed
<1>7. CountIsOwing' /\ (pending[p] = 1 => locks[p] \subseteq {l})
  <2>1. call[l] \in Counted /\ c \in Calls \ Counted
    BY <1>1, Zenon DEF Counted, Calls
  <2> QED
    BY <1>1, <1>2, <2>1, CountFalls, Zenon
<1>8. ManagerLeavesNothing'
  <2>1. ASSUME mgr'[p] # "loop" PROVE locks'[p] = {}
    BY <1>1, <1>3, <1>7, <2>1 DEF decPending
  <2>2. \A q \in Procs : q # p => mgr'[q] = mgr[q]
    BY Zenon DEF decPending
  <2>3. ASSUME NEW q \in Procs, mgr'[q] # "loop" PROVE locks'[q] = {} /\ due'[q] = {}
    <3>1. CASE q = p
      BY <1>6, <2>1, <2>3, <3>1, SMTT(30) DEF MapIsOwed
    <3>2. CASE q # p
      BY <1>3, <2>2, <2>3, <3>2, SMTT(30) DEF ManagerLeavesNothing
    <3> QED
      BY <3>1, <3>2, Zenon
  <2> QED
    BY <2>3, Zenon DEF ManagerLeavesNothing
<1>9. WorkersOK'
  <2> SUFFICES ASSUME NEW x \in Locks PROVE WorkerOK(x)'
    BY Zenon DEF WorkersOK
  <2>1. WorkerOK(x)
    BY Zenon DEF WorkersOK
  <2>2. CASE x = l
    BY <1>1, <1>2, <1>3, <1>4, <1>5, <2>2, Zenon DEF WorkerOK, Sent, procOf, NoWorker
  <2>3. CASE x # l
    <3>1. /\ worker'[x] = worker[x] /\ cause'[x] = cause[x] /\ call'[x] = call[x]
          /\ late'[x] = late[x] /\ procOf(x)' = procOf(x)
      BY <1>2, <1>3, <2>3 DEF procOf
    <3>2. due'[procOf(x)] \subseteq due[procOf(x)]
      BY <1>3, Zenon DEF procOf
    <3> QED
      BY <2>1, <3>1, <3>2, Zenon DEF WorkerOK, Sent
  <2> QED
    BY <2>2, <2>3, Zenon
<1>10. ASSUME NEW q \in Procs, NEW e \in Events, EventOK(q, e), q = p => Follows(Ev(p), e)
       PROVE  EventOK(q, e)'
  <2>0. e.lock \in Locks /\ e.kind \in {"add", "remove", "orphan", "renewResult"}
    BY Zenon DEF Events
  <2>1. CASE e.lock # l
    BY <1>2, <1>3, <1>10, <2>0, <2>1, SMTT(30) DEF EventOK, Sent, procOf
  <2>2. CASE e.lock = l
    <3>1. q = p
      BY <1>1, <1>10, <2>2, Zenon DEF EventOK
    <3>2. e.kind = "renewResult"
      BY <1>1, <1>10, <2>0, <2>2, <3>1, Zenon DEF Follows
    <3>3. worker'[l] = NoWorker
      BY <1>5, <1>10, <2>2, <3>2 DEF EventOK, NoWorker
    <3> QED
      BY <1>1, <1>2, <1>3, <2>2, <3>1, <3>2, <3>3, SMTT(30) DEF EventOK, Sent, procOf
  <2> QED
    BY <2>1, <2>2, Zenon
<1>11. EventsOK' /\ InOrder'
  BY <1>2, <1>10, TakeKeeps, Zenon
<1> QED
  BY <1>6, <1>7, <1>8, <1>9, <1>11, Zenon

\* A lock is disposed of: it leaves the map and the heap, and its renewal is canceled.
LEMMA RemovalKeeps ==
    ASSUME IInv, TypeOK', NEW p \in Procs, handleRemove(p) \/ handleOrphan(p)
    PROVE  IInv'
<1>1. PICK kind \in {"remove", "orphan"}, why \in {"released", "orphaned"}, c \in {"io", "returned"} :
          /\ Receive(p, kind)
          /\ detachLock(p, Ev(p).lock, why)
          /\ Goto(Ev(p).lock, c)
          /\ decPending(p)
          /\ UNCHANGED <<place, late>>
  BY Zenon DEF handleRemove, handleOrphan
<1>2. Ev(p).lock \in Locks
  BY <1>1, FirstEvent, Zenon
<1> QED
  BY <1>1, <1>2, DisposalKeeps, Zenon

\* A renewal begins: its lock leaves the heap, and is in the map.
LEMMA RenewKeeps ==
    ASSUME IInv, TypeOK', NEW p \in Procs, NEW l \in Locks, handleRenew(p, l)
    PROVE  IInv'
<1> USE DEF IInv, TypeOK
<1>1. l \in locks[p] /\ procOf(l) = p /\ Sent(l) /\ cause[l] = "none" /\ mgr[p] = "loop"
  BY Zenon DEF MapIsOwed, handleRenew
<1>2. /\ UNCHANGED <<place, mgr, pending, locks, events, call, cause, late>>
      /\ due' = [due EXCEPT ![p] = @ \ {l}]
      /\ worker' = [worker EXCEPT ![l].at = "ready"]
  BY <1>1, Zenon DEF handleRenew
<1>3. MapIsOwed'
  BY <1>2 DEF MapIsOwed, Sent, procOf
<1>4. CountIsOwing'
  BY <1>2, CountStays, Zenon
<1>5. ManagerLeavesNothing'
  BY <1>2, Zenon DEF ManagerLeavesNothing
<1>6. worker'[l].at = "ready" /\ \A x \in Locks : x # l => worker'[x] = worker[x]
  BY <1>2 DEF Workers
<1>7. WorkersOK'
  <2> SUFFICES ASSUME NEW x \in Locks PROVE WorkerOK(x)'
    BY Zenon DEF WorkersOK
  <2>1. WorkerOK(x)
    BY Zenon DEF WorkersOK
  <2>2. CASE x = l
    <3>1. l \notin due'[procOf(l)'] /\ Sent(l)' /\ cause'[l] = "none" /\ late'[l] = late[l]
      BY <1>1, <1>2, Zenon DEF procOf, Sent
    <3>2. late[l] = 0
      BY <1>1, <2>1, <2>2, Zenon DEF WorkerOK
    <3> QED
      BY <1>6, <2>2, <3>1, <3>2, Zenon DEF WorkerOK
  <2>3. CASE x # l
    BY <1>2, <1>6, <2>1, <2>3, Zenon DEF WorkerOK, Sent, procOf
  <2> QED
    BY <2>2, <2>3, Zenon
<1>8. ASSUME NEW q \in Procs, NEW e \in Events, EventOK(q, e) PROVE EventOK(q, e)'
  <2>0. e.lock \in Locks
    BY Zenon DEF Events
  <2>1. CASE e.lock # l
    BY <1>2, <1>6, <1>8, <2>0, <2>1, Zenon DEF EventOK, Sent, procOf
  <2>2. CASE e.lock = l
    <3>1. q = p /\ e.kind \notin {"add", "renewResult"}
      BY <1>1, <1>8, <2>2, Zenon DEF EventOK, handleRenew
    <3> QED
      BY <1>2, <1>8, <3>1, Zenon DEF EventOK, Sent, procOf
  <2> QED
    BY <2>1, <2>2, Zenon
<1> QED
  BY <1>2, <1>3, <1>4, <1>5, <1>7, <1>8, ChannelStays, Zenon

\* The result of a renewal: ignored, queued again, or the end of the lock.
LEMMA ResultKeeps ==
    ASSUME IInv, TypeOK', NEW p \in Procs, handleRenewResult(p)
    PROVE  IInv'
<1> USE DEF IInv, TypeOK
<1>1. PICK l \in Locks : l = Ev(p).lock
  BY FirstEvent, Zenon DEF handleRenewResult
<1>2. /\ Ev(p).kind = "renewResult" /\ procOf(l) = p /\ mgr[p] = "loop"
      /\ worker[l] = NoWorker /\ l \notin due[p]
      /\ Sent(l) \/ call[l] \in {"io", "returned"}
  BY <1>1, FirstEvent, Zenon DEF handleRenewResult, EventOK
<1>3. /\ UNCHANGED <<place, mgr, pending, call, worker, late>>
      /\ events[p] # <<>> /\ events' = [events EXCEPT ![p] = Tail(@)]
  BY Zenon DEF handleRenewResult, Receive, lose
<1>4. \/ UNCHANGED <<locks, due, cause>>
      \/ /\ l \in locks[p]
         /\ due' = [due EXCEPT ![p] = @ \cup {l}]
         /\ UNCHANGED <<locks, cause>>
      \/ /\ l \in locks[p]
         /\ locks' = [locks EXCEPT ![p] = @ \ {l}]
         /\ cause' = [cause EXCEPT ![l] = "lost"]
         /\ UNCHANGED due
  BY <1>1, Zenon DEF handleRenewResult, lose
<1>5. MapIsOwed'
  <2>1. CASE UNCHANGED <<locks, due, cause>>
    BY <1>3, <2>1, Zenon DEF MapIsOwed, Sent, procOf
  <2>2. CASE l \in locks[p] /\ due' = [due EXCEPT ![p] = @ \cup {l}] /\ UNCHANGED <<locks, cause>>
    BY <1>3, <2>2, SMTT(30) DEF MapIsOwed, Sent, procOf
  <2>3. CASE /\ l \in locks[p] /\ locks' = [locks EXCEPT ![p] = @ \ {l}]
             /\ cause' = [cause EXCEPT ![l] = "lost"] /\ UNCHANGED due
    <3>1. ASSUME NEW q \in Procs, NEW x \in locks'[q]
          PROVE  x \in locks[q] /\ x # l
      <4>1. x \in locks[q] /\ (q = p => x # l)
        BY <2>3, <3>1, Zenon
      <4>2. procOf(x) = q
        BY <4>1, Zenon DEF MapIsOwed
      <4> QED
        BY <1>2, <4>1, <4>2, Zenon
    <3>2. ASSUME NEW q \in Procs PROVE due'[q] \subseteq locks'[q]
      BY <1>2, <2>3 DEF MapIsOwed
    <3> QED
      BY <1>3, <2>3, <3>1, <3>2 DEF MapIsOwed, Sent, procOf
  <2> QED
    BY <1>4, <2>1, <2>2, <2>3, Zenon
<1>6. CountIsOwing'
  BY <1>3, CountStays, Zenon
<1>7. ManagerLeavesNothing'
  BY <1>2, <1>3, <1>4, SMTT(30) DEF ManagerLeavesNothing
<1>8. /\ \A x \in Locks : x # l => cause'[x] = cause[x]
      /\ \A q \in Procs, x \in Locks :
             x # l => (x \in due'[q] <=> x \in due[q]) /\ (x \in locks'[q] <=> x \in locks[q])
  <2> SUFFICES ASSUME NEW q \in Procs, NEW x \in Locks, x # l
               PROVE  /\ cause'[x] = cause[x] /\ (x \in due'[q] <=> x \in due[q])
                      /\ (x \in locks'[q] <=> x \in locks[q])
    BY <1>2, Zenon
  <2>1. CASE UNCHANGED <<locks, due, cause>>
    BY <2>1, Zenon
  <2>2. CASE due' = [due EXCEPT ![p] = @ \cup {l}] /\ UNCHANGED <<locks, cause>>
    BY <2>2, Zenon
  <2>3. CASE /\ locks' = [locks EXCEPT ![p] = @ \ {l}] /\ cause' = [cause EXCEPT ![l] = "lost"]
             /\ UNCHANGED due
    BY <2>3, ZenonT(60)
  <2> QED
    BY <1>4, <2>1, <2>2, <2>3, Zenon
<1>9. WorkersOK'
  <2> SUFFICES ASSUME NEW x \in Locks PROVE WorkerOK(x)'
    BY Zenon DEF WorkersOK
  <2>1. WorkerOK(x)
    BY Zenon DEF WorkersOK
  <2>2. CASE x = l
    <3>1. worker'[l].at = "none" /\ worker'[l] = NoWorker
      BY <1>2, <1>3 DEF NoWorker
    <3>2. Sent(l)' \/ call'[l] \in {"io", "returned"}
      BY <1>2, <1>3, Zenon DEF Sent
    <3>3. late'[l] = 0 \/ (late'[l] = 1 /\ cause'[l] # "none")
      BY <1>3, <1>4, <2>1, <2>2 DEF WorkerOK
    <3> QED
      BY <2>2, <3>1, <3>2, <3>3, Zenon DEF WorkerOK
  <2>3. CASE x # l
    <3>1. procOf(x) \in Procs
      BY Zenon DEF procOf
    <3> QED
      BY <1>3, <1>8, <2>1, <2>3, <3>1, Zenon DEF WorkerOK, Sent, procOf
  <2> QED
    BY <2>2, <2>3, Zenon
<1>10. ASSUME NEW q \in Procs, NEW e \in Events, EventOK(q, e), q = p => Follows(Ev(p), e)
       PROVE  EventOK(q, e)'
  <2>0. e.lock \in Locks
    BY Zenon DEF Events
  <2>1. CASE e.lock # l
    BY <1>3, <1>8, <1>10, <2>0, <2>1, Zenon DEF EventOK, Sent, procOf
  <2>2. CASE e.lock = l
    <3>1. q = p
      BY <1>2, <1>10, <2>2, Zenon DEF EventOK
    <3>2. e.kind \notin {"add", "renewResult"}
      BY <1>1, <1>2, <1>10, <2>2, <3>1, Zenon DEF Follows
    <3> QED
      BY <1>3, <1>10, <3>2, Zenon DEF EventOK, Sent, procOf
  <2> QED
    BY <2>1, <2>2, Zenon
<1>11. EventsOK' /\ InOrder'
  BY <1>3, <1>10, TakeKeeps, Zenon
<1> QED
  BY <1>5, <1>6, <1>7, <1>9, <1>11, Zenon

\* An attempt of a renewal: once it has taken effect on a detached lock, its context
\* is canceled and no other is sent.
LEMMA AttemptKeeps ==
    ASSUME IInv, TypeOK', NEW l \in Locks, Renew(l) \/ RenewAnswered(l) \/ RenewError(l)
    PROVE  IInv'
<1> USE DEF IInv, TypeOK
<1>1. UNCHANGED <<place, mgr, pending, locks, due, events, call, cause>>
  BY Zenon DEF Renew, RenewAnswered, RenewError, mgrVars
<1>2. /\ worker[l].at \in {"ready", "sent"} /\ worker'[l].at \in {"ready", "sent", "post"}
      /\ worker'[l].canceled = worker[l].canceled
      /\ worker'[l].at = "sent" => worker[l].at = "ready" /\ ~worker[l].canceled
      /\ \A x \in Locks : x # l => worker'[x] = worker[x]
  <2>1. CASE Renew(l)
    BY <2>1 DEF Renew, Working, Workers
  <2>2. CASE RenewAnswered(l)
    BY <2>2 DEF RenewAnswered, Working, Workers
  <2>3. CASE RenewError(l)
    BY <2>3 DEF RenewError, Working, Workers
  <2> QED
    BY <2>1, <2>2, <2>3, Zenon
<1>3. /\ late'[l] = late[l] \/ (worker[l].at = "sent" /\ late'[l] = late[l] + 1 /\ cause[l] # "none")
      /\ \A x \in Locks : x # l => late'[x] = late[x]
  <2>1. CASE Landed(l) /\ worker[l].at = "sent"
    BY <2>1 DEF Landed
  <2>2. CASE UNCHANGED late
    BY <2>2, Zenon
  <2> QED
    BY <2>1, <2>2, Zenon DEF Renew, RenewAnswered, RenewError
<1>4. MapIsOwed'
  BY <1>1, Zenon DEF MapIsOwed, Sent, procOf
<1>5. CountIsOwing'
  BY <1>1, CountStays, Zenon
<1>6. ManagerLeavesNothing'
  BY <1>1, Zenon DEF ManagerLeavesNothing
<1>7. WorkersOK'
  <2> SUFFICES ASSUME NEW x \in Locks PROVE WorkerOK(x)'
    BY Zenon DEF WorkersOK
  <2>1. WorkerOK(x)
    BY Zenon DEF WorkersOK
  <2>2. CASE x = l
    <3>1. /\ worker'[l].at # "none" /\ l \notin due'[procOf(l)']
          /\ Sent(l)' \/ call'[l] \in {"io", "returned"}
          /\ cause'[l] # "none" => worker'[l].canceled
      BY <1>1, <1>2, <2>1, <2>2, SMTT(30) DEF WorkerOK, Sent, procOf, NoWorker
    <3>2. late'[l] = 0 \/ (late'[l] = 1 /\ cause'[l] # "none" /\ worker'[l].at # "sent")
      BY <1>1, <1>2, <1>3, <2>1, <2>2 DEF WorkerOK
    <3> QED
      BY <2>2, <3>1, <3>2, Zenon DEF WorkerOK
  <2>3. CASE x # l
    BY <1>1, <1>2, <1>3, <2>1, <2>3, Zenon DEF WorkerOK, Sent, procOf
  <2> QED
    BY <2>2, <2>3, Zenon
<1>8. ASSUME NEW q \in Procs, NEW e \in Events, EventOK(q, e) PROVE EventOK(q, e)'
  <2>0. e.lock \in Locks /\ (worker[e.lock] = NoWorker => worker'[e.lock] = NoWorker)
    <3>1. e.lock \in Locks
      BY Zenon DEF Events
    <3>2. worker[l] # NoWorker
      BY <1>2, SMTT(30) DEF NoWorker
    <3> QED
      BY <1>2, <3>1, <3>2, Zenon
  <2> QED
    BY <1>1, <1>8, <2>0, Zenon DEF EventOK, Sent, procOf
<1> QED
  BY <1>1, <1>4, <1>5, <1>6, <1>7, <1>8, ChannelStays, Zenon

\* The worker ends, and posts its result unless its manager has left.
LEMMA PostKeeps ==
    ASSUME IInv, TypeOK', NEW l \in Locks, Post(l)
    PROVE  IInv'
<1> USE DEF IInv, TypeOK
<1>1. /\ UNCHANGED <<place, mgr, pending, locks, due, call, cause, late>>
      /\ worker[l].at = "post" /\ worker' = [worker EXCEPT ![l] = NoWorker]
      /\ Send(l, "renewResult", worker[l].res) \/ UNCHANGED events
  BY Zenon DEF Post, Working, mgrVars
<1>2. worker'[l] = NoWorker /\ \A x \in Locks : x # l => worker'[x] = worker[x]
  BY <1>1, Zenon
<1>3. MapIsOwed'
  BY <1>1, Zenon DEF MapIsOwed, Sent, procOf
<1>4. CountIsOwing'
  BY <1>1, CountStays, Zenon
<1>5. ManagerLeavesNothing'
  BY <1>1, Zenon DEF ManagerLeavesNothing
<1>6. WorkerOK(l)
  BY Zenon DEF WorkersOK
<1>7. WorkersOK'
  <2> SUFFICES ASSUME NEW x \in Locks PROVE WorkerOK(x)'
    BY Zenon DEF WorkersOK
  <2>1. WorkerOK(x)
    BY Zenon DEF WorkersOK
  <2>2. CASE x = l
    BY <1>1, <1>2, <2>1, <2>2 DEF WorkerOK, Sent, procOf, NoWorker
  <2>3. CASE x # l
    BY <1>1, <1>2, <2>1, <2>3, Zenon DEF WorkerOK, Sent, procOf
  <2> QED
    BY <2>2, <2>3, Zenon
<1>8. ASSUME NEW q \in Procs, NEW e \in Events, EventOK(q, e) PROVE EventOK(q, e)'
  <2>0. e.lock \in Locks /\ (worker[e.lock] = NoWorker => worker'[e.lock] = NoWorker)
    BY <1>2, Zenon DEF Events
  <2> QED
    BY <1>1, <1>8, <2>0, Zenon DEF EventOK, Sent, procOf
<1>9. CASE UNCHANGED events
  BY <1>3, <1>4, <1>5, <1>7, <1>8, <1>9, ChannelStays, Zenon
<1>10. CASE Send(l, "renewResult", worker[l].res)
  <2>1. worker[l].res \in Results
    BY Zenon DEF Workers
  <2>2. PICK f \in Events : f = [kind |-> "renewResult", lock |-> l, res |-> worker[l].res]
    BY <2>1, Zenon DEF Events
  <2>3. /\ Sent(l) \/ call[l] \in {"io", "returned"}
        /\ l \notin due[procOf(l)] /\ worker[l] # NoWorker
    BY <1>1, <1>6 DEF WorkerOK, NoWorker
  <2>4. EventOK(procOf(l), f)'
    <3>1. f.kind = "renewResult" /\ f.lock = l /\ procOf(l)' = procOf(l)
      BY <1>1, <2>2, Zenon DEF procOf
    <3>2. /\ Sent(l)' \/ call'[l] \in {"io", "returned"}
          /\ l \notin due'[procOf(l)] /\ worker'[l] = NoWorker
      BY <1>1, <1>2, <2>3, Zenon DEF Sent
    <3> QED
      BY <3>1, <3>2, Zenon DEF EventOK, Sent
  <2>5. ASSUME NEW e \in Events, EventOK(procOf(l), e) PROVE Follows(e, f)
    <3>1. e.kind \in {"add", "remove", "orphan", "renewResult"}
      BY Zenon DEF Events
    <3> QED
      BY <2>2, <2>3, <2>5, <3>1, Zenon DEF EventOK, Follows
  <2>6. EventsOK' /\ InOrder'
    BY <1>1, <1>8, <1>10, <2>2, <2>4, <2>5, SendKeeps, Zenon
  <2> QED
    BY <1>3, <1>4, <1>5, <1>7, <2>6, Zenon
<1> QED
  BY <1>1, <1>9, <1>10, Zenon

\* Redis, and steps that change nothing.
LEMMA OtherKeeps ==
    ASSUME IInv, TypeOK',
           UNCHANGED <<place, mgr, pending, locks, due, events, call, cause, worker, late>>
    PROVE  IInv'
<1>1. CountIsOwing'
  BY CountStays, Zenon DEF IInv, TypeOK
<1>2. MapIsOwed' /\ ManagerLeavesNothing' /\ WorkersOK'
  BY DEF IInv, MapIsOwed, ManagerLeavesNothing, WorkersOK, WorkerOK, Sent, procOf
<1>3. ASSUME NEW q \in Procs, NEW e \in Events, EventOK(q, e) PROVE EventOK(q, e)'
  BY <1>3, Zenon DEF EventOK, Sent, procOf
<1> QED
  BY <1>1, <1>2, <1>3, ChannelStays, Zenon DEF IInv

\* IInv is inductive.
LEMMA NextIInv == IInv /\ [Next]_vars => IInv'
<1> SUFFICES ASSUME IInv, [Next]_vars PROVE IInv'
  OBVIOUS
<1>0. TypeOK'
  BY StepTyped, Zenon
<1>1. CASE \E k \in Keys : Expire(k)
  BY <1>0, <1>1, OtherKeeps, Zenon DEF Expire, mgrVars
<1>2. CASE \E l \in Locks : \/ Acquire(l) \/ AcquireError(l) \/ add(l)
                           \/ Release(l) \/ ReleaseError(l)
  BY <1>0, <1>2, CallerKeeps, Zenon
<1>3. CASE \E l \in Locks : sendAdd(l) \/ remove(l) \/ orphan(l)
  BY <1>0, <1>3, SenderKeeps, Zenon
<1>4. CASE \E l \in Locks : Renew(l) \/ RenewAnswered(l) \/ RenewError(l)
  BY <1>0, <1>4, AttemptKeeps, Zenon
<1>5. CASE \E l \in Locks : Post(l)
  BY <1>0, <1>5, PostKeeps, Zenon
<1>6. CASE \E p \in Procs : Handle(p)
  BY <1>0, <1>6, AddKeeps, RemovalKeeps, ResultKeeps, DrainKeeps, Zenon DEF Handle
<1>7. CASE \E p \in Procs, l \in Locks : handleRenew(p, l)
  BY <1>0, <1>7, RenewKeeps, Zenon
<1>8. CASE UNCHANGED vars
  BY <1>0, <1>8, OtherKeeps, Zenon DEF vars, mgrVars, redisVars
<1> QED
  BY <1>1, <1>2, <1>3, <1>4, <1>5, <1>6, <1>7, <1>8, Zenon DEF Next, Work

----------------------------------------------------------------------------
(* Theorems.                                                               *)

\* The invariant of the manager: its count is that of the locks whose callers still
\* owe a Release or an Orphan, and its channel, map, heap and workers agree on them.
THEOREM DistLockInvariant == Spec => []IInv
  BY InitIInv, NextIInv, PTL DEF Spec

\* The window between the two critical sections of decPendingAndMaybeDrain loses
\* nothing: a manager that is about to leave has no lock in its map or heap, however
\* many callers add locks meanwhile.
THEOREM LeavingLosesNothing == Spec => []ManagerLeavesNothing
<1>1. IInv => ManagerLeavesNothing
  BY Zenon DEF IInv
<1> QED
  BY <1>1, DistLockInvariant, PTL

\* A lock released, orphaned or lost has its key extended once more at most, whatever
\* the worker retries (Lock.Orphan's promise).
THEOREM LateRenewalIsOne == Spec => []OneLateRenewal
<1>1. IInv => OneLateRenewal
  BY DEF IInv, WorkersOK, WorkerOK, OneLateRenewal
<1> QED
  BY <1>1, DistLockInvariant, PTL

\* The token guard of the release script: a key that some lock has is freed by its
\* expiry or by the Release of that very lock.
THEOREM FreedByItsHolder == Spec => OnlyHolderFrees
<1>1. ASSUME IInv, [Next]_vars, NEW k \in Keys, key[k] # Nobody, key'[k] # key[k]
      PROVE  key'[k] = Nobody /\ (call' = call \/ call[key[k]] = "io")
  <2> USE DEF IInv, TypeOK
  <2>1. CASE \E j \in Keys : Expire(j)
    BY <1>1, <2>1, Zenon DEF Expire
  <2>2. ASSUME NEW l \in Locks, SetNX(l) PROVE FALSE
    BY <1>1, <2>2, Zenon DEF SetNX
  <2>3. ASSUME NEW l \in Locks, Delete(l), call[l] = "io"
        PROVE  key'[k] = Nobody /\ call[key[k]] = "io"
    BY <1>1, <2>3, Zenon DEF Delete, Owns
  <2>4. CASE \E l \in Locks : Acquire(l) \/ AcquireError(l)
    BY <1>1, <2>2, <2>4, Zenon DEF Acquire, AcquireError
  <2>5. CASE \E l \in Locks : Release(l) \/ ReleaseError(l)
    BY <1>1, <2>3, <2>5, Zenon DEF Release, ReleaseError
  <2>6. CASE \E l \in Locks : \/ add(l) \/ sendAdd(l) \/ remove(l) \/ orphan(l)
                             \/ Renew(l) \/ RenewAnswered(l) \/ RenewError(l) \/ Post(l)
    BY <1>1, <2>6, Zenon DEF add, sendAdd, remove, orphan, Renew, RenewAnswered, RenewError, Post, redisVars
  <2>7. CASE \E p \in Procs : Handle(p) \/ \E l \in Locks : handleRenew(p, l)
    BY <1>1, <2>7, Zenon DEF Handle, handleAdd, handleRemove, handleOrphan, handleRenewResult, drain,
                      handleRenew, redisVars
  <2>8. CASE UNCHANGED vars
    BY <1>1, <2>8, Zenon DEF vars, redisVars
  <2> QED
    BY <1>1, <2>1, <2>4, <2>5, <2>6, <2>7, <2>8, Zenon DEF Next, Work
<1>2. IInv /\ [Next]_vars =>
        [\A k \in Keys :
            key[k] # Nobody /\ key'[k] # key[k]
                => key'[k] = Nobody /\ (call' = call \/ call[key[k]] = "io")]_vars
  BY <1>1, Zenon
<1> QED
  BY <1>2, DistLockInvariant, PTL DEF Spec, OnlyHolderFrees

=============================================================================
