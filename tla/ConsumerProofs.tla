--------------------------- MODULE ConsumerProofs ---------------------------
(* For any messages, goroutines, deployments and numbers of faults: what is    *)
(* acknowledged was handled, what is dead-lettered is hopeless, a success is   *)
(* repeated only for a fault, and a done mark is set under the current lease.  *)
EXTENDS Consumer, FiniteSetTheorems, TLAPS

(* The inductive invariant, and the part of its induction that needs no case   *)
(* analysis of a goroutine's state: types, what no step takes back, what the   *)
(* broker holds and the done marks.                                            *)

Places == {"idle", "claim", "handle", "commit", "commitFailed", "delay", "broker", "release"}
Results == {"none", "ack", "requeue", "nack", "reject", "move", "strand"}
QueueStates == {"absent", "ready", "unacked", "delayed"} \cup Settled

ConsumerTypeOK ==
    /\ deploy \in Deployments
    /\ mark \in [Keys -> {"free", "leased", "done"}]
    /\ owner \in [Keys -> Workers \cup {Nobody}]
    /\ lapsed \in [Keys -> BOOLEAN]
    /\ queue \in [Messages -> QueueStates]
    /\ attempt \in [Messages -> Nat]
    /\ carrier \in [Messages -> Workers \cup {Nobody}]
    /\ pc \in [Workers -> Places]
    /\ job \in [Workers -> Messages \cup {Nobody}]
    /\ tries \in [Workers -> Nat]
    /\ receipt \in [Workers -> BOOLEAN]
    /\ ctx \in [Workers -> {"live", "canceled", "leaseLost"}]
    /\ result \in [Workers -> Results]
    /\ acks \in [Keys -> Nat]
    /\ fails \in [Keys -> Nat]
    /\ refused \subseteq Keys
    /\ faults \in [Keys -> Nat]
    /\ drops \in Nat

\* What a goroutine believes of its message is true.
WorkerOK(w) ==
    /\ pc[w] = "idle" => tries[w] = 0 /\ result[w] = "none"
    /\ pc[w] # "idle" =>
          /\ job[w] \in Messages
          /\ queue[job[w]] # "absent"
          /\ job[w] \in Malformed => pc[w] \in {"broker", "release"} /\ result[w] = "reject"
          /\ pc[w] = "claim" /\ FailOpen => tries[w] = 0
          /\ pc[w] = "handle" => tries[w] <= fails[Event(w)]
          /\ pc[w] = "commit" => result[w] = "ack"
          /\ pc[w] = "delay" => Tiers > 0
          /\ pc[w] \in {"commitFailed", "broker"} => result[w] # "none"
          /\ result[w] = "ack" => acks[Event(w)] > 0
          /\ result[w] = "reject" => Hopeless(job[w])
          /\ result[w] = "move" => HasCopy(job[w])
          /\ result[w] = "strand" => attempt[job[w]] <= Tiers

\* So is what the broker concluded from it.
BrokerOK(m) ==
    /\ attempt[m] <= Tiers + 1
    /\ queue[m] = "acked" => acks[EventOf[m]] > 0 /\ m \notin Malformed
    /\ queue[m] = "moved" => HasCopy(m)
    /\ queue[m] = "dead" => Hopeless(m)
    /\ queue[m] = "stranded" => attempt[m] <= Tiers

\* A lease with an owner is held by a goroutine that works on the event with a
\* receipt and has not been told that it lost the lease.
OwnerWorks ==
    \A k \in Keys : owner[k] # Nobody =>
        /\ mark[k] = "leased"
        /\ pc[owner[k]] \notin {"idle", "claim"}
        /\ receipt[owner[k]]
        /\ Event(owner[k]) = k
        /\ ctx[owner[k]] # "leaseLost"

\* Only a renewal tells a goroutine that its lease is lost.
LossIsLate == \A w \in Workers : pc[w] \in {"idle", "claim"} => ctx[w] # "leaseLost"

DoneWasAcked == \A k \in Keys : mark[k] = "done" => acks[k] > 0

\* Goroutines that run the handler for k without an unexpired lease on it.
Loose(k) ==
    {w \in Workers : pc[w] = "handle" /\ Event(w) = k /\ ~(owner[k] = w /\ ~lapsed[k])}

\* One success needs no fault to explain it: the one behind the done mark, or the one
\* whose goroutine is about to commit under an unexpired lease.
Rightful(k) ==
    /\ ~lapsed[k]
    /\ mark[k] = "done" \/ (owner[k] # Nobody /\ pc[owner[k]] = "commit")

\* The account behind EffectsBounded: every other success, and every goroutine that
\* may still add one, is paid for by a fault.
Account ==
    \A k \in Keys :
        acks[k] + Cardinality(Loose(k)) <= faults[k] + (IF Rightful(k) THEN 1 ELSE 0)

\* The inductive invariant.
IInv ==
    /\ ConsumerTypeOK
    /\ \A w \in Workers : WorkerOK(w)
    /\ \A m \in Messages : BrokerOK(m)
    /\ OwnerWorks
    /\ LossIsLate
    /\ DoneWasAcked
    /\ Account

(* -------------------------------- Lemmas ----------------------------------- *)

\* Where Wrap's verdict sends the goroutine.
LEMMA ReturnMoves ==
    ASSUME NEW w \in Workers, NEW r \in Results, Return(w, r)
    PROVE  \E x \in {"commit", "delay", "broker"} :
             /\ pc' = [pc EXCEPT ![w] = x]
             /\ x = "commit" <=> r = "ack" /\ receipt[w]
             /\ x = "delay" => r = "requeue" /\ Tiers > 0
             /\ result' = [result EXCEPT ![w] = r]
             /\ tries' = [tries EXCEPT ![w] = 0]
<1>1. CASE r = "ack" /\ receipt[w]
  BY <1>1, Zenon DEF Return, Goto
<1>2. CASE ~(r = "ack" /\ receipt[w]) /\ r = "requeue" /\ Tiers > 0
  BY <1>2, Zenon DEF Return, Goto
<1>3. CASE ~(r = "ack" /\ receipt[w]) /\ ~(r = "requeue" /\ Tiers > 0)
  BY <1>3, Zenon DEF Return, Goto
<1>4. QED
  BY <1>1, <1>2, <1>3, Zenon

\* What the claimer's operations write is typed.
LEMMA SetTyped ==
    ASSUME ConsumerTypeOK, NEW k \in Keys, NEW c \in Workers \cup {Nobody},
           NEW m \in {"free", "leased", "done"}, Set(k, m, c)
    PROVE  /\ deploy' = deploy
           /\ mark' \in [Keys -> {"free", "leased", "done"}]
           /\ owner' \in [Keys -> Workers \cup {Nobody}]
           /\ lapsed' \in [Keys -> BOOLEAN]
BY Zenon DEF ConsumerTypeOK, Set

\* Where the claimer may take its variables.
LEMMA ClaimerTyped ==
    ASSUME ConsumerTypeOK, NEW k \in Keys, NEW c \in Workers \cup {Nobody},
           \/ Acquire(k, c) \/ Commit(k, c) \/ Release(k, c) \/ Extend(k, c)
           \/ Forsake(k, c) \/ Lapse(k) \/ UNCHANGED claimerVars
    PROVE  /\ deploy' = deploy
           /\ mark' \in [Keys -> {"free", "leased", "done"}]
           /\ owner' \in [Keys -> Workers \cup {Nobody}]
           /\ lapsed' \in [Keys -> BOOLEAN]
<1>1. CASE \E m \in {"free", "leased", "done"}, d \in Workers \cup {Nobody} : Set(k, m, d)
  BY <1>1, SetTyped, Zenon
<1>2. CASE UNCHANGED claimerVars
  BY <1>2, Zenon DEF ConsumerTypeOK, claimerVars
<1>3. CASE Forsake(k, c)
  BY <1>3, Zenon DEF ConsumerTypeOK, Forsake
<1>4. CASE Lapse(k) /\ Lazy
  <2>1. lapsed' = [lapsed EXCEPT ![k] = TRUE] /\ UNCHANGED <<mark, owner, deploy>>
    BY <1>4, Zenon DEF Lapse
  <2>2. QED
    BY <2>1, Zenon DEF ConsumerTypeOK
<1>5. CASE \/ Acquire(k, c) \/ Commit(k, c) \/ Release(k, c) \/ Extend(k, c)
           \/ Lapse(k) /\ ~Lazy
  BY <1>1, <1>2, <1>5, Zenon DEF Acquire, Commit, Release, Extend, Lapse
<1>6. QED
  BY <1>2, <1>3, <1>4, <1>5, Zenon

\* The copy in the delay tier is a spare message of the same event.
LEMMA CopyPublished ==
    ASSUME NEW m \in Messages, PublishCopy(m)
    PROVE  \E c \in Messages : /\ queue[c] = "absent" /\ EventOf[c] = EventOf[m]
                               /\ queue' = [queue EXCEPT ![c] = "delayed"]
                               /\ attempt' = [attempt EXCEPT ![c] = attempt[m] + 1]
<1> DEFINE spare == {c \in Messages : queue[c] = "absent" /\ EventOf[c] = EventOf[m]}
           copy == CHOOSE c \in spare : TRUE
<1>1. spare # {} /\ queue' = [queue EXCEPT ![copy] = "delayed"]
                 /\ attempt' = [attempt EXCEPT ![copy] = attempt[m] + 1]
  BY Zenon DEF PublishCopy
<1>2. copy \in spare
  BY <1>1, Zenon
<1>3. QED
  BY <1>1, <1>2, Zenon

\* A goroutine that is not idle works on an event.
LEMMA Busy ==
    ASSUME IInv, NEW w \in Workers, pc[w] # "idle"
    PROVE  job[w] \in Messages /\ Event(w) \in Keys /\ queue[job[w]] # "absent"
BY ConsumerAssumption, Zenon DEF IInv, WorkerOK, Event

\* Typed deployments.
LEMMA DeployTyped ==
    ASSUME ConsumerTypeOK
    PROVE  /\ Lazy \in BOOLEAN /\ FailOpen \in BOOLEAN /\ Malformed \subseteq Messages
           /\ Tiers \in Nat /\ MaxFaults \in Nat
BY ConsumerAssumption, Zenon DEF ConsumerTypeOK, Lazy, FailOpen, Malformed, Tiers, MaxFaults

\* What the broker's verdicts mean.
LEMMA PlaceTyped ==
    ASSUME NEW r \in Results \ {"none"}
    PROVE  /\ Place(r) \in Settled \cup {"ready"}
           /\ Place(r) = "acked" => r = "ack"
           /\ Place(r) = "moved" => r = "move"
           /\ Place(r) = "dead" => r = "reject"
           /\ Place(r) = "stranded" => r = "strand"
BY Zenon DEF Place, Results, Settled

\* Wrap's verdict is typed.
LEMMA ReturnTyped ==
    ASSUME ConsumerTypeOK, NEW w \in Workers, NEW r \in Results, Return(w, r)
    PROVE  /\ pc' \in [Workers -> Places] /\ tries' \in [Workers -> Nat]
           /\ result' \in [Workers -> Results]
<1>1. PICK x \in {"commit", "delay", "broker"} :
            /\ pc' = [pc EXCEPT ![w] = x]
            /\ result' = [result EXCEPT ![w] = r]
            /\ tries' = [tries EXCEPT ![w] = 0]
  BY ReturnMoves, Zenon
<1>2. QED
  BY <1>1, Zenon DEF ConsumerTypeOK, Places

\* A fault is counted against its event.
LEMMA FaultTyped ==
    ASSUME ConsumerTypeOK, NEW k \in Keys, Fault(k)
    PROVE  /\ faults' \in [Keys -> Nat]
           /\ faults' = [faults EXCEPT ![k] = faults[k] + 1]
BY DEF Fault, ConsumerTypeOK

\* Types, step by step: the subscriber hands over a message.
LEMMA TypedDeliver ==
    ASSUME IInv, ConsumerTypeOK, Nobody \notin Workers,
           NEW w \in Workers, NEW m \in Messages, Deliver(w, m)
    PROVE  ConsumerTypeOK'
BY Zenon DEF Deliver, Goto, ConsumerTypeOK, QueueStates, Results, Places, claimerVars,
   brokerVars, history

\* Types: the claimer answers.
LEMMA TypedClaim ==
    ASSUME IInv, ConsumerTypeOK, Nobody \notin Workers,
           NEW w \in Workers, Claim(w)
    PROVE  ConsumerTypeOK'
<1> USE DEF Places, claimerVars, brokerVars, history
<1>1. Event(w) \in Keys
  BY Busy, Zenon DEF Claim
<1>2. /\ deploy' = deploy
      /\ mark' \in [Keys -> {"free", "leased", "done"}]
      /\ owner' \in [Keys -> Workers \cup {Nobody}]
      /\ lapsed' \in [Keys -> BOOLEAN]
  BY <1>1, ClaimerTyped, Zenon DEF Claim
<1>3. /\ pc' \in [Workers -> Places]
      /\ tries' \in [Workers -> Nat]
      /\ receipt' \in [Workers -> BOOLEAN]
      /\ result' \in [Workers -> Results]
  <2>1. CASE Return(w, "ack") /\ UNCHANGED receipt
    BY <2>1, ReturnTyped, Zenon DEF ConsumerTypeOK, Results
  <2>2. CASE Return(w, "requeue") /\ UNCHANGED receipt
    BY <2>2, ReturnTyped, Zenon DEF ConsumerTypeOK, Results
  <2>3. CASE /\ receipt' = [receipt EXCEPT ![w] = TRUE]
             /\ tries' = [tries EXCEPT ![w] = 0]
             /\ Goto(w, "handle") /\ UNCHANGED result
    BY <2>3, Zenon DEF ConsumerTypeOK, Goto
  <2>4. QED
    BY <2>1, <2>2, <2>3, Zenon DEF Claim
<1>4. QED
  BY <1>2, <1>3, Zenon DEF Claim, ConsumerTypeOK

\* Types: the claimer fails, and Wrap retries, gives up or fails open.
LEMMA TypedClaimError ==
    ASSUME IInv, ConsumerTypeOK, Nobody \notin Workers,
           NEW w \in Workers, ClaimError(w)
    PROVE  ConsumerTypeOK'
<1> USE DEF Places, claimerVars, brokerVars, history
<1>1. Event(w) \in Keys
  BY Busy, Zenon DEF ClaimError
<1>2. /\ deploy' = deploy
      /\ mark' \in [Keys -> {"free", "leased", "done"}]
      /\ owner' \in [Keys -> Workers \cup {Nobody}]
      /\ lapsed' \in [Keys -> BOOLEAN]
  BY <1>1, ClaimerTyped, Zenon DEF ClaimError
<1>3. /\ pc' \in [Workers -> Places]
      /\ tries' \in [Workers -> Nat]
      /\ result' \in [Workers -> Results]
  <2>1. CASE Return(w, "requeue")
    BY <2>1, ReturnTyped, Zenon DEF ConsumerTypeOK, Results
  <2>2. CASE ~Return(w, "requeue")
    BY <2>2 DEF ClaimError, ConsumerTypeOK, Goto
  <2>3. QED
    BY <2>1, <2>2, Zenon
<1>4. faults' \in [Keys -> Nat]
  BY <1>1, FaultTyped, Zenon DEF ClaimError
<1>5. QED
  BY <1>2, <1>3, <1>4, Zenon DEF ClaimError, ConsumerTypeOK

\* Types: a wait between two tries is aborted.
LEMMA TypedBackoff ==
    ASSUME IInv, ConsumerTypeOK, Nobody \notin Workers,
           NEW w \in Workers, BackoffAborted(w)
    PROVE  ConsumerTypeOK'
BY ReturnTyped, Zenon DEF BackoffAborted, ConsumerTypeOK, Results, Places, claimerVars,
   brokerVars, history

\* Types: the handler succeeds.
LEMMA TypedAcks ==
    ASSUME IInv, ConsumerTypeOK, Nobody \notin Workers,
           NEW w \in Workers, HandlerAcks(w)
    PROVE  ConsumerTypeOK'
<1> USE DEF Places, claimerVars, brokerVars, history
<1>1. Event(w) \in Keys
  BY Busy, Zenon DEF HandlerAcks
<1>2. QED
  BY ReturnTyped, <1>1 DEF HandlerAcks, ConsumerTypeOK, Results

\* Types: the handler rejects the event for good.
LEMMA TypedRejects ==
    ASSUME IInv, ConsumerTypeOK, Nobody \notin Workers,
           NEW w \in Workers, HandlerRejects(w)
    PROVE  ConsumerTypeOK'
<1> USE DEF Places, claimerVars, brokerVars, history
<1>1. Event(w) \in Keys
  BY Busy, Zenon DEF HandlerRejects
<1>2. QED
  BY ReturnTyped, <1>1, Zenon DEF HandlerRejects, ConsumerTypeOK, Results

\* Types: the handler fails and may be retried.
LEMMA TypedFails ==
    ASSUME IInv, ConsumerTypeOK, Nobody \notin Workers,
           NEW w \in Workers, HandlerFails(w)
    PROVE  ConsumerTypeOK'
<1> USE DEF Places, claimerVars, brokerVars, history
<1>1. Event(w) \in Keys
  BY Busy, Zenon DEF HandlerFails
<1>2. /\ pc' \in [Workers -> Places] /\ tries' \in [Workers -> Nat]
      /\ result' \in [Workers -> Results]
  BY ReturnTyped DEF HandlerFails, ConsumerTypeOK, Results
<1>3. QED
  BY <1>1, <1>2 DEF HandlerFails, ConsumerTypeOK

\* Types: a lease renewal answers.
LEMMA TypedRenew ==
    ASSUME IInv, ConsumerTypeOK, Nobody \notin Workers,
           NEW w \in Workers, Renew(w)
    PROVE  ConsumerTypeOK'
<1> USE DEF Places, claimerVars, brokerVars, history
<1>1. Event(w) \in Keys
  BY Busy, Zenon DEF Renew
<1>2. QED
  BY <1>1, ClaimerTyped, Zenon DEF Renew, ConsumerTypeOK

\* Types: the receipt is committed, or its commit fails.
LEMMA TypedCommit ==
    ASSUME IInv, ConsumerTypeOK, Nobody \notin Workers,
           NEW w \in Workers, CommitSettlement(w) \/ CommitError(w)
    PROVE  ConsumerTypeOK'
<1> USE DEF Places, claimerVars, brokerVars, history
<1>1. Event(w) \in Keys
  BY Busy, Zenon DEF CommitSettlement, CommitError
<1>2. /\ deploy' = deploy
      /\ mark' \in [Keys -> {"free", "leased", "done"}]
      /\ owner' \in [Keys -> Workers \cup {Nobody}]
      /\ lapsed' \in [Keys -> BOOLEAN]
  BY <1>1, ClaimerTyped, Zenon DEF CommitSettlement, CommitError
<1>3. faults' \in [Keys -> Nat]
  BY <1>1, FaultTyped, Zenon DEF CommitSettlement, CommitError, ConsumerTypeOK
<1>4. /\ pc' \in [Workers -> Places] /\ receipt' \in [Workers -> BOOLEAN]
      /\ result' \in [Workers -> Results]
  BY Zenon
     DEF CommitSettlement, CommitError, CommitFails, Goto, ConsumerTypeOK, Results
<1>5. QED
  BY <1>2, <1>3, <1>4, Zenon DEF CommitSettlement, CommitError, ConsumerTypeOK

\* Types: a goroutine puts its message down.
LEMMA IdleTyped ==
    ASSUME IInv, ConsumerTypeOK, Nobody \notin Workers,
           NEW w \in Workers, Idle(w)
    PROVE  /\ pc' \in [Workers -> Places] /\ job' \in [Workers -> Messages \cup {Nobody}]
           /\ tries' \in [Workers -> Nat] /\ receipt' \in [Workers -> BOOLEAN]
           /\ ctx' \in [Workers -> {"live", "canceled", "leaseLost"}]
           /\ result' \in [Workers -> Results]
BY Zenon DEF Idle, Goto, ConsumerTypeOK, Results, Places, claimerVars, brokerVars, history

\* Types: the receipt is released, or its release fails.
LEMMA TypedRelease ==
    ASSUME IInv, ConsumerTypeOK, Nobody \notin Workers,
           NEW w \in Workers, ReleaseSettlement(w) \/ ReleaseError(w)
    PROVE  ConsumerTypeOK'
<1> USE DEF Places, claimerVars, brokerVars, history
<1>1. Event(w) \in Keys
  BY Busy, Zenon DEF ReleaseSettlement, ReleaseError
<1>2. /\ deploy' = deploy
      /\ mark' \in [Keys -> {"free", "leased", "done"}]
      /\ owner' \in [Keys -> Workers \cup {Nobody}]
      /\ lapsed' \in [Keys -> BOOLEAN]
  BY <1>1, ClaimerTyped, Zenon DEF ReleaseSettlement, ReleaseError
<1>3. /\ pc' \in [Workers -> Places] /\ job' \in [Workers -> Messages \cup {Nobody}]
      /\ tries' \in [Workers -> Nat] /\ receipt' \in [Workers -> BOOLEAN]
      /\ ctx' \in [Workers -> {"live", "canceled", "leaseLost"}]
      /\ result' \in [Workers -> Results]
  BY IdleTyped, Zenon
     DEF ReleaseSettlement, ReleaseError, AfterRelease, Goto, ConsumerTypeOK
<1>4. faults' \in [Keys -> Nat]
  BY <1>1, FaultTyped, Zenon DEF ReleaseSettlement, ReleaseError, ConsumerTypeOK
<1>5. QED
  BY <1>2, <1>3, <1>4 DEF ReleaseSettlement, ReleaseError, ConsumerTypeOK

\* Types: a requeue takes the delay tiers.
LEMMA TypedDelay ==
    ASSUME IInv, ConsumerTypeOK, Nobody \notin Workers,
           NEW w \in Workers, dispatchDelayedRequeue(w)
    PROVE  ConsumerTypeOK'
<1> USE DEF Places, claimerVars, brokerVars, history
<1>1. job[w] \in Messages
  BY Busy, Zenon DEF dispatchDelayedRequeue
<1>2. queue' \in [Messages -> QueueStates] /\ attempt' \in [Messages -> Nat]
  <2>1. CASE PublishCopy(job[w])
    BY <1>1, <2>1, CopyPublished DEF ConsumerTypeOK, QueueStates
  <2>2. CASE UNCHANGED <<queue, attempt>>
    BY <2>2, Zenon DEF ConsumerTypeOK
  <2>3. QED
    BY <2>1, <2>2, Zenon DEF dispatchDelayedRequeue, exhaustDelayBudget,
                             republishToDelayTier, failClosedDelayPublish
<1>3. result' \in [Workers -> Results] /\ pc' \in [Workers -> Places]
  BY Zenon DEF dispatchDelayedRequeue, exhaustDelayBudget, republishToDelayTier,
                     failClosedDelayPublish, ConsumerTypeOK, Goto, Results
<1>4. QED
  BY <1>2, <1>3, Zenon DEF dispatchDelayedRequeue, ConsumerTypeOK

\* Types: the broker is told the verdict.
LEMMA TypedTell ==
    ASSUME IInv, ConsumerTypeOK, Nobody \notin Workers,
           NEW w \in Workers, TellBroker(w)
    PROVE  ConsumerTypeOK'
<1> USE DEF Places, claimerVars, brokerVars, history
<1>1. job[w] \in Messages /\ result[w] \in Results \ {"none"}
  BY Busy, Zenon DEF TellBroker, IInv, WorkerOK, ConsumerTypeOK
<1>2. Place(result[w]) \in QueueStates
  BY <1>1, PlaceTyped, Zenon DEF QueueStates
<1>3. queue' \in [Messages -> QueueStates] /\ carrier' \in [Messages -> Workers \cup {Nobody}]
  BY <1>2 DEF TellBroker, ConsumerTypeOK
<1>4. /\ pc' \in [Workers -> Places] /\ job' \in [Workers -> Messages \cup {Nobody}]
      /\ tries' \in [Workers -> Nat] /\ receipt' \in [Workers -> BOOLEAN]
      /\ ctx' \in [Workers -> {"live", "canceled", "leaseLost"}]
      /\ result' \in [Workers -> Results]
  BY IdleTyped, Zenon DEF TellBroker, Goto, ConsumerTypeOK
<1>5. QED
  BY <1>3, <1>4, Zenon DEF TellBroker, ConsumerTypeOK

\* Types: a context is canceled.
LEMMA TypedCancel ==
    ASSUME IInv, ConsumerTypeOK, Nobody \notin Workers,
           NEW w \in Workers, Cancel(w)
    PROVE  ConsumerTypeOK'
BY DEF Cancel, ConsumerTypeOK, Places, claimerVars, brokerVars, history

\* Types: a process dies and the broker takes its message back.
LEMMA TypedCrash ==
    ASSUME IInv, ConsumerTypeOK, Nobody \notin Workers,
           NEW w \in Workers, Crash(w)
    PROVE  ConsumerTypeOK'
<1> USE DEF Places, claimerVars, brokerVars, history
<1>1. Event(w) \in Keys
  BY Busy, Zenon DEF Crash
<1>2. /\ deploy' = deploy
      /\ mark' \in [Keys -> {"free", "leased", "done"}]
      /\ owner' \in [Keys -> Workers \cup {Nobody}]
      /\ lapsed' \in [Keys -> BOOLEAN]
  BY <1>1, ClaimerTyped, Zenon DEF Crash
<1>3. queue' \in [Messages -> QueueStates]
  BY Zenon DEF Crash, ConsumerTypeOK, QueueStates
<1>4. carrier' \in [Messages -> Workers \cup {Nobody}]
  BY Zenon DEF Crash, ConsumerTypeOK
<1>5. faults' \in [Keys -> Nat]
  BY <1>1, FaultTyped, Zenon DEF Crash
<1>6. QED
  BY IdleTyped, <1>2, <1>3, <1>4, <1>5, Zenon DEF Crash, ConsumerTypeOK

\* Types: a connection drops, or a delayed copy comes back.
LEMMA TypedBroker ==
    ASSUME IInv, ConsumerTypeOK, Nobody \notin Workers,
           NEW m \in Messages, Drop(m) \/ DelayExpires(m)
    PROVE  ConsumerTypeOK'
BY DEF Drop, DelayExpires, ConsumerTypeOK, QueueStates, Places, claimerVars, brokerVars, history

\* Types: an entry of the claimer runs out.
LEMMA TypedLapse ==
    ASSUME IInv, ConsumerTypeOK, Nobody \notin Workers,
           NEW k \in Keys, LeaseLapses(k)
    PROVE  ConsumerTypeOK'
<1> USE DEF Places, claimerVars, brokerVars, history
<1>1. /\ deploy' = deploy
      /\ mark' \in [Keys -> {"free", "leased", "done"}]
      /\ owner' \in [Keys -> Workers \cup {Nobody}]
      /\ lapsed' \in [Keys -> BOOLEAN]
  BY ClaimerTyped, Zenon DEF LeaseLapses
<1>2. faults' \in [Keys -> Nat]
  BY FaultTyped, Zenon DEF LeaseLapses, ConsumerTypeOK
<1>3. QED
  BY <1>1, <1>2, Zenon DEF LeaseLapses, ConsumerTypeOK

\* Every step of the consumers is typed.
LEMMA StepTyped == IInv /\ [Next]_vars => ConsumerTypeOK'
<1> SUFFICES ASSUME IInv, [Next]_vars PROVE ConsumerTypeOK'
  OBVIOUS
<1> USE DEF Places, claimerVars, brokerVars, history
<1> ConsumerTypeOK /\ Nobody \notin Workers
  BY ClaimerAssumption, Zenon DEF IInv, Workers
<1>1. CASE UNCHANGED vars
  BY <1>1, Zenon DEF vars, ConsumerTypeOK
<1>2. QED
  BY TypedDeliver, TypedClaim, TypedClaimError, TypedBackoff, TypedAcks, TypedRejects,
     TypedFails, TypedRenew, TypedCommit, TypedRelease, TypedDelay, TypedTell, TypedCancel,
     TypedCrash, TypedBroker, TypedLapse, <1>1, Zenon DEF Next, WorkerStep, Quiescent

\* What no step takes back: the deployment, the histories, and a message once there.
Grows ==
    /\ deploy' = deploy
    /\ \A k \in Keys : acks[k] <= acks'[k] /\ fails[k] <= fails'[k]
    /\ refused \subseteq refused'
    /\ \A m \in Messages :
          queue[m] # "absent" => queue'[m] # "absent" /\ attempt'[m] = attempt[m]

\* What a goroutine keeps to itself.
Local(w) == <<pc[w], job[w], tries[w], receipt[w], ctx[w], result[w]>>

\* No step changes the deployment.
LEMMA DeployFixed == [Next]_vars => deploy' = deploy
<1> USE DEF claimerVars, Set, Acquire, Commit, Release, Extend, Forsake, Lapse
<1>1. ASSUME NEW w \in Workers, WorkerStep(w) PROVE deploy' = deploy
  BY <1>1, Zenon DEF WorkerStep, Deliver, Claim, HandlerAcks, HandlerRejects, HandlerFails,
     CommitSettlement, ReleaseSettlement, dispatchDelayedRequeue, TellBroker
<1>2. ASSUME NEW w \in Workers,
             \/ ClaimError(w) \/ BackoffAborted(w) \/ Renew(w) \/ CommitError(w)
             \/ ReleaseError(w) \/ Cancel(w) \/ Crash(w)
      PROVE  deploy' = deploy
  BY <1>2, Zenon DEF ClaimError, BackoffAborted, Renew, CommitError, ReleaseError, Cancel, Crash
<1>3. QED
  BY <1>1, <1>2, Zenon DEF Next, Drop, DelayExpires, LeaseLapses, Quiescent, vars

\* No step takes a history back, or a message away.
LEMMA StepGrows == IInv /\ [Next]_vars => Grows
<1> SUFFICES ASSUME IInv, [Next]_vars PROVE Grows
  OBVIOUS
<1> USE DEF brokerVars, history
<1> ConsumerTypeOK /\ deploy' = deploy
  BY DeployFixed, Zenon DEF IInv
<1>1. CASE UNCHANGED <<queue, attempt, acks, fails, refused>>
  BY <1>1 DEF Grows, ConsumerTypeOK
<1>2. ASSUME NEW w \in Workers, NEW m \in Messages, Deliver(w, m) PROVE Grows
  BY <1>2 DEF Deliver, Grows, ConsumerTypeOK
<1>3. ASSUME NEW w \in Workers, HandlerAcks(w) PROVE Grows
  BY <1>3 DEF HandlerAcks, Grows, ConsumerTypeOK
<1>4. ASSUME NEW w \in Workers, HandlerRejects(w) PROVE Grows
  BY <1>4 DEF HandlerRejects, Grows, ConsumerTypeOK
<1>5. ASSUME NEW w \in Workers, HandlerFails(w) PROVE Grows
  BY <1>5 DEF HandlerFails, Grows, ConsumerTypeOK
<1>6. ASSUME NEW w \in Workers, dispatchDelayedRequeue(w) PROVE Grows
  <2>1. UNCHANGED <<acks, fails, refused>>
    BY <1>6, Zenon DEF dispatchDelayedRequeue
  <2>2. CASE UNCHANGED <<queue, attempt>>
    BY <1>1, <2>1, <2>2, Zenon
  <2>3. CASE PublishCopy(job[w])
    <3>1. job[w] \in Messages
      BY <1>6, Busy, Zenon DEF dispatchDelayedRequeue
    <3>2. PICK c \in Messages : /\ queue[c] = "absent"
                                /\ queue' = [queue EXCEPT ![c] = "delayed"]
                                /\ attempt' = [attempt EXCEPT ![c] = attempt[job[w]] + 1]
      BY <2>3, <3>1, CopyPublished, Zenon
    <3>3. QED
      BY <2>1, <3>2 DEF Grows, ConsumerTypeOK
  <2>4. QED
    BY <1>6, <2>2, <2>3, Zenon DEF dispatchDelayedRequeue, exhaustDelayBudget,
       republishToDelayTier, failClosedDelayPublish
<1>7. ASSUME NEW w \in Workers, TellBroker(w) PROVE Grows
  <2>1. result[w] \in Results \ {"none"}
    BY <1>7, Zenon DEF TellBroker, IInv, WorkerOK, ConsumerTypeOK
  <2>2. Place(result[w]) # "absent"
    BY <2>1, PlaceTyped, Zenon DEF Settled
  <2>3. QED
    BY <1>7, <2>2 DEF TellBroker, Grows, ConsumerTypeOK
<1>8. ASSUME NEW w \in Workers, Crash(w) PROVE Grows
  BY <1>8 DEF Crash, Grows, ConsumerTypeOK
<1>9. ASSUME NEW m \in Messages, Drop(m) \/ DelayExpires(m) PROVE Grows
  BY <1>9 DEF Drop, DelayExpires, Grows, ConsumerTypeOK
<1>10. ASSUME NEW w \in Workers,
              \/ Claim(w) \/ ClaimError(w) \/ BackoffAborted(w) \/ Renew(w) \/ CommitSettlement(w)
              \/ CommitError(w) \/ ReleaseSettlement(w) \/ ReleaseError(w) \/ Cancel(w)
       PROVE  UNCHANGED <<queue, attempt, acks, fails, refused>>
  BY <1>10, Zenon DEF Claim, ClaimError, BackoffAborted, Renew, CommitSettlement, CommitError,
               ReleaseSettlement, ReleaseError, Cancel
<1>11. ASSUME NEW k \in Keys, LeaseLapses(k)
       PROVE  UNCHANGED <<queue, attempt, acks, fails, refused>>
  BY <1>11, Zenon DEF LeaseLapses
<1>12. QED
  BY <1>1, <1>2, <1>3, <1>4, <1>5, <1>6, <1>7, <1>8, <1>9, <1>10, <1>11, Zenon
     DEF Next, WorkerStep, Quiescent, vars

\* Hopeless and copied messages stay so.
LEMMA HopelessStays ==
    ASSUME ConsumerTypeOK, ConsumerTypeOK', Grows, NEW m \in Messages, queue[m] # "absent"
    PROVE  /\ Hopeless(m) => Hopeless(m)'
           /\ HasCopy(m) => HasCopy(m)'
<1>1. EventOf[m] \in Keys /\ RetryCount \in Nat
  BY ConsumerAssumption, Zenon
<1>2. Hopeless(m) => Hopeless(m)'
  BY <1>1 DEF Hopeless, Grows, ConsumerTypeOK, Malformed, Tiers
<1>3. HasCopy(m) => HasCopy(m)'
  BY Zenon DEF HasCopy, Grows
<1>4. QED
  BY <1>2, <1>3, Zenon

\* What a goroutine believes stays true while it does not move.
LEMMA WorkerStays ==
    ASSUME IInv, ConsumerTypeOK', Grows, NEW w \in Workers,
           pc'[w] = pc[w], job'[w] = job[w], tries'[w] = tries[w], result'[w] = result[w]
    PROVE  WorkerOK(w)'
<1>1. /\ pc'[w] = pc[w] /\ job'[w] = job[w] /\ tries'[w] = tries[w] /\ result'[w] = result[w]
  OBVIOUS
<1>2. CASE pc[w] = "idle"
  BY <1>1, <1>2, Zenon DEF IInv, WorkerOK
<1>3. CASE pc[w] # "idle"
  <2>1. job[w] \in Messages /\ Event(w) \in Keys /\ queue[job[w]] # "absent" /\ WorkerOK(w)
    BY <1>3, Busy, Zenon DEF IInv
  <2>2. Event(w)' = Event(w)
    BY <1>1, Zenon DEF Event
  <2>3. acks[Event(w)] <= acks'[Event(w)] /\ fails[Event(w)] <= fails'[Event(w)]
    BY <2>1, Zenon DEF Grows
  <2>4. queue'[job[w]] # "absent" /\ attempt'[job[w]] = attempt[job[w]]
    BY <2>1, Zenon DEF Grows
  <2>5. Malformed' = Malformed /\ FailOpen' = FailOpen /\ Tiers' = Tiers
    BY Zenon DEF Grows, Malformed, FailOpen, Tiers
  <2>6. PICK m \in Messages : m = job[w] /\ m = job'[w]
    BY <1>1, <2>1, Zenon
  <2>7. /\ Hopeless(m) => Hopeless(m)'
        /\ HasCopy(m) => HasCopy(m)'
    BY <2>1, <2>6, HopelessStays, Zenon DEF IInv
  <2>8. /\ result'[w] = "reject" => Hopeless(job[w])'
        /\ result'[w] = "move" => HasCopy(job[w])'
    BY <1>1, <1>3, <2>1, <2>6, <2>7, Zenon DEF WorkerOK, Hopeless, HasCopy
  <2>9. /\ acks[Event(w)] \in Nat /\ acks'[Event(w)] \in Nat /\ tries[w] \in Nat
        /\ fails[Event(w)] \in Nat /\ fails'[Event(w)] \in Nat
    BY <2>1, Zenon DEF IInv, ConsumerTypeOK
  <2>10. QED
    BY <1>1, <1>3, <2>1, <2>2, <2>3, <2>4, <2>5, <2>8, <2>9, SMTT(30) DEF WorkerOK
<1>4. QED
  BY <1>2, <1>3, Zenon

\* What the broker concluded stays true while it concludes nothing new.
LEMMA BrokerStays ==
    ASSUME IInv, ConsumerTypeOK', Grows, NEW m \in Messages,
           queue'[m] = queue[m] \/ queue'[m] \in {"ready", "unacked"}, attempt'[m] = attempt[m]
    PROVE  BrokerOK(m)'
<1>1. EventOf[m] \in Keys
  BY ConsumerAssumption, Zenon
<1>2. Tiers' = Tiers /\ Malformed' = Malformed /\ acks[EventOf[m]] <= acks'[EventOf[m]]
  BY <1>1, Zenon DEF Grows, Tiers, Malformed
<1>3. acks[EventOf[m]] \in Nat /\ acks'[EventOf[m]] \in Nat /\ BrokerOK(m) /\ ConsumerTypeOK
  BY <1>1, Zenon DEF IInv, ConsumerTypeOK
<1>4. CASE queue'[m] \in {"ready", "unacked"}
  BY <1>2, <1>3, <1>4, Zenon DEF BrokerOK
<1>5. CASE queue'[m] = queue[m]
  BY <1>2, <1>3, <1>5, HopelessStays DEF BrokerOK
<1>6. QED
  BY <1>4, <1>5, Zenon

\* No step makes a conclusion of the broker false.
LEMMA StepBroker == IInv /\ [Next]_vars => \A m \in Messages : BrokerOK(m)'
<1> SUFFICES ASSUME IInv, [Next]_vars, NEW m \in Messages PROVE BrokerOK(m)'
  OBVIOUS
<1> USE DEF brokerVars, history
<1> ConsumerTypeOK /\ ConsumerTypeOK' /\ Grows
  BY StepTyped, StepGrows, Zenon DEF IInv
<1> Malformed' = Malformed /\ Tiers' = Tiers /\ Tiers \in Nat
  BY DeployTyped, Zenon DEF Grows, Malformed, Tiers
<1>1. CASE queue'[m] = queue[m] /\ attempt'[m] = attempt[m]
  BY <1>1, BrokerStays, Zenon
<1>2. CASE queue'[m] \in {"ready", "unacked"} /\ attempt'[m] = attempt[m]
  BY <1>2, BrokerStays, Zenon
<1>3. ASSUME NEW w \in Workers, NEW c \in Messages, Deliver(w, c) PROVE BrokerOK(m)'
  BY <1>1, <1>2, <1>3, Zenon DEF Deliver, ConsumerTypeOK
<1>4. ASSUME NEW w \in Workers, dispatchDelayedRequeue(w) PROVE BrokerOK(m)'
  <2>1. job[w] \in Messages
    BY <1>4, Busy, Zenon DEF dispatchDelayedRequeue
  <2>2. CASE UNCHANGED <<queue, attempt>>
    BY <1>1, <2>2, Zenon
  <2>3. CASE PublishCopy(job[w]) /\ attempt[job[w]] <= Tiers
    <3>1. PICK c \in Messages : /\ queue' = [queue EXCEPT ![c] = "delayed"]
                                /\ attempt' = [attempt EXCEPT ![c] = attempt[job[w]] + 1]
      BY <2>1, <2>3, CopyPublished, Zenon
    <3>2. CASE m # c
      BY <1>1, <3>1, <3>2, Zenon DEF ConsumerTypeOK
    <3>3. CASE m = c
      <4>1. queue'[m] = "delayed" /\ attempt'[m] = attempt[job[w]] + 1 /\ attempt[job[w]] \in Nat
        BY <2>1, <3>1, <3>3, Zenon DEF ConsumerTypeOK
      <4>2. QED
        BY <2>3, <4>1 DEF BrokerOK
    <3>4. QED
      BY <3>2, <3>3, Zenon
  <2>4. QED
    BY <1>4, <2>2, <2>3, Zenon DEF dispatchDelayedRequeue, exhaustDelayBudget,
       republishToDelayTier, failClosedDelayPublish
<1>5. ASSUME NEW w \in Workers, TellBroker(w) PROVE BrokerOK(m)'
  <2>1. CASE carrier[job[w]] = w /\ job[w] = m
    <3>1. /\ pc[w] = "broker" /\ queue'[m] = Place(result[w])
          /\ UNCHANGED <<attempt, acks, fails, refused>>
      BY <1>5, <2>1, Zenon DEF TellBroker, ConsumerTypeOK
    <3>2. WorkerOK(w) /\ BrokerOK(m) /\ result[w] \in Results \ {"none"} /\ queue[m] # "absent"
      BY <2>1, <3>1, Busy, Zenon DEF IInv, WorkerOK, ConsumerTypeOK
    <3>3. /\ queue'[m] = "acked" => result[w] = "ack"
          /\ queue'[m] = "moved" => result[w] = "move"
          /\ queue'[m] = "dead" => result[w] = "reject"
          /\ queue'[m] = "stranded" => result[w] = "strand"
      BY <3>1, <3>2, PlaceTyped, Zenon
    <3>4. /\ Hopeless(m) => Hopeless(m)'
          /\ HasCopy(m) => HasCopy(m)'
      BY <3>2, HopelessStays, Zenon
    <3>5. QED
      BY <2>1, <3>1, <3>2, <3>3, <3>4, Zenon DEF WorkerOK, BrokerOK, Event
  <2>2. CASE ~(carrier[job[w]] = w /\ job[w] = m)
    BY <1>1, <1>5, <2>2, Zenon DEF TellBroker, ConsumerTypeOK
  <2>3. QED
    BY <2>1, <2>2, Zenon
<1>6. ASSUME NEW w \in Workers, Crash(w) PROVE BrokerOK(m)'
  BY <1>1, <1>2, <1>6, Zenon DEF Crash, ConsumerTypeOK
<1>7. ASSUME NEW c \in Messages, Drop(c) \/ DelayExpires(c) PROVE BrokerOK(m)'
  BY <1>1, <1>2, <1>7, Zenon DEF Drop, DelayExpires, ConsumerTypeOK
<1>8. ASSUME NEW w \in Workers,
             \/ Claim(w) \/ ClaimError(w) \/ BackoffAborted(w) \/ Renew(w) \/ CommitSettlement(w)
             \/ CommitError(w) \/ ReleaseSettlement(w) \/ ReleaseError(w) \/ Cancel(w)
             \/ HandlerAcks(w) \/ HandlerRejects(w) \/ HandlerFails(w)
      PROVE  UNCHANGED <<queue, attempt>>
  BY <1>8, Zenon DEF Claim, ClaimError, BackoffAborted, Renew, CommitSettlement, CommitError,
              ReleaseSettlement, ReleaseError, Cancel, HandlerAcks, HandlerRejects, HandlerFails
<1>9. ASSUME NEW k \in Keys, LeaseLapses(k) PROVE UNCHANGED <<queue, attempt>>
  BY <1>9, Zenon DEF LeaseLapses
<1>10. QED
  BY <1>1, <1>3, <1>4, <1>5, <1>6, <1>7, <1>8, <1>9, Zenon DEF Next, WorkerStep, Quiescent, vars

\* The done mark is the work of a goroutine in Commit that holds the lease.
LEMMA DoneSet ==
    ASSUME IInv, [Next]_vars, NEW k \in Keys, mark[k] # "done", mark'[k] = "done"
    PROVE  \E w \in Workers : /\ owner[k] = w
                              /\ pc[w] = "commit" /\ pc'[w] # "commit"
                              /\ Event(w) = k /\ result[w] = "ack"
<1> USE DEF claimerVars
<1> ConsumerTypeOK
  BY Zenon DEF IInv
<1>1. ASSUME NEW w \in Workers, CommitSettlement(w) \/ CommitError(w)
      PROVE  /\ owner[k] = w /\ Event(w) = k
             /\ pc[w] = "commit" /\ pc'[w] # "commit" /\ result[w] = "ack"
  <2>1. pc[w] = "commit" /\ pc'[w] # "commit"
    BY <1>1, Zenon DEF CommitSettlement, CommitError, CommitFails, Goto, ConsumerTypeOK
  <2>2. Commit(Event(w), w) \/ UNCHANGED claimerVars
    BY <1>1, Zenon DEF CommitSettlement, CommitError
  <2>3. owner[k] = w /\ Event(w) = k
    BY <2>2, Zenon DEF Commit, Holds, Set, ConsumerTypeOK
  <2>4. result[w] = "ack"
    BY <2>1, Zenon DEF IInv, WorkerOK
  <2>5. QED
    BY <2>1, <2>3, <2>4, Zenon
<1>2. ASSUME NEW w \in Workers,
             \/ Claim(w) \/ ClaimError(w) \/ BackoffAborted(w) \/ Renew(w) \/ Crash(w)
             \/ ReleaseSettlement(w) \/ ReleaseError(w) \/ Cancel(w)
      PROVE  FALSE
  <2>1. \/ UNCHANGED mark \/ Release(Event(w), w) \/ Extend(Event(w), w)
        \/ Acquire(Event(w), w) \/ Acquire(Event(w), Nobody)
    BY <1>2, Zenon DEF Claim, ClaimError, BackoffAborted, Renew, Crash, ReleaseSettlement,
       ReleaseError, Cancel, Forsake
  <2>2. QED
    BY <2>1, Zenon DEF Release, Extend, Acquire, Set, ConsumerTypeOK
<1>3. ASSUME NEW w \in Workers,
             \/ HandlerAcks(w) \/ HandlerRejects(w) \/ HandlerFails(w) \/ TellBroker(w)
             \/ dispatchDelayedRequeue(w) \/ \E m \in Messages : Deliver(w, m)
      PROVE  FALSE
  BY <1>3, Zenon DEF HandlerAcks, HandlerRejects, HandlerFails, TellBroker,
     dispatchDelayedRequeue, Deliver
<1>4. ASSUME NEW j \in Keys, LeaseLapses(j) PROVE FALSE
  BY <1>4, Zenon DEF LeaseLapses, Lapse, Set, ConsumerTypeOK
<1>5. QED
  BY <1>1, <1>2, <1>3, <1>4, Zenon DEF Next, WorkerStep, Drop, DelayExpires, Quiescent, vars

\* A done mark stands for a success.
LEMMA StepDone == IInv /\ [Next]_vars => DoneWasAcked'
<1> SUFFICES ASSUME IInv, [Next]_vars, NEW k \in Keys, mark'[k] = "done" PROVE acks'[k] > 0
  BY Zenon DEF DoneWasAcked
<1>1. acks[k] <= acks'[k] /\ acks[k] \in Nat /\ acks'[k] \in Nat
  BY StepGrows, StepTyped, Zenon DEF Grows, IInv, ConsumerTypeOK
<1>2. acks[k] > 0
  <2>1. CASE mark[k] = "done"
    BY <2>1, Zenon DEF IInv, DoneWasAcked
  <2>2. CASE mark[k] # "done"
    BY <2>2, DoneSet, Zenon DEF IInv, WorkerOK
  <2>3. QED
    BY <2>1, <2>2, Zenon
<1>3. QED
  BY <1>1, <1>2

----------------------------------------------------------------------------
(* What each step leaves true of the goroutine that takes it, of the other     *)
(* goroutines, and of the leases they own.                                     *)

\* A goroutine's step is its own.
LEMMA OthersStay ==
    ASSUME IInv, NEW w \in Workers, NEW v \in Workers, v # w,
           \/ WorkerStep(w) \/ ClaimError(w) \/ BackoffAborted(w) \/ Renew(w) \/ CommitError(w)
           \/ ReleaseError(w) \/ Cancel(w) \/ Crash(w)
    PROVE  Local(v)' = Local(v)
<1> ConsumerTypeOK
  BY Zenon DEF IInv
<1>1. ASSUME NEW r \in Results, Return(w, r)
      PROVE  pc'[v] = pc[v] /\ tries'[v] = tries[v] /\ result'[v] = result[v]
  BY <1>1, ReturnMoves DEF ConsumerTypeOK
<1>2. ASSUME Idle(w) PROVE Local(v)' = Local(v)
  BY <1>2, Zenon DEF Idle, Goto, Local, ConsumerTypeOK
<1>3. ASSUME NEW m \in Messages, Deliver(w, m) PROVE Local(v)' = Local(v)
  BY <1>3, Zenon DEF Deliver, Goto, Local, ConsumerTypeOK
<1>4. CASE Claim(w)
  BY <1>1, <1>4, Zenon DEF Claim, Goto, Local, ConsumerTypeOK, Results
<1>5. CASE ClaimError(w)
  BY <1>1, <1>5, Zenon DEF ClaimError, Goto, Local, ConsumerTypeOK, Results
<1>6. CASE BackoffAborted(w) \/ HandlerAcks(w) \/ HandlerRejects(w)
  BY <1>1, <1>6, Zenon DEF BackoffAborted, HandlerAcks, HandlerRejects, Local, Results
<1>7. CASE HandlerFails(w)
  BY <1>1, <1>7, Zenon DEF HandlerFails, Local, ConsumerTypeOK, Results
<1>8. CASE Renew(w) \/ Cancel(w)
  BY <1>8, Zenon DEF Renew, Cancel, Local, ConsumerTypeOK
<1>9. CASE CommitSettlement(w) \/ CommitError(w)
  BY <1>9, Zenon DEF CommitSettlement, CommitError, CommitFails, Goto, Local, ConsumerTypeOK
<1>10. CASE ReleaseSettlement(w) \/ ReleaseError(w)
  BY <1>2, <1>10, Zenon DEF ReleaseSettlement, ReleaseError, AfterRelease, Goto, Local,
     ConsumerTypeOK
<1>11. CASE dispatchDelayedRequeue(w)
  BY <1>11, Zenon DEF dispatchDelayedRequeue, exhaustDelayBudget, republishToDelayTier,
                     failClosedDelayPublish, Goto, Local, ConsumerTypeOK
<1>12. CASE TellBroker(w)
  BY <1>2, <1>12, Zenon DEF TellBroker, Goto, Local, ConsumerTypeOK
<1>13. CASE Crash(w)
  BY <1>2, <1>13, Zenon DEF Crash
<1>14. QED
  BY <1>3, <1>4, <1>5, <1>6, <1>7, <1>8, <1>9, <1>10, <1>11, <1>12, <1>13, Zenon DEF WorkerStep

\* A verdict of Wrap that is justified leaves the goroutine in order.
LEMMA ReturnOK ==
    ASSUME IInv, ConsumerTypeOK', Grows, NEW w \in Workers, pc[w] \in {"claim", "handle"},
           NEW r \in {"ack", "requeue", "reject"}, Return(w, r), job' = job,
           r = "ack" => acks'[Event(w)] > 0,
           r = "reject" => Hopeless(job[w])'
    PROVE  WorkerOK(w)'
<1>1. PICK x \in {"commit", "delay", "broker"} :
            /\ pc' = [pc EXCEPT ![w] = x]
            /\ x = "commit" <=> r = "ack" /\ receipt[w]
            /\ x = "delay" => r = "requeue" /\ Tiers > 0
            /\ result' = [result EXCEPT ![w] = r]
            /\ tries' = [tries EXCEPT ![w] = 0]
  BY ReturnMoves DEF Results
<1>2. pc'[w] = x /\ result'[w] = r /\ tries'[w] = 0
  BY <1>1, Zenon DEF IInv, ConsumerTypeOK
<1>3. job[w] \in Messages /\ job[w] \notin Malformed /\ queue[job[w]] # "absent"
  BY Busy, Zenon DEF IInv, WorkerOK
<1>4. queue'[job[w]] # "absent" /\ Malformed' = Malformed /\ Tiers' = Tiers /\ Event(w)' = Event(w)
  BY <1>3, Zenon DEF Grows, Malformed, Tiers, Event
<1>5. QED
  BY <1>1, <1>2, <1>3, <1>4, Zenon DEF WorkerOK

\* A goroutine that puts its message down believes nothing.
LEMMA WorkerIdle ==
    ASSUME IInv, ConsumerTypeOK, ConsumerTypeOK', Grows,
           Malformed' = Malformed, FailOpen' = FailOpen, Tiers' = Tiers,
           NEW w \in Workers, Idle(w)
    PROVE  WorkerOK(w)'
BY Zenon DEF Idle, Goto, WorkerOK, ConsumerTypeOK

\* A delivered message is believed only to be there.
LEMMA WorkerDelivers ==
    ASSUME IInv, ConsumerTypeOK, ConsumerTypeOK', Grows,
           Malformed' = Malformed, FailOpen' = FailOpen, Tiers' = Tiers,
           NEW w \in Workers, NEW m \in Messages, Deliver(w, m)
    PROVE  WorkerOK(w)'
<1>1. /\ job'[w] = m /\ queue'[m] = "unacked" /\ tries'[w] = 0
      /\ \/ m \notin Malformed /\ pc'[w] = "claim" /\ result'[w] = "none"
         \/ m \in Malformed /\ pc'[w] = "broker" /\ result'[w] = "reject"
  BY DEF Deliver, Goto, IInv, WorkerOK, ConsumerTypeOK
<1>2. QED
  BY <1>1, Zenon DEF WorkerOK, Hopeless

\* What a goroutine believes after its claim is answered.
LEMMA WorkerClaims ==
    ASSUME IInv, ConsumerTypeOK, ConsumerTypeOK', Grows,
           Malformed' = Malformed, FailOpen' = FailOpen, Tiers' = Tiers,
           NEW w \in Workers, Claim(w)
    PROVE  WorkerOK(w)'
<1>1. pc[w] = "claim" /\ job' = job /\ Event(w) \in Keys /\ job[w] \in Messages
      /\ queue' = queue /\ fails' = fails /\ acks' = acks
  BY Busy, Zenon DEF Claim, brokerVars, history
<1>2. CASE ClaimDone(Event(w)) /\ Return(w, "ack")
  <2>1. acks'[Event(w)] > 0
    BY <1>1, <1>2, Zenon DEF IInv, DoneWasAcked, ClaimDone
  <2>2. QED
    BY <1>1, <1>2, <2>1, ReturnOK, Zenon
<1>3. CASE Return(w, "requeue")
  BY <1>1, <1>3, ReturnOK, Zenon
<1>4. CASE tries' = [tries EXCEPT ![w] = 0] /\ Goto(w, "handle") /\ UNCHANGED result
  <2>1. pc'[w] = "handle" /\ tries'[w] = 0 /\ result'[w] = result[w] /\ result[w] \in Results
    BY <1>4, Zenon DEF Goto, ConsumerTypeOK
  <2>2. WorkerOK(w) /\ job'[w] = job[w] /\ Event(w)' = Event(w) /\ fails[Event(w)] \in Nat
    BY <1>1, Zenon DEF IInv, Event, ConsumerTypeOK
  <2>3. /\ result'[w] = "reject" => Hopeless(job[w])'
        /\ result'[w] = "move" => HasCopy(job[w])'
        /\ result'[w] = "strand" => attempt'[job[w]] <= Tiers'
    BY <1>1, <2>1, <2>2, Zenon DEF Claim, WorkerOK, Hopeless, HasCopy, brokerVars, history
  <2>4. QED
    BY <1>1, <2>1, <2>2, <2>3 DEF WorkerOK
<1>5. QED
  BY <1>2, <1>3, <1>4, Zenon DEF Claim

\* What it believes after its claim failed.
LEMMA WorkerClaimError ==
    ASSUME IInv, ConsumerTypeOK, ConsumerTypeOK', Grows,
           Malformed' = Malformed, FailOpen' = FailOpen, Tiers' = Tiers,
           NEW w \in Workers, ClaimError(w)
    PROVE  WorkerOK(w)'
<1>1. pc[w] = "claim" /\ job' = job /\ Event(w) \in Keys /\ job[w] \in Messages
      /\ UNCHANGED <<queue, attempt, fails, acks, refused>>
  BY Busy, Zenon DEF ClaimError, brokerVars
<1>2. CASE Return(w, "requeue")
  BY <1>1, <1>2, ReturnOK, Zenon
<1>3. CASE /\ UNCHANGED result
           /\ \/ FailOpen /\ Goto(w, "handle") /\ UNCHANGED tries
              \/ ~FailOpen /\ UNCHANGED pc
  <2>1. /\ result'[w] = result[w] /\ result[w] \in Results
        /\ \/ pc'[w] = "handle" /\ FailOpen /\ tries'[w] = tries[w]
           \/ pc'[w] = "claim" /\ ~FailOpen
    BY <1>1, <1>3, Zenon DEF Goto, ConsumerTypeOK
  <2>2. WorkerOK(w) /\ job'[w] = job[w] /\ Event(w)' = Event(w) /\ fails[Event(w)] \in Nat
    BY <1>1, Zenon DEF IInv, Event, ConsumerTypeOK
  <2>3. /\ result'[w] = "reject" => Hopeless(job[w])'
        /\ result'[w] = "move" => HasCopy(job[w])'
        /\ result'[w] = "strand" => attempt'[job[w]] <= Tiers'
    BY <1>1, <2>1, <2>2, Zenon DEF WorkerOK, Hopeless, HasCopy
  <2>4. QED
    BY <1>1, <2>1, <2>2, <2>3 DEF WorkerOK
<1>4. QED
  BY <1>2, <1>3, Zenon DEF ClaimError

\* What it believes after its wait was aborted.
LEMMA WorkerBackoff ==
    ASSUME IInv, ConsumerTypeOK, ConsumerTypeOK', Grows,
           Malformed' = Malformed, FailOpen' = FailOpen, Tiers' = Tiers,
           NEW w \in Workers, BackoffAborted(w)
    PROVE  WorkerOK(w)'
BY ReturnOK, Zenon DEF BackoffAborted

\* What it believes after the handler succeeded.
LEMMA WorkerAcks ==
    ASSUME IInv, ConsumerTypeOK, ConsumerTypeOK', Grows,
           Malformed' = Malformed, FailOpen' = FailOpen, Tiers' = Tiers,
           NEW w \in Workers, HandlerAcks(w)
    PROVE  WorkerOK(w)'
<1>1. Event(w) \in Keys
  BY Busy, Zenon DEF HandlerAcks
<1>2. acks'[Event(w)] > 0
  BY <1>1 DEF HandlerAcks, ConsumerTypeOK
<1>3. PICK r \in {"ack", "requeue"} : Return(w, r)
  BY Zenon DEF HandlerAcks
<1>4. QED
  BY <1>2, <1>3, ReturnOK, Zenon DEF HandlerAcks

\* What it believes after the handler rejected the event.
LEMMA WorkerRejects ==
    ASSUME IInv, ConsumerTypeOK, ConsumerTypeOK', Grows,
           Malformed' = Malformed, FailOpen' = FailOpen, Tiers' = Tiers,
           NEW w \in Workers, HandlerRejects(w)
    PROVE  WorkerOK(w)'
<1>1. Hopeless(job[w])'
  BY Zenon DEF HandlerRejects, Hopeless, Event
<1>2. QED
  BY <1>1, ReturnOK, Zenon DEF HandlerRejects

\* What it believes after the handler failed: a message whose tries are used up is
\* hopeless.
LEMMA WorkerFails ==
    ASSUME IInv, ConsumerTypeOK, ConsumerTypeOK', Grows,
           Malformed' = Malformed, FailOpen' = FailOpen, Tiers' = Tiers,
           NEW w \in Workers, HandlerFails(w)
    PROVE  WorkerOK(w)'
<1>1. /\ pc[w] = "handle" /\ job' = job /\ Event(w) \in Keys /\ job[w] \in Messages
      /\ UNCHANGED <<queue, attempt, acks, refused>>
  BY Busy, Zenon DEF HandlerFails, brokerVars
<1>2. /\ fails'[Event(w)] = fails[Event(w)] + 1 /\ fails[Event(w)] \in Nat /\ tries[w] \in Nat
      /\ tries[w] <= fails[Event(w)]
  BY <1>1, Zenon DEF HandlerFails, ConsumerTypeOK, IInv, WorkerOK
<1>3. CASE Return(w, "requeue")
  BY <1>1, <1>3, ReturnOK, Zenon
<1>4. CASE Tiers = 0 /\ tries[w] + 1 = RetryCount /\ Return(w, "reject")
  <2>1. Hopeless(job[w])'
    BY <1>1, <1>2, <1>4, SMTT(30) DEF Hopeless, Event
  <2>2. QED
    BY <1>1, <1>4, <2>1, ReturnOK, Zenon
<1>5. CASE tries' = [tries EXCEPT ![w] = @ + 1] /\ UNCHANGED <<pc, result>>
  <2>1. tries'[w] = tries[w] + 1 /\ WorkerOK(w) /\ Event(w)' = Event(w)
    BY <1>1, <1>5, Zenon DEF ConsumerTypeOK, IInv, Event
  <2>2. /\ result'[w] = "reject" => Hopeless(job[w])'
        /\ result'[w] = "move" => HasCopy(job[w])'
    <3>1. PICK m \in Messages : m = job[w] /\ m = job'[w] /\ queue[m] # "absent"
      BY <1>1, Busy, Zenon
    <3>2. /\ Hopeless(m) => Hopeless(m)'
          /\ HasCopy(m) => HasCopy(m)'
      BY <3>1, HopelessStays, Zenon
    <3>3. QED
      BY <1>1, <1>5, <2>1, <3>1, <3>2, Zenon DEF WorkerOK, Hopeless, HasCopy
  <2>3. QED
    BY <1>1, <1>2, <1>5, <2>1, <2>2, SMTT(30) DEF WorkerOK
<1>6. QED
  BY <1>3, <1>4, <1>5, Zenon DEF HandlerFails

\* What it believes after the commit, or after the commit failed.
LEMMA WorkerCommits ==
    ASSUME IInv, ConsumerTypeOK, ConsumerTypeOK', Grows,
           Malformed' = Malformed, FailOpen' = FailOpen, Tiers' = Tiers,
           NEW w \in Workers, CommitSettlement(w) \/ CommitError(w)
    PROVE  WorkerOK(w)'
<1>1. /\ pc[w] = "commit" /\ job' = job /\ Event(w) \in Keys /\ job[w] \in Messages
      /\ UNCHANGED <<queue, attempt, acks, fails, refused>>
  BY Busy, Zenon DEF CommitSettlement, CommitError, brokerVars, history
<1>2. \/ pc'[w] = "broker" /\ result'[w] = result[w]
      \/ pc'[w] = "commitFailed" /\ result'[w] = "nack"
  BY DEF CommitSettlement, CommitError, CommitFails, Goto, ConsumerTypeOK
<1>3. WorkerOK(w) /\ Event(w)' = Event(w)
  BY <1>1, Zenon DEF IInv, Event
<1>4. QED
  BY <1>1, <1>2, <1>3, Zenon DEF WorkerOK

\* What it believes after the release.
LEMMA WorkerReleases ==
    ASSUME IInv, ConsumerTypeOK, ConsumerTypeOK', Grows,
           Malformed' = Malformed, FailOpen' = FailOpen, Tiers' = Tiers,
           NEW w \in Workers, ReleaseSettlement(w) \/ ReleaseError(w)
    PROVE  WorkerOK(w)'
<1>1. CASE Idle(w)
  BY WorkerIdle, <1>1, Zenon
<1>2. CASE /\ pc[w] = "commitFailed" /\ Goto(w, "broker") /\ UNCHANGED <<job, tries, ctx, result>>
  <2>1. /\ job[w] \in Messages /\ UNCHANGED <<queue, attempt, acks, fails, refused>>
    BY <1>2, Busy, Zenon DEF ReleaseSettlement, ReleaseError, brokerVars, history
  <2>2. WorkerOK(w) /\ Event(w)' = Event(w) /\ pc'[w] = "broker"
    BY <1>2, Zenon DEF IInv, Event, Goto, ConsumerTypeOK
  <2>3. /\ Hopeless(job[w])' <=> Hopeless(job[w])
        /\ HasCopy(job[w])' <=> HasCopy(job[w])
    BY <1>2, <2>1, Zenon DEF Hopeless, HasCopy
  <2>4. QED
    BY <1>2, <2>1, <2>2, <2>3, Zenon DEF WorkerOK
<1>3. QED
  BY <1>1, <1>2, Zenon DEF ReleaseSettlement, ReleaseError, AfterRelease

\* What it believes after a requeue took the delay tiers: a moved message has a copy,
\* an exhausted one is hopeless.
LEMMA WorkerDelays ==
    ASSUME IInv, ConsumerTypeOK, ConsumerTypeOK', Grows,
           Malformed' = Malformed, FailOpen' = FailOpen, Tiers' = Tiers,
           NEW w \in Workers, dispatchDelayedRequeue(w)
    PROVE  WorkerOK(w)'
<1>1. /\ pc[w] = "delay" /\ job' = job /\ Event(w) \in Keys /\ job[w] \in Messages
      /\ queue[job[w]] # "absent" /\ pc'[w] = "broker"
  BY Busy, Zenon DEF dispatchDelayedRequeue, Goto, ConsumerTypeOK
<1>2. /\ Tiers > 0 /\ Tiers \in Nat /\ job[w] \notin Malformed
      /\ attempt[job[w]] \in Nat /\ attempt[job[w]] <= Tiers + 1
  BY <1>1, DeployTyped, Zenon DEF IInv, WorkerOK, BrokerOK, ConsumerTypeOK
<1>3. queue'[job[w]] # "absent" /\ attempt'[job[w]] = attempt[job[w]]
  BY <1>1, Zenon DEF Grows
<1>4. CASE exhaustDelayBudget(w)
  <2>1. result'[w] = "reject"
    BY <1>4, Zenon DEF exhaustDelayBudget, ConsumerTypeOK
  <2>2. attempt[job[w]] = Tiers + 1
    BY <1>2, <1>4 DEF exhaustDelayBudget
  <2>3. Hopeless(job[w])'
    BY <1>1, <1>2, <1>3, <2>2, Zenon DEF Hopeless
  <2>4. QED
    BY <1>1, <1>2, <1>3, <2>1, <2>3, Zenon DEF WorkerOK
<1>5. CASE republishToDelayTier(w)
  <2>1. result'[w] = "move"
    BY <1>5, Zenon DEF republishToDelayTier, ConsumerTypeOK
  <2>2. PICK c \in Messages : /\ queue[c] = "absent" /\ EventOf[c] = EventOf[job[w]]
                              /\ queue' = [queue EXCEPT ![c] = "delayed"]
                              /\ attempt' = [attempt EXCEPT ![c] = attempt[job[w]] + 1]
    BY <1>1, <1>5, CopyPublished, Zenon DEF republishToDelayTier
  <2>3. HasCopy(job[w])'
    BY <1>1, <1>3, <2>2, Zenon DEF HasCopy, ConsumerTypeOK
  <2>4. QED
    BY <1>1, <1>2, <1>3, <2>1, <2>3, Zenon DEF WorkerOK
<1>6. CASE failClosedDelayPublish(w)
  <2>1. result'[w] = "strand" /\ attempt[job[w]] <= Tiers
    BY <1>6, Zenon DEF failClosedDelayPublish, ConsumerTypeOK
  <2>2. QED
    BY <1>1, <1>2, <1>3, <2>1, Zenon DEF WorkerOK
<1>7. QED
  BY <1>4, <1>5, <1>6, Zenon DEF dispatchDelayedRequeue

\* What it believes after it told the broker.
LEMMA WorkerTells ==
    ASSUME IInv, ConsumerTypeOK, ConsumerTypeOK', Grows,
           Malformed' = Malformed, FailOpen' = FailOpen, Tiers' = Tiers,
           NEW w \in Workers, TellBroker(w)
    PROVE  WorkerOK(w)'
<1>1. CASE Idle(w)
  BY WorkerIdle, <1>1, Zenon
<1>2. CASE Goto(w, "release") /\ UNCHANGED <<job, tries, receipt, ctx, result>>
  <2>1. /\ job[w] \in Messages /\ queue[job[w]] # "absent" /\ UNCHANGED <<attempt, acks, fails, refused>>
        /\ pc[w] = "broker" /\ pc'[w] = "release"
    BY <1>2, Busy, Zenon DEF TellBroker, Goto, history, ConsumerTypeOK
  <2>2. WorkerOK(w) /\ Event(w)' = Event(w) /\ queue'[job[w]] # "absent"
    BY <1>2, <2>1, Zenon DEF IInv, Event, Grows
  <2>3. /\ Hopeless(job[w]) => Hopeless(job[w])'
        /\ HasCopy(job[w]) => HasCopy(job[w])'
    BY <1>2, <2>1, Zenon DEF Hopeless, HasCopy, Grows
  <2>4. QED
    BY <1>2, <2>1, <2>2, <2>3, Zenon DEF WorkerOK
<1>3. QED
  BY <1>1, <1>2, Zenon DEF TellBroker

\* No step, of its own or of another, makes a goroutine's belief false.
LEMMA StepWorkers == IInv /\ [Next]_vars => \A v \in Workers : WorkerOK(v)'
<1> SUFFICES ASSUME IInv, [Next]_vars PROVE \A v \in Workers : WorkerOK(v)'
  OBVIOUS
<1> ConsumerTypeOK /\ ConsumerTypeOK' /\ Grows
  BY StepTyped, StepGrows, Zenon DEF IInv
<1> Malformed' = Malformed /\ FailOpen' = FailOpen /\ Tiers' = Tiers
  BY Zenon DEF Grows, Malformed, FailOpen, Tiers
<1>1. ASSUME NEW w \in Workers, Renew(w) \/ Cancel(w) PROVE WorkerOK(w)'
  BY <1>1, WorkerStays, Zenon DEF Renew, Cancel
<1>2. ASSUME NEW w \in Workers, NEW v \in Workers, v # w,
              \/ WorkerStep(w) \/ ClaimError(w) \/ BackoffAborted(w) \/ Renew(w) \/ CommitError(w)
              \/ ReleaseError(w) \/ Cancel(w) \/ Crash(w)
       PROVE  WorkerOK(v)'
  <2>1. Local(v)' = Local(v)
    BY <1>2, OthersStay, Zenon
  <2>2. QED
    BY <2>1, WorkerStays, Zenon DEF Local
<1>3. ASSUME NEW w \in Workers,
              \/ WorkerStep(w) \/ ClaimError(w) \/ BackoffAborted(w) \/ Renew(w) \/ CommitError(w)
              \/ ReleaseError(w) \/ Cancel(w) \/ Crash(w)
       PROVE  WorkerOK(w)'
  <2>1. CASE \/ \E m \in Messages : Deliver(w, m)
             \/ Claim(w) \/ ClaimError(w) \/ BackoffAborted(w)
    BY <2>1, WorkerDelivers, WorkerClaims, WorkerClaimError, WorkerBackoff, Zenon
  <2>2. CASE HandlerAcks(w) \/ HandlerRejects(w) \/ HandlerFails(w)
    BY <2>2, WorkerAcks, WorkerRejects, WorkerFails, Zenon
  <2>3. CASE \/ CommitSettlement(w) \/ CommitError(w) \/ ReleaseSettlement(w) \/ ReleaseError(w)
             \/ dispatchDelayedRequeue(w) \/ TellBroker(w)
    BY <2>3, WorkerCommits, WorkerReleases, WorkerDelays, WorkerTells, Zenon
  <2>4. CASE Crash(w)
    BY <2>4, WorkerIdle, Zenon DEF Crash
  <2>5. QED
    BY <1>1, <1>3, <2>1, <2>2, <2>3, <2>4, Zenon DEF WorkerStep
<1>4. CASE UNCHANGED <<pc, job, tries, result>>
  BY <1>4, WorkerStays, Zenon
<1>5. \/ \E w \in Workers :
           \/ WorkerStep(w) \/ ClaimError(w) \/ BackoffAborted(w) \/ Renew(w) \/ CommitError(w)
           \/ ReleaseError(w) \/ Cancel(w) \/ Crash(w)
      \/ UNCHANGED <<pc, job, tries, result>>
  BY Zenon DEF Next, Drop, DelayExpires, LeaseLapses, Quiescent, vars
<1>6. QED
  BY <1>2, <1>3, <1>4, <1>5, Zenon

\* No step tells a goroutine without a lease that it lost one.
LEMMA StepLoss == IInv /\ [Next]_vars => LossIsLate'
<1> SUFFICES ASSUME IInv, [Next]_vars, NEW v \in Workers, pc'[v] \in {"idle", "claim"}
             PROVE  ctx'[v] # "leaseLost"
  BY Zenon DEF LossIsLate
<1> ConsumerTypeOK /\ LossIsLate
  BY Zenon DEF IInv
<1>1. CASE pc'[v] = pc[v] /\ ctx'[v] = ctx[v]
  BY <1>1, Zenon DEF LossIsLate
<1>2. CASE Idle(v)
  BY <1>2, Zenon DEF Idle, ConsumerTypeOK
<1>3. ASSUME NEW r \in Results, Return(v, r) PROVE FALSE
  <2>1. PICK x \in {"commit", "delay", "broker"} : pc' = [pc EXCEPT ![v] = x]
    BY <1>3, ReturnMoves, Zenon
  <2>2. QED
    BY <2>1, Zenon DEF ConsumerTypeOK
<1>4. CASE WorkerStep(v)
  <2>1. ASSUME NEW m \in Messages, Deliver(v, m) PROVE ctx'[v] # "leaseLost"
    BY <2>1, Zenon DEF Deliver, LossIsLate
  <2>2. CASE Claim(v) \/ HandlerAcks(v) \/ HandlerRejects(v)
    BY <1>3, <2>2, Zenon DEF Claim, HandlerAcks, HandlerRejects, Goto, ConsumerTypeOK, Results
  <2>3. CASE HandlerFails(v)
    BY <1>3, <2>3, Zenon DEF HandlerFails, Results
  <2>4. CASE CommitSettlement(v) \/ dispatchDelayedRequeue(v)
    BY <2>4, Zenon DEF CommitSettlement, CommitFails, dispatchDelayedRequeue, Goto,
       ConsumerTypeOK
  <2>5. CASE ReleaseSettlement(v) \/ TellBroker(v)
    BY <1>2, <2>5, Zenon DEF ReleaseSettlement, AfterRelease, TellBroker, Goto, ConsumerTypeOK
  <2>6. QED
    BY <1>4, <2>1, <2>2, <2>3, <2>4, <2>5, Zenon DEF WorkerStep
<1>5. CASE ClaimError(v)
  BY <1>5, Zenon DEF ClaimError, LossIsLate
<1>6. CASE BackoffAborted(v) \/ Renew(v) \/ CommitError(v) \/ Cancel(v)
  BY <1>3, <1>6, Zenon DEF BackoffAborted, Renew, CommitError, CommitFails, Cancel, Goto,
                          ConsumerTypeOK, Results
<1>7. CASE ReleaseError(v) \/ Crash(v)
  BY <1>2, <1>7, Zenon DEF ReleaseError, AfterRelease, Crash, Goto, ConsumerTypeOK
<1>8. ASSUME NEW w \in Workers, v # w,
             \/ WorkerStep(w) \/ ClaimError(w) \/ BackoffAborted(w) \/ Renew(w) \/ CommitError(w)
             \/ ReleaseError(w) \/ Cancel(w) \/ Crash(w)
      PROVE  pc'[v] = pc[v] /\ ctx'[v] = ctx[v]
  BY <1>8, OthersStay, Zenon DEF Local
<1>9. \/ \E w \in Workers :
           \/ WorkerStep(w) \/ ClaimError(w) \/ BackoffAborted(w) \/ Renew(w) \/ CommitError(w)
           \/ ReleaseError(w) \/ Cancel(w) \/ Crash(w)
      \/ UNCHANGED <<pc, ctx>>
  BY Zenon DEF Next, Drop, DelayExpires, LeaseLapses, Quiescent, vars
<1>10. QED
  BY <1>1, <1>4, <1>5, <1>6, <1>7, <1>8, <1>9, Zenon

\* What a goroutine's call to the claimer does to the entries: those of other events are
\* left alone, and no other goroutine becomes an owner.
LEMMA ClaimerLocal ==
    ASSUME IInv, NEW w \in Workers, NEW k \in Keys,
           \/ WorkerStep(w) \/ ClaimError(w) \/ BackoffAborted(w) \/ Renew(w) \/ CommitError(w)
           \/ ReleaseError(w) \/ Cancel(w) \/ Crash(w)
    PROVE  /\ k # Event(w) => mark'[k] = mark[k] /\ owner'[k] = owner[k] /\ lapsed'[k] = lapsed[k]
           /\ owner'[k] \in Workers \ {w} => owner'[k] = owner[k] /\ mark'[k] = mark[k]
<1> ConsumerTypeOK /\ Nobody \notin Workers
  BY ClaimerAssumption, Zenon DEF IInv, Workers
<1>1. \/ UNCHANGED claimerVars \/ Acquire(Event(w), w) \/ Acquire(Event(w), Nobody)
      \/ Commit(Event(w), w) \/ Release(Event(w), w) \/ Extend(Event(w), w)
      \/ Forsake(Event(w), w)
  <2>1. CASE WorkerStep(w)
    BY <2>1, Zenon DEF WorkerStep, Deliver, Claim, HandlerAcks, HandlerRejects, HandlerFails,
                CommitSettlement, ReleaseSettlement, dispatchDelayedRequeue, TellBroker
  <2>2. CASE \/ ClaimError(w) \/ BackoffAborted(w) \/ Renew(w) \/ CommitError(w)
             \/ ReleaseError(w) \/ Cancel(w) \/ Crash(w)
    BY <2>2, Zenon DEF ClaimError, BackoffAborted, Renew, CommitError, ReleaseError, Cancel,
       Crash
  <2>3. QED
    BY <2>1, <2>2, Zenon
<1>2. CASE Forsake(Event(w), w)
  BY <1>2, Zenon DEF Forsake, ConsumerTypeOK
<1>3. ASSUME NEW m \in {"free", "leased", "done"}, NEW c \in {w, Nobody}, Set(Event(w), m, c)
      PROVE  /\ k # Event(w) => mark'[k] = mark[k] /\ owner'[k] = owner[k] /\ lapsed'[k] = lapsed[k]
             /\ owner'[k] \in Workers \ {w} => owner'[k] = owner[k] /\ mark'[k] = mark[k]
  <2>1. /\ k # Event(w) => mark'[k] = mark[k] /\ owner'[k] = owner[k] /\ lapsed'[k] = lapsed[k]
        /\ k = Event(w) => owner'[k] = c
    BY <1>3, Zenon DEF Set, ConsumerTypeOK
  <2>2. QED
    BY <1>3, <2>1, Zenon
<1>4. CASE UNCHANGED claimerVars
  BY <1>4, Zenon DEF claimerVars
<1>5. QED
  BY <1>1, <1>2, <1>3, <1>4, Zenon DEF Acquire, Commit, Release, Extend

\* An owner is at work on its event.
LEMMA OwnerIs ==
    ASSUME IInv, NEW k \in Keys, NEW w \in Workers, owner[k] = w
    PROVE  /\ mark[k] = "leased" /\ pc[w] \notin {"idle", "claim"} /\ receipt[w]
           /\ Event(w) = k /\ ctx[w] # "leaseLost" /\ Holds(k, w)
BY ClaimerAssumption, Zenon DEF IInv, OwnerWorks, Holds, Workers

\* Goroutine v works on event k under a lease it has not been told it lost.
Under(k, v) ==
    /\ mark[k] = "leased"
    /\ pc[v] \notin {"idle", "claim"}
    /\ receipt[v]
    /\ EventOf[job[v]] = k
    /\ ctx[v] # "leaseLost"

\* The owner of a lease, while nothing of it changes.
LEMMA OwnerStays ==
    ASSUME IInv, NEW k \in Keys, NEW v \in Workers, owner[k] = v,
           mark'[k] = mark[k], Local(v)' = Local(v)
    PROVE  Under(k, v)'
BY OwnerIs DEF Local, Event, Under

\* The owner of a lease, after a step of another goroutine.
LEMMA OwnerOthers ==
    ASSUME IInv, NEW k \in Keys, NEW v \in Workers, owner'[k] = v, NEW w \in Workers, v # w,
           \/ WorkerStep(w) \/ ClaimError(w) \/ BackoffAborted(w) \/ Renew(w) \/ CommitError(w)
           \/ ReleaseError(w) \/ Cancel(w) \/ Crash(w)
    PROVE  Under(k, v)'
<1>1. Local(v)' = Local(v)
  BY OthersStay, Zenon
<1>2. owner[k] = v /\ mark'[k] = mark[k]
  BY ClaimerLocal, Zenon
<1>3. QED
  BY <1>1, <1>2, OwnerStays, Zenon

\* The owner of a lease, after it acquired the lease.
LEMMA OwnerClaims ==
    ASSUME IInv, ConsumerTypeOK, Nobody \notin Workers, NEW k \in Keys, NEW v \in Workers,
           owner'[k] = v, Claim(v)
    PROVE  Under(k, v)'
<1>1. owner[k] # v
  BY OwnerIs, Zenon DEF Claim
<1>2. Acquire(Event(v), v) /\ receipt' = [receipt EXCEPT ![v] = TRUE] /\ Goto(v, "handle")
  BY <1>1, Zenon DEF Claim, claimerVars
<1>3. k = Event(v) /\ mark'[k] = "leased"
  BY <1>1, <1>2, Zenon DEF Acquire, Set, ConsumerTypeOK
<1>4. ctx'[v] # "leaseLost"
  BY Zenon DEF Claim, IInv, LossIsLate
<1>5. QED
  BY <1>2, <1>3, <1>4, Zenon DEF Claim, Event, Goto, ConsumerTypeOK, Under

\* A goroutine that waits for an answer to its claim owns nothing, also if the answer is
\* lost.
LEMMA OwnerClaimError ==
    ASSUME IInv, ConsumerTypeOK, Nobody \notin Workers, NEW k \in Keys, NEW v \in Workers,
           owner'[k] = v
    PROVE  ~ClaimError(v) /\ ~\E m \in Messages : Deliver(v, m)
<1>1. CASE \E m \in Messages : Deliver(v, m)
  BY <1>1, OwnerIs, Zenon DEF Deliver, claimerVars
<1>2. CASE ClaimError(v)
  <2>1. owner[k] # v
    BY <1>2, OwnerIs, Zenon DEF ClaimError
  <2>2. CASE UNCHANGED claimerVars
    BY <2>1, <2>2, Zenon DEF claimerVars
  <2>3. CASE Acquire(Event(v), Nobody)
    BY <2>1, <2>3, Zenon DEF Acquire, Set, ConsumerTypeOK
  <2>4. QED
    BY <1>2, <2>2, <2>3, Zenon DEF ClaimError
<1>3. QED
  BY <1>1, <1>2, Zenon

\* The owner of a lease, after Wrap reached its verdict.
LEMMA OwnerReturns ==
    ASSUME IInv, ConsumerTypeOK, NEW k \in Keys, NEW v \in Workers, owner'[k] = v,
           BackoffAborted(v) \/ HandlerAcks(v) \/ HandlerRejects(v) \/ HandlerFails(v)
    PROVE  Under(k, v)'
<1>1. ASSUME NEW r \in Results, Return(v, r) PROVE pc'[v] \notin {"idle", "claim"}
  <2>1. PICK x \in {"commit", "delay", "broker"} : pc' = [pc EXCEPT ![v] = x]
    BY <1>1, ReturnMoves
  <2>2. QED
    BY <2>1, Zenon DEF ConsumerTypeOK
<1>2. UNCHANGED <<mark, owner, job, receipt, ctx>>
  BY Zenon DEF BackoffAborted, HandlerAcks, HandlerRejects, HandlerFails, claimerVars
<1>3. pc'[v] \notin {"idle", "claim"}
  BY <1>1, <1>2, OwnerIs, Zenon DEF BackoffAborted, HandlerAcks, HandlerRejects, HandlerFails,
     Results
<1>4. QED
  BY <1>2, <1>3, OwnerIs, ZenonT(60) DEF Event, Under

\* The owner of a lease, after a renewal: it still holds the token.
LEMMA OwnerRenews ==
    ASSUME IInv, ConsumerTypeOK, NEW k \in Keys, NEW v \in Workers, owner'[k] = v, Renew(v)
    PROVE  Under(k, v)'
<1>1. owner[k] = v /\ mark'[k] = "leased"
  <2>1. CASE Holds(Event(v), v)
    BY <2>1, OwnerIs DEF Renew, Extend, Holds, Set, ConsumerTypeOK
  <2>2. CASE ~Holds(Event(v), v)
    BY <2>2, OwnerIs, Zenon DEF Renew, Extend, claimerVars
  <2>3. QED
    BY <2>1, <2>2, Zenon
<1>2. Event(v) = k /\ Holds(Event(v), v) /\ receipt[v] /\ pc[v] \notin {"idle", "claim"}
  BY <1>1, OwnerIs, Zenon
<1>3. UNCHANGED <<pc, job, receipt>> /\ ctx'[v] = ctx[v]
  BY <1>2, Zenon DEF Renew, ConsumerTypeOK
<1>4. QED
  BY <1>1, <1>2, <1>3, OwnerIs DEF Event, Under

\* A goroutine that settled its receipt, or died, owns no lease.
LEMMA OwnerSettles ==
    ASSUME IInv, ConsumerTypeOK, Nobody \notin Workers, NEW k \in Keys, NEW v \in Workers,
           owner'[k] = v
    PROVE  ~(CommitSettlement(v) \/ ReleaseSettlement(v) \/ ReleaseError(v) \/ Crash(v))
<1>1. CASE Commit(Event(v), v) \/ Release(Event(v), v)
  BY <1>1, OwnerIs, SMTT(30) DEF Commit, Release, Set, claimerVars, ConsumerTypeOK
<1>2. CASE Forsake(Event(v), v)
  BY <1>2, OwnerIs DEF Forsake, ConsumerTypeOK
<1>3. QED
  BY <1>1, <1>2, Zenon DEF CommitSettlement, ReleaseSettlement, ReleaseError, Crash

\* The owner of a lease, after its commit failed or between it and the broker.
LEMMA OwnerElsewhere ==
    ASSUME IInv, ConsumerTypeOK, Nobody \notin Workers, NEW k \in Keys, NEW v \in Workers,
           owner'[k] = v,
           CommitError(v) \/ dispatchDelayedRequeue(v) \/ TellBroker(v) \/ Cancel(v)
    PROVE  Under(k, v)'
<1>1. ~Commit(Event(v), v) \/ UNCHANGED claimerVars
  BY OwnerIs DEF Commit, Set, claimerVars, ConsumerTypeOK
<1>2. owner[k] = v /\ mark' = mark
  BY <1>1, Zenon DEF CommitError, dispatchDelayedRequeue, TellBroker, Cancel, claimerVars
<1>3. /\ mark[k] = "leased" /\ pc[v] \notin {"idle", "claim"} /\ receipt[v]
      /\ EventOf[job[v]] = k /\ ctx[v] # "leaseLost"
  BY <1>2, OwnerIs, Zenon DEF Event
<1>4. CASE CommitError(v)
  BY <1>2, <1>3, <1>4, Zenon DEF CommitError, CommitFails, Goto, ConsumerTypeOK, Under
<1>5. CASE dispatchDelayedRequeue(v)
  BY <1>2, <1>3, <1>5, Zenon DEF dispatchDelayedRequeue, Goto, ConsumerTypeOK, Under
<1>6. CASE TellBroker(v)
  BY <1>2, <1>3, <1>6, Zenon DEF TellBroker, Goto, ConsumerTypeOK, Under
<1>7. CASE Cancel(v)
  BY <1>2, <1>3, <1>7, Zenon DEF Cancel, ConsumerTypeOK, Under
<1>8. QED
  BY <1>4, <1>5, <1>6, <1>7, Zenon

\* No step leaves a lease with an owner that does not work under it.
LEMMA StepOwner == IInv /\ [Next]_vars => OwnerWorks'
<1> SUFFICES ASSUME IInv, [Next]_vars, NEW k \in Keys, NEW v \in Workers, owner'[k] = v
             PROVE  Under(k, v)'
  BY StepTyped DEF OwnerWorks, ConsumerTypeOK, Event, Under
<1> ConsumerTypeOK /\ Nobody \notin Workers
  BY ClaimerAssumption, Zenon DEF IInv, Workers
<1>1. ASSUME NEW j \in Keys, LeaseLapses(j) PROVE Under(k, v)'
  <2>1. owner[k] = v /\ mark'[k] = mark[k]
    BY <1>1, Zenon DEF LeaseLapses, Lapse, Set, ConsumerTypeOK
  <2>2. QED
    BY <1>1, <2>1, OwnerStays, Zenon DEF LeaseLapses, Local
<1>2. ASSUME NEW m \in Messages, Drop(m) \/ DelayExpires(m) PROVE Under(k, v)'
  BY <1>2, OwnerStays, Zenon DEF Drop, DelayExpires, claimerVars, Local
<1>3. CASE UNCHANGED vars
  BY <1>3, OwnerStays, Zenon DEF vars, claimerVars, Local
<1>4. ASSUME \/ WorkerStep(v) \/ ClaimError(v) \/ BackoffAborted(v) \/ Renew(v) \/ CommitError(v)
             \/ ReleaseError(v) \/ Cancel(v) \/ Crash(v)
      PROVE  Under(k, v)'
  BY <1>4, OwnerClaims, OwnerClaimError, OwnerReturns, OwnerRenews, OwnerSettles,
     OwnerElsewhere, Zenon DEF WorkerStep
<1>5. QED
  BY <1>1, <1>2, <1>3, <1>4, OwnerOthers, Zenon DEF Next, Quiescent

----------------------------------------------------------------------------
(* The account of faults and successes, and the theorems.                      *)

\* The account of one event.
Paid(k) == acks[k] + Cardinality(Loose(k)) <= faults[k] + (IF Rightful(k) THEN 1 ELSE 0)

\* Loose goroutines can be counted.
LEMMA LooseFinite ==
    ASSUME NEW k \in Keys
    PROVE  /\ IsFiniteSet(Loose(k)) /\ Cardinality(Loose(k)) \in Nat
           /\ IsFiniteSet(Loose(k)') /\ Cardinality(Loose(k)') \in Nat
<1>1. IsFiniteSet(Workers)
  BY ClaimerAssumption, Zenon DEF Workers
<1>2. Loose(k) \subseteq Workers /\ Loose(k)' \subseteq Workers
  BY Zenon DEF Loose
<1>3. IsFiniteSet(Loose(k)) /\ IsFiniteSet(Loose(k)')
  BY <1>1, <1>2, FS_Subset, Zenon
<1>4. QED
  BY <1>3, FS_CardinalityType, Zenon

\* Nothing is added; a right that is lost is paid for.
LEMMA KeepsAccount ==
    ASSUME IInv, ConsumerTypeOK', NEW k \in Keys, Loose(k)' \subseteq Loose(k),
           acks'[k] = acks[k],
           \/ faults'[k] = faults[k] /\ (Rightful(k) => Rightful(k)')
           \/ faults'[k] = faults[k] + 1
    PROVE  Paid(k)'
<1>1. Cardinality(Loose(k)') <= Cardinality(Loose(k))
  BY LooseFinite, FS_Subset, Zenon
<1>2. /\ acks[k] \in Nat /\ faults[k] \in Nat /\ Cardinality(Loose(k)) \in Nat
      /\ Cardinality(Loose(k)') \in Nat
  BY LooseFinite, Zenon DEF IInv, ConsumerTypeOK
<1>3. Paid(k)
  BY Zenon DEF IInv, Account, Paid
<1>4. QED
  BY <1>1, <1>2, <1>3 DEF Paid

\* A goroutine gets loose, and is paid for.
LEMMA LoosePaid ==
    ASSUME IInv, ConsumerTypeOK', NEW k \in Keys, NEW w, Loose(k)' \subseteq Loose(k) \cup {w},
           acks'[k] = acks[k], faults'[k] = faults[k] + 1, Rightful(k) => Rightful(k)'
    PROVE  Paid(k)'
<1> IsFiniteSet(Loose(k)) /\ Cardinality(Loose(k)) \in Nat
  BY LooseFinite, Zenon
<1> /\ IsFiniteSet(Loose(k) \cup {w})
      /\ Cardinality(Loose(k) \cup {w})
           = IF w \in Loose(k) THEN Cardinality(Loose(k)) ELSE Cardinality(Loose(k)) + 1
  BY FS_AddElement, Zenon
<1>1. /\ IsFiniteSet(Loose(k) \cup {w})
      /\ Cardinality(Loose(k) \cup {w}) \in Nat
      /\ Cardinality(Loose(k) \cup {w}) <= Cardinality(Loose(k)) + 1
  OBVIOUS
<1>2. Cardinality(Loose(k)') <= Cardinality(Loose(k) \cup {w})
  BY <1>1, FS_Subset, Zenon
<1>3. /\ acks[k] \in Nat /\ faults[k] \in Nat /\ Cardinality(Loose(k)) \in Nat
      /\ Cardinality(Loose(k)') \in Nat
  BY LooseFinite, Zenon DEF IInv, ConsumerTypeOK
<1>4. Paid(k)
  BY Zenon DEF IInv, Account, Paid
<1>5. QED
  BY <1>1, <1>2, <1>3, <1>4, SMTT(30) DEF Paid

\* A loose goroutine succeeds: what was paid for it pays for the success.
LEMMA LooseSucceeds ==
    ASSUME IInv, ConsumerTypeOK', NEW k \in Keys, NEW w \in Loose(k), Loose(k)' \subseteq Loose(k) \ {w},
           acks'[k] = acks[k] + 1, faults'[k] = faults[k], Rightful(k) => Rightful(k)'
    PROVE  Paid(k)'
<1>1. /\ IsFiniteSet(Loose(k) \ {w})
      /\ Cardinality(Loose(k) \ {w}) = Cardinality(Loose(k)) - 1
  BY LooseFinite, FS_RemoveElement, Zenon
<1>2. Cardinality(Loose(k)') <= Cardinality(Loose(k) \ {w})
  BY <1>1, FS_Subset, Zenon
<1>3. /\ acks[k] \in Nat /\ faults[k] \in Nat /\ Cardinality(Loose(k)) \in Nat
      /\ Cardinality(Loose(k)') \in Nat
  BY LooseFinite, Zenon DEF IInv, ConsumerTypeOK
<1>4. Paid(k)
  BY Zenon DEF IInv, Account, Paid
<1>5. QED
  BY <1>1, <1>2, <1>3, <1>4, SMTT(30) DEF Paid

\* The holder succeeds: the right was not used before.
LEMMA HolderSucceeds ==
    ASSUME IInv, ConsumerTypeOK', NEW k \in Keys, Loose(k)' \subseteq Loose(k),
           acks'[k] = acks[k] + 1, faults'[k] = faults[k], ~Rightful(k), Rightful(k)'
    PROVE  Paid(k)'
<1>1. Cardinality(Loose(k)') <= Cardinality(Loose(k))
  BY LooseFinite, FS_Subset, Zenon
<1>2. /\ acks[k] \in Nat /\ faults[k] \in Nat /\ Cardinality(Loose(k)) \in Nat
      /\ Cardinality(Loose(k)') \in Nat
  BY LooseFinite, Zenon DEF IInv, ConsumerTypeOK
<1>3. Paid(k)
  BY Zenon DEF IInv, Account, Paid
<1>4. QED
  BY <1>1, <1>2, <1>3, SMTT(30) DEF Paid

\* Steps that leave the entry of k alone, start no handler for k, and do not take its
\* owner out of Commit.
LEMMA EntryUntouched ==
    ASSUME IInv, NEW k \in Keys,
           mark'[k] = mark[k], owner'[k] = owner[k], lapsed'[k] = lapsed[k],
           ConsumerTypeOK',
           \A v \in Workers : /\ pc'[v] = "handle" /\ EventOf[job'[v]] = k
                                   => pc[v] = "handle" /\ Event(v) = k
                              /\ owner[k] = v /\ pc[v] = "commit" => pc'[v] = "commit"
    PROVE  Loose(k)' \subseteq Loose(k) /\ (Rightful(k) => Rightful(k)')
<1>1. Loose(k)' \subseteq Loose(k)
  BY Zenon DEF Loose, Event
<1>2. owner[k] \in Workers \cup {Nobody}
  BY Zenon DEF IInv, ConsumerTypeOK
<1>3. Rightful(k) => Rightful(k)'
  BY <1>2, Zenon DEF Rightful
<1>4. QED
  BY <1>1, <1>3, Zenon

\* A goroutine's step does not touch the account of another event.
LEMMA Elsewhere ==
    ASSUME IInv, NEW w \in Workers, NEW k \in Keys, pc[w] # "idle", k # Event(w),
           \/ WorkerStep(w) \/ ClaimError(w) \/ BackoffAborted(w) \/ Renew(w) \/ CommitError(w)
           \/ ReleaseError(w) \/ Cancel(w) \/ Crash(w)
    PROVE  /\ acks'[k] = acks[k] /\ faults'[k] = faults[k]
           /\ pc'[w] = "handle" => job'[w] = job[w]
<1> ConsumerTypeOK /\ Event(w) \in Keys
  BY Busy, Zenon DEF IInv
<1>1. ASSUME Fault(Event(w)) PROVE faults'[k] = faults[k]
  BY <1>1, Zenon DEF Fault, ConsumerTypeOK
<1>2. ASSUME Idle(w) PROVE pc'[w] # "handle"
  BY <1>2, Zenon DEF Idle, Goto, ConsumerTypeOK
<1>3. CASE \/ Claim(w) \/ BackoffAborted(w) \/ Renew(w) \/ CommitSettlement(w)
           \/ dispatchDelayedRequeue(w) \/ Cancel(w)
  BY <1>3, Zenon DEF Claim, BackoffAborted, Renew, CommitSettlement, dispatchDelayedRequeue,
     Cancel, history
<1>4. CASE HandlerAcks(w)
  BY <1>4, Zenon DEF HandlerAcks, ConsumerTypeOK
<1>5. CASE HandlerRejects(w) \/ HandlerFails(w)
  BY <1>5, Zenon DEF HandlerRejects, HandlerFails
<1>6. CASE ClaimError(w) \/ CommitError(w)
  BY <1>1, <1>6, Zenon DEF ClaimError, CommitError
<1>7. CASE ReleaseSettlement(w)
  BY <1>2, <1>7, Zenon DEF ReleaseSettlement, AfterRelease, history
<1>8. CASE ReleaseError(w)
  BY <1>1, <1>2, <1>8, Zenon DEF ReleaseError, AfterRelease
<1>9. CASE TellBroker(w)
  BY <1>2, <1>9, Zenon DEF TellBroker, history
<1>10. CASE Crash(w)
  BY <1>1, <1>2, <1>10, Zenon DEF Crash
<1>11. QED
  BY <1>3, <1>4, <1>5, <1>6, <1>7, <1>8, <1>9, <1>10, Zenon DEF WorkerStep, Deliver

\* The entries that lapsed or were never taken give nobody a right and hold nobody.
LEMMA AcquireFinds ==
    ASSUME IInv, NEW k \in Keys, ClaimAcquired(k)
    PROVE  ~Rightful(k) /\ \A v \in Workers : ~(owner[k] = v /\ ~lapsed[k])
<1>1. mark[k] = "free" \/ lapsed[k]
  BY Zenon DEF ClaimAcquired, ClaimDone, ClaimBusy, IInv, ConsumerTypeOK
<1>2. mark[k] = "free" => owner[k] = Nobody
  BY Zenon DEF IInv, OwnerWorks
<1>3. QED
  BY <1>1, <1>2, ClaimerAssumption, Zenon DEF Rightful, Workers

\* The account of k balances after a step that touches none of its entries.
LEMMA PaidSame ==
    ASSUME IInv, ConsumerTypeOK, ConsumerTypeOK', Nobody \notin Workers, NEW k \in Keys,
           UNCHANGED <<mark, owner, lapsed, pc, job, acks, faults>>
    PROVE  Paid(k)'
<1>1. Loose(k)' \subseteq Loose(k) /\ (Rightful(k) => Rightful(k)')
  BY Zenon DEF Loose, Rightful, Event
<1>2. QED
  BY <1>1, KeepsAccount, Zenon

\* After k's entry runs out: the fault pays for the goroutine it makes loose.
LEMMA PaidLapse ==
    ASSUME IInv, ConsumerTypeOK, ConsumerTypeOK', Nobody \notin Workers, NEW k \in Keys,
           NEW j \in Keys, LeaseLapses(j)
    PROVE  Paid(k)'
<1>1. UNCHANGED <<pc, job, acks>>
  BY Zenon DEF LeaseLapses
<1>2. CASE j # k
  <2>1. /\ mark'[k] = mark[k] /\ owner'[k] = owner[k] /\ lapsed'[k] = lapsed[k]
        /\ faults'[k] = faults[k]
    BY <1>2 DEF LeaseLapses, Lapse, Set, Fault, ConsumerTypeOK
  <2>2. Loose(k)' \subseteq Loose(k) /\ (Rightful(k) => Rightful(k)')
    BY <1>1, <2>1, Zenon DEF Loose, Rightful, Event
  <2>3. QED
    BY <1>1, <2>1, <2>2, KeepsAccount, Zenon
<1>3. CASE j = k /\ owner[k] = Nobody
  <2>1. owner'[k] = Nobody
    BY <1>3 DEF LeaseLapses, Lapse, Set, ConsumerTypeOK
  <2>2. Loose(k)' \subseteq Loose(k)
    BY <1>1, <1>3, <2>1, Zenon DEF Loose, Event
  <2>3. \/ faults'[k] = faults[k] /\ ~Rightful(k)
        \/ faults'[k] = faults[k] + 1
    BY <1>3, Zenon DEF LeaseLapses, Fault, Rightful, ConsumerTypeOK
  <2>4. QED
    BY <1>1, <2>2, <2>3, KeepsAccount, Zenon
<1>4. CASE j = k /\ owner[k] # Nobody
  <2>1. PICK v \in Workers : owner[k] = v
    BY <1>4, Zenon DEF ConsumerTypeOK
  <2>2. faults'[k] = faults[k] + 1
    BY <1>4, Zenon DEF LeaseLapses, Fault, ConsumerTypeOK
  <2>3. Loose(k)' \subseteq Loose(k) \cup {v}
    BY <1>1, <2>1, Zenon DEF Loose, Event
  <2>4. CASE pc[v] = "handle"
    <3>1. ~Rightful(k)
      BY <2>1, <2>4, OwnerIs, Zenon DEF Rightful
    <3>2. QED
      BY <1>1, <2>2, <2>3, <3>1, LoosePaid, Zenon
  <2>5. CASE pc[v] # "handle"
    <3>1. Loose(k)' \subseteq Loose(k)
      BY <1>1, <2>3, <2>5, Zenon DEF Loose
    <3>2. QED
      BY <1>1, <2>2, <3>1, KeepsAccount, Zenon
  <2>6. QED
    BY <2>4, <2>5, Zenon
<1>5. QED
  BY <1>2, <1>3, <1>4, Zenon

\* After a step that leaves k's entry alone, sends nobody into the handler and takes no
\* holder away from its commit.
LEMMA PaidQuiet ==
    ASSUME IInv, ConsumerTypeOK, ConsumerTypeOK', Nobody \notin Workers, NEW k \in Keys,
           NEW w \in Workers,
           \/ WorkerStep(w) \/ ClaimError(w) \/ BackoffAborted(w) \/ Renew(w) \/ CommitError(w)
           \/ ReleaseError(w) \/ Cancel(w) \/ Crash(w),
           mark'[k] = mark[k], owner'[k] = owner[k], lapsed'[k] = lapsed[k],
           acks'[k] = acks[k], faults'[k] = faults[k],
           pc'[w] = "handle" /\ EventOf[job'[w]] = k => pc[w] = "handle" /\ Event(w) = k,
           owner[k] = w /\ pc[w] = "commit" => pc'[w] = "commit"
    PROVE  Paid(k)'
<1>1. \A v \in Workers : v # w => Local(v)' = Local(v)
  BY OthersStay, Zenon
<1>2. \A v \in Workers : /\ pc'[v] = "handle" /\ EventOf[job'[v]] = k
                               => pc[v] = "handle" /\ Event(v) = k
                         /\ owner[k] = v /\ pc[v] = "commit" => pc'[v] = "commit"
  BY <1>1, Zenon DEF Local, Event
<1>3. Loose(k)' \subseteq Loose(k) /\ (Rightful(k) => Rightful(k)')
  BY <1>2, EntryUntouched, Zenon
<1>4. QED
  BY <1>3, KeepsAccount, Zenon

\* After a step of a goroutine that works on another event.
LEMMA PaidElsewhere ==
    ASSUME IInv, ConsumerTypeOK, ConsumerTypeOK', Nobody \notin Workers, NEW k \in Keys,
           NEW w \in Workers, pc[w] # "idle", k # Event(w),
           \/ WorkerStep(w) \/ ClaimError(w) \/ BackoffAborted(w) \/ Renew(w) \/ CommitError(w)
           \/ ReleaseError(w) \/ Cancel(w) \/ Crash(w)
    PROVE  Paid(k)'
<1>1. mark'[k] = mark[k] /\ owner'[k] = owner[k] /\ lapsed'[k] = lapsed[k]
  BY ClaimerLocal, Zenon
<1>2. /\ acks'[k] = acks[k] /\ faults'[k] = faults[k]
      /\ pc'[w] = "handle" => job'[w] = job[w]
  BY Elsewhere, Zenon
<1>3. owner[k] # w
  BY OwnerIs, Zenon
<1>4. QED
  BY PaidQuiet, <1>1, <1>2, <1>3, Zenon DEF Event

\* After a delivery.
LEMMA PaidDeliver ==
    ASSUME IInv, ConsumerTypeOK, ConsumerTypeOK', Nobody \notin Workers, NEW k \in Keys,
           NEW w \in Workers, NEW m \in Messages, Deliver(w, m)
    PROVE  Paid(k)'
<1>1. pc'[w] # "handle" /\ pc[w] = "idle"
  BY DEF Deliver, Goto, ConsumerTypeOK
<1>2. WorkerStep(w)
  BY Zenon DEF WorkerStep
<1>3. QED
  BY PaidQuiet, <1>1, <1>2, Zenon DEF Deliver, claimerVars, history

\* Wrap's verdict ends the run of the handler.
LEMMA ReturnLeaves ==
    ASSUME IInv, ConsumerTypeOK, ConsumerTypeOK', Nobody \notin Workers, NEW k \in Keys,
           NEW w \in Workers, NEW r \in Results, Return(w, r)
    PROVE  pc'[w] # "handle" /\ (r = "ack" /\ receipt[w] => pc'[w] = "commit")
<1>1. PICK x \in {"commit", "delay", "broker"} :
            pc' = [pc EXCEPT ![w] = x] /\ (x = "commit" <=> r = "ack" /\ receipt[w])
  BY ReturnMoves, Zenon
<1>2. QED
  BY <1>1, Zenon DEF ConsumerTypeOK

\* After a claim is answered: the new holder is not loose.
LEMMA PaidClaim ==
    ASSUME IInv, ConsumerTypeOK, ConsumerTypeOK', Nobody \notin Workers, NEW k \in Keys,
           NEW w \in Workers, Claim(w), k = Event(w)
    PROVE  Paid(k)'
<1>1. /\ pc[w] = "claim" /\ UNCHANGED <<job, acks, faults>> /\ WorkerStep(w)
  BY Zenon DEF Claim, history, WorkerStep
<1>2. CASE UNCHANGED claimerVars /\ (Return(w, "ack") \/ Return(w, "requeue"))
  <2>1. pc'[w] # "handle"
    BY ReturnLeaves, <1>2, Zenon DEF Results
  <2>2. QED
    BY PaidQuiet, <1>1, <1>2, <2>1, Zenon DEF claimerVars
<1>3. CASE Acquire(k, w)
  <2>1. ~Rightful(k) /\ (\A v \in Workers : ~(owner[k] = v /\ ~lapsed[k]))
    BY <1>3, AcquireFinds, Zenon DEF Acquire
  <2>2. owner'[k] = w /\ ~lapsed'[k]
    BY <1>3, Zenon DEF Acquire, Set, ConsumerTypeOK
  <2>3. \A v \in Workers : v # w => Local(v)' = Local(v)
    BY <1>1, OthersStay, Zenon
  <2>4. Loose(k)' \subseteq Loose(k)
    BY <2>1, <2>2, <2>3, Zenon DEF Loose, Local, Event
  <2>5. QED
    BY <1>1, <2>1, <2>4, KeepsAccount, Zenon
<1>4. QED
  BY <1>2, <1>3, Zenon DEF Claim

\* After a claim failed: a run without a claim is paid for by the fault.
LEMMA PaidClaimError ==
    ASSUME IInv, ConsumerTypeOK, ConsumerTypeOK', Nobody \notin Workers, NEW k \in Keys,
           NEW w \in Workers, ClaimError(w), k = Event(w)
    PROVE  Paid(k)'
<1>1. pc[w] = "claim" /\ job' = job /\ acks' = acks /\ faults'[k] = faults[k] + 1
  BY Zenon DEF ClaimError, Fault, ConsumerTypeOK
<1>2. \A v \in Workers : v # w => Local(v)' = Local(v)
  BY OthersStay, Zenon
<1>3. Loose(k)' \subseteq Loose(k) \cup {w} /\ (Rightful(k) => Rightful(k)')
  <2>1. CASE UNCHANGED claimerVars
    <3>1. owner[k] # w
      BY <1>1, OwnerIs, Zenon
    <3>2. owner[k] \in Workers \cup {Nobody}
      BY Zenon DEF ConsumerTypeOK
    <3>3. QED
      BY <1>2, <2>1, <3>1, <3>2, Zenon DEF Loose, Rightful, Local, Event, claimerVars
  <2>2. CASE Acquire(k, Nobody)
    <3>1. ~Rightful(k) /\ (\A v \in Workers : ~(owner[k] = v /\ ~lapsed[k]))
      BY <2>2, AcquireFinds, Zenon DEF Acquire
    <3>2. QED
      BY <1>2, <3>1, Zenon DEF Loose, Local, Event
  <2>3. QED
    BY <2>1, <2>2, Zenon DEF ClaimError
<1>4. QED
  BY <1>1, <1>3, LoosePaid, Zenon

\* After a run of the handler that did not succeed.
LEMMA PaidVerdict ==
    ASSUME IInv, ConsumerTypeOK, ConsumerTypeOK', Nobody \notin Workers, NEW k \in Keys,
           NEW w \in Workers, k = Event(w),
           BackoffAborted(w) \/ HandlerRejects(w) \/ HandlerFails(w)
    PROVE  Paid(k)'
<1>1. /\ UNCHANGED <<mark, owner, lapsed, job, acks, faults>>
      /\ pc[w] \in {"claim", "handle"} /\ (pc'[w] = "handle" => pc[w] = "handle")
  BY ReturnLeaves, Zenon DEF BackoffAborted, HandlerRejects, HandlerFails, claimerVars,
     history, Results
<1>2. WorkerStep(w) \/ BackoffAborted(w)
  BY Zenon DEF WorkerStep
<1>3. QED
  BY PaidQuiet, <1>1, <1>2, Zenon DEF Event

\* After a success: it is rightful, or it was paid for while its goroutine was loose.
LEMMA PaidAcks ==
    ASSUME IInv, ConsumerTypeOK, ConsumerTypeOK', Nobody \notin Workers, NEW k \in Keys,
           NEW w \in Workers, HandlerAcks(w), k = Event(w)
    PROVE  Paid(k)'
<1>1. /\ pc[w] = "handle" /\ UNCHANGED <<mark, owner, lapsed, job, receipt, faults>>
      /\ acks'[k] = acks[k] + 1 /\ WorkerStep(w)
  BY Zenon DEF HandlerAcks, claimerVars, WorkerStep, ConsumerTypeOK
<1>2. pc'[w] # "handle"
  BY ReturnLeaves, Zenon DEF HandlerAcks, Results
<1>3. \A v \in Workers : v # w => Local(v)' = Local(v)
  BY <1>1, OthersStay, Zenon
<1>4. Loose(k)' \subseteq Loose(k) \ {w}
  BY <1>1, <1>2, <1>3, Zenon DEF Loose, Local, Event
<1>5. CASE w \in Loose(k)
  <2>1. owner[k] # w \/ lapsed[k]
    BY <1>5, Zenon DEF Loose
  <2>2. owner[k] \in Workers \cup {Nobody}
    BY Zenon DEF ConsumerTypeOK
  <2>3. Rightful(k) => Rightful(k)'
    BY <1>1, <1>3, <2>1, <2>2, Zenon DEF Rightful, Local
  <2>4. QED
    BY <1>1, <1>4, <1>5, <2>3, LooseSucceeds, Zenon
<1>6. CASE w \notin Loose(k)
  <2>1. owner[k] = w /\ ~lapsed[k]
    BY <1>1, <1>6, Zenon DEF Loose
  <2>2. mark[k] = "leased" /\ receipt[w] /\ ctx[w] # "leaseLost"
    BY <2>1, OwnerIs, Zenon
  <2>3. pc'[w] = "commit"
    BY ReturnLeaves, <2>2, Zenon DEF HandlerAcks, Results
  <2>4. ~Rightful(k) /\ Rightful(k)'
    BY <1>1, <2>1, <2>2, <2>3, Zenon DEF Rightful
  <2>5. QED
    BY <1>1, <1>4, <2>4, HolderSucceeds, Zenon
<1>7. QED
  BY <1>5, <1>6, Zenon

\* After a renewal: it may make a loose goroutine the holder, never the reverse.
LEMMA PaidRenew ==
    ASSUME IInv, ConsumerTypeOK, ConsumerTypeOK', Nobody \notin Workers, NEW k \in Keys,
           NEW w \in Workers, Renew(w), k = Event(w)
    PROVE  Paid(k)'
<1>1. pc[w] = "handle" /\ UNCHANGED <<pc, job, acks, faults>>
  BY Zenon DEF Renew, history
<1>2. CASE UNCHANGED claimerVars
  BY PaidSame, <1>1, <1>2, Zenon DEF claimerVars
<1>3. CASE Holds(k, w) /\ Set(k, "leased", w)
  <2>1. owner[k] = w /\ mark[k] = "leased" /\ owner'[k] = w /\ ~lapsed'[k]
    BY <1>3, Zenon DEF Holds, Set, ConsumerTypeOK
  <2>2. Loose(k)' \subseteq Loose(k) /\ ~Rightful(k)
    BY <1>1, <2>1, Zenon DEF Loose, Rightful, Event
  <2>3. QED
    BY <1>1, <2>2, KeepsAccount, Zenon
<1>4. QED
  BY <1>2, <1>3, Zenon DEF Renew, Extend

\* A step that leaves the handler, or ends outside it, adds nobody to the loose.
LEMMA LooseShrinks ==
    ASSUME IInv, ConsumerTypeOK, ConsumerTypeOK', Nobody \notin Workers, NEW k \in Keys,
           NEW w \in Workers, pc'[w] # "handle",
           \A v \in Workers : v # w => Local(v)' = Local(v),
           \/ owner[k] = w
           \/ owner'[k] = owner[k] /\ lapsed'[k] = lapsed[k]
    PROVE  Loose(k)' \subseteq Loose(k)
BY Zenon DEF Loose, Local, Event

\* After a commit: the rightful success is now behind the done mark.
LEMMA PaidCommit ==
    ASSUME IInv, ConsumerTypeOK, ConsumerTypeOK', Nobody \notin Workers, NEW k \in Keys,
           NEW w \in Workers, CommitSettlement(w), k = Event(w)
    PROVE  Paid(k)'
<1>1. pc[w] = "commit" /\ pc'[w] # "handle" /\ UNCHANGED <<job, acks, faults>> /\ WorkerStep(w)
  BY Zenon DEF CommitSettlement, CommitFails, Goto, history, WorkerStep, ConsumerTypeOK
<1>2. CASE ~Holds(k, w)
  <2>1. UNCHANGED <<mark, owner, lapsed>>
    BY <1>2, Zenon DEF CommitSettlement, Commit, claimerVars
  <2>2. owner[k] # w
    BY <1>2, OwnerIs, Zenon
  <2>3. QED
    BY PaidQuiet, <1>1, <2>1, <2>2, Zenon
<1>3. CASE Holds(k, w)
  <2>1. owner[k] = w /\ mark'[k] = "done" /\ ~lapsed'[k]
    BY <1>3, SMTT(30) DEF CommitSettlement, Commit, Holds, Set, ConsumerTypeOK
  <2>2. Loose(k)' \subseteq Loose(k) /\ Rightful(k)'
    BY LooseShrinks, <1>1, <2>1, OthersStay, Zenon DEF Rightful
  <2>3. QED
    BY <1>1, <2>2, KeepsAccount, Zenon
<1>4. QED
  BY <1>2, <1>3, Zenon

\* After a commit failed: the fault pays for the success.
LEMMA PaidCommitError ==
    ASSUME IInv, ConsumerTypeOK, ConsumerTypeOK', Nobody \notin Workers, NEW k \in Keys,
           NEW w \in Workers, CommitError(w), k = Event(w)
    PROVE  Paid(k)'
<1>1. pc'[w] # "handle" /\ acks' = acks /\ faults'[k] = faults[k] + 1
  BY Zenon DEF CommitError, CommitFails, Goto, Fault, ConsumerTypeOK
<1>2. owner[k] = w \/ (owner'[k] = owner[k] /\ lapsed'[k] = lapsed[k])
  BY Zenon DEF CommitError, Commit, Holds, claimerVars
<1>3. Loose(k)' \subseteq Loose(k)
  BY LooseShrinks, <1>1, <1>2, OthersStay, Zenon
<1>4. QED
  BY <1>1, <1>3, KeepsAccount, Zenon

\* After a release.
LEMMA PaidRelease ==
    ASSUME IInv, ConsumerTypeOK, ConsumerTypeOK', Nobody \notin Workers, NEW k \in Keys,
           NEW w \in Workers, ReleaseSettlement(w), k = Event(w)
    PROVE  Paid(k)'
<1>1. /\ pc[w] \in {"commitFailed", "release"} /\ pc'[w] # "handle"
      /\ UNCHANGED <<acks, faults>> /\ WorkerStep(w)
  BY Zenon DEF ReleaseSettlement, AfterRelease, Idle, Goto, history, WorkerStep, ConsumerTypeOK
<1>2. CASE ~Holds(k, w)
  <2>1. UNCHANGED <<mark, owner, lapsed>>
    BY <1>2, Zenon DEF ReleaseSettlement, Release, claimerVars
  <2>2. QED
    BY PaidQuiet, <1>1, <2>1, Zenon
<1>3. CASE Holds(k, w)
  <2>1. owner[k] = w /\ mark[k] = "leased"
    BY <1>3, Zenon DEF Holds
  <2>2. Loose(k)' \subseteq Loose(k) /\ ~Rightful(k)
    BY LooseShrinks, <1>1, <2>1, OthersStay, Zenon DEF Rightful
  <2>3. QED
    BY <1>1, <2>2, KeepsAccount, Zenon
<1>4. QED
  BY <1>2, <1>3, Zenon

\* After a release failed, or the process died: the fault pays for what is forsaken.
LEMMA PaidLoss ==
    ASSUME IInv, ConsumerTypeOK, ConsumerTypeOK', Nobody \notin Workers, NEW k \in Keys,
           NEW w \in Workers, ReleaseError(w) \/ Crash(w), k = Event(w)
    PROVE  Paid(k)'
<1>1. pc'[w] # "handle" /\ acks' = acks /\ faults'[k] = faults[k] + 1
  BY
     DEF ReleaseError, Crash, AfterRelease, Idle, Goto, Fault, ConsumerTypeOK
<1>2. owner[k] = w \/ (owner'[k] = owner[k] /\ lapsed'[k] = lapsed[k])
  BY Zenon DEF ReleaseError, Crash, Forsake, Holds, ConsumerTypeOK
<1>3. Loose(k)' \subseteq Loose(k)
  BY LooseShrinks, <1>1, <1>2, OthersStay, Zenon
<1>4. QED
  BY <1>1, <1>3, KeepsAccount, Zenon

\* After a step between a goroutine and the broker.
LEMMA PaidBroker ==
    ASSUME IInv, ConsumerTypeOK, ConsumerTypeOK', Nobody \notin Workers, NEW k \in Keys,
           NEW w \in Workers, k = Event(w), dispatchDelayedRequeue(w) \/ TellBroker(w)
    PROVE  Paid(k)'
<1>1. /\ pc[w] # "commit" /\ pc'[w] # "handle"
      /\ UNCHANGED <<mark, owner, lapsed, acks, faults>> /\ WorkerStep(w)
  BY Zenon DEF dispatchDelayedRequeue, TellBroker, Idle, Goto, claimerVars, history,
                     WorkerStep, ConsumerTypeOK
<1>2. QED
  BY PaidQuiet, <1>1, Zenon

\* No step unbalances the account of successes and faults.
LEMMA StepAccount == IInv /\ [Next]_vars => Account'
<1> SUFFICES ASSUME IInv, [Next]_vars, NEW k \in Keys PROVE Paid(k)'
  BY Zenon DEF Account, Paid
<1> ConsumerTypeOK /\ ConsumerTypeOK' /\ Nobody \notin Workers
  BY StepTyped, ClaimerAssumption, Zenon DEF IInv, Workers
<1>1. ASSUME NEW m \in Messages, Drop(m) \/ DelayExpires(m) PROVE Paid(k)'
  BY PaidSame, <1>1, Zenon DEF Drop, DelayExpires, claimerVars, history
<1>2. CASE UNCHANGED vars
  BY PaidSame, <1>2, Zenon DEF vars, claimerVars, history
<1>3. ASSUME NEW w \in Workers, Cancel(w) PROVE Paid(k)'
  BY PaidSame, <1>3, Zenon DEF Cancel, claimerVars
<1>4. ASSUME NEW w \in Workers,
              \/ WorkerStep(w) \/ ClaimError(w) \/ BackoffAborted(w) \/ Renew(w) \/ CommitError(w)
              \/ ReleaseError(w) \/ Cancel(w) \/ Crash(w)
       PROVE  Paid(k)'
  <2>1. CASE \E m \in Messages : Deliver(w, m)
    BY PaidDeliver, <2>1, Zenon
  <2>2. CASE ~\E m \in Messages : Deliver(w, m)
    <3>1. pc[w] # "idle"
      BY <1>4, <2>2, SMTT(30) DEF WorkerStep, Claim, HandlerAcks, HandlerRejects, HandlerFails,
         CommitSettlement, ReleaseSettlement, dispatchDelayedRequeue, TellBroker, ClaimError,
         BackoffAborted, Renew, CommitError, ReleaseError, Cancel, Crash
    <3>2. CASE k # Event(w)
      BY PaidElsewhere, <1>4, <3>1, <3>2, Zenon
    <3>3. CASE k = Event(w)
      <4>1. CASE Claim(w) \/ ClaimError(w) \/ BackoffAborted(w)
        BY <3>3, <4>1, PaidClaim, PaidClaimError, PaidVerdict, Zenon
      <4>2. CASE HandlerAcks(w) \/ HandlerRejects(w) \/ HandlerFails(w)
        BY <3>3, <4>2, PaidAcks, PaidVerdict, Zenon
      <4>3. CASE Renew(w) \/ CommitSettlement(w) \/ CommitError(w)
        BY <3>3, <4>3, PaidRenew, PaidCommit, PaidCommitError, Zenon
      <4>4. CASE ReleaseSettlement(w) \/ ReleaseError(w) \/ Crash(w)
        BY <3>3, <4>4, PaidRelease, PaidLoss, Zenon
      <4>5. CASE dispatchDelayedRequeue(w) \/ TellBroker(w)
        BY <3>3, <4>5, PaidBroker, Zenon
      <4>6. QED
        BY <1>3, <1>4, <2>2, <4>1, <4>2, <4>3, <4>4, <4>5, Zenon DEF WorkerStep
    <3>4. QED
      BY <3>2, <3>3, Zenon
  <2>3. QED
    BY <2>1, <2>2, Zenon
<1>5. QED
  BY <1>1, <1>2, PaidLapse, <1>4, Zenon DEF Next, Quiescent

\* The invariant holds when the consumers start.
LEMMA InitIInv == Init => IInv
<1> SUFFICES ASSUME Init PROVE IInv
  OBVIOUS
<1>1. ConsumerTypeOK
  BY ConsumerAssumption, Zenon DEF Init, ClaimerInit, ConsumerTypeOK, QueueStates, Settled,
     Places, Results
<1>2. \A w \in Workers : WorkerOK(w)
  BY Zenon DEF Init, WorkerOK
<1>3. \A m \in Messages : BrokerOK(m)
  BY <1>1, DeployTyped DEF Init, BrokerOK
<1>4. OwnerWorks /\ LossIsLate /\ DoneWasAcked
  BY Zenon DEF Init, ClaimerInit, OwnerWorks, LossIsLate, DoneWasAcked
<1>5. Account
  <2> SUFFICES ASSUME NEW k \in Keys
               PROVE  acks[k] + Cardinality(Loose(k)) <= faults[k] + (IF Rightful(k) THEN 1 ELSE 0)
    BY Zenon DEF Account
  <2>1. Loose(k) = {}
    BY Zenon DEF Init, Loose
  <2>2. Cardinality(Loose(k)) = 0
    BY <2>1, FS_EmptySet, Zenon
  <2>3. acks[k] = 0 /\ faults[k] = 0
    BY Zenon DEF Init
  <2>4. QED
    BY <2>2, <2>3
<1>6. QED
  BY <1>1, <1>2, <1>3, <1>4, <1>5, Zenon DEF IInv

\* The invariant is inductive.
LEMMA NextIInv == IInv /\ [Next]_vars => IInv'
BY StepTyped, StepWorkers, StepBroker, StepOwner, StepLoss, StepDone, StepAccount, Zenon DEF IInv

(* ------------------------------- Theorems ---------------------------------- *)

\* The invariant of the consumers, for any number of messages, goroutines and faults.
THEOREM ConsumerInvariant == Spec => []IInv
BY InitIInv, NextIInv, PTL DEF Spec

\* A message is acknowledged only after its event was handled (or copied to a delay tier),
\* also when the goroutine that acknowledges it found the event done.
THEOREM NothingLost == Spec => []AckedWasHandled
<1>1. IInv => AckedWasHandled
  BY Zenon DEF IInv, BrokerOK, DoneWasAcked, AckedWasHandled
<1>2. QED
  BY <1>1, ConsumerInvariant, PTL

\* A message is dead-lettered only if it is hopeless, or stranded by an unconfirmed copy.
THEOREM DeadLettersEarned == Spec => []DeadLetterEarned
<1>1. IInv => DeadLetterEarned
  BY Zenon DEF IInv, BrokerOK, DeadLetterEarned
<1>2. QED
  BY <1>1, ConsumerInvariant, PTL

\* The handler succeeds at most once for an event, and once more for each fault.
THEOREM SuccessesBounded == Spec => []EffectsBounded
<1>1. ASSUME IInv, NEW k \in Keys PROVE acks[k] <= 1 + faults[k]
  <2>1. acks[k] \in Nat /\ faults[k] \in Nat /\ Cardinality(Loose(k)) \in Nat
    BY <1>1, LooseFinite, Zenon DEF IInv, ConsumerTypeOK
  <2>2. acks[k] + Cardinality(Loose(k)) <= faults[k] + (IF Rightful(k) THEN 1 ELSE 0)
    BY <1>1, Zenon DEF IInv, Account
  <2>3. QED
    BY <2>1, <2>2, SMTT(30)
<1>2. IInv => EffectsBounded
  BY <1>1, Zenon DEF EffectsBounded
<1>3. QED
  BY <1>2, ConsumerInvariant, PTL

\* Only the holder of the current lease sets the done mark, for a run that acked.
THEOREM DoneUnderLease == Spec => DoneIsEarned
<1>1. IInv /\ [Next]_vars => [\A k \in Keys :
        mark[k] # "done" /\ mark'[k] = "done"
            => \E w \in Workers : /\ owner[k] = w
                                  /\ pc[w] = "commit" /\ pc'[w] # "commit"
                                  /\ Event(w) = k /\ result[w] = "ack"]_vars
  BY DoneSet, Zenon
<1>2. QED
  BY <1>1, ConsumerInvariant, PTL DEF Spec, DoneIsEarned

=============================================================================
