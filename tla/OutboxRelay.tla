---------------------------- MODULE OutboxRelay ----------------------------
(***************************************************************************)
(* The relays of runtime/outbox/relay.go moving events from the outbox to  *)
(* the broker.  Several relay processes share one table.  Each repeats the *)
(* three phases of pollOnce (claim a batch, publish every entry of it      *)
(* outside any transaction, write every outcome back under the lease), and *)
(* beside the poll loop each runs a reclaim loop and a cleanup loop.       *)
(*                                                                         *)
(* A relay may be as slow as it likes, so its claim can be reclaimed, and  *)
(* the entry claimed by another relay, while it is still publishing; it    *)
(* may crash anywhere, and the broker may report an error for a message it *)
(* has in fact accepted.                                                   *)
(***************************************************************************)
EXTENDS OutboxStore

CONSTANTS
    Relays,       \* relay processes sharing the table
    Unencodable   \* the entries MarshalEnvelope cannot encode

ASSUME RelayAssumption == Unencodable \subseteq Entries /\ IsFiniteSet(Relays)

VARIABLES
    batch,    \* batch[r]: the entries of r's claim not yet written back
    held,     \* held[r]: the lease of that claim, NoLease between two polls
    snap,     \* snap[r][e]: ClaimedEntry.Attempts, read at the claim
    outcome,  \* outcome[r][e]: publishResult.err of the present batch
    sent,     \* sent[e]: how often the broker has accepted e
    verdict   \* history: the terminal status e reached, which outlives the row

relayVars == <<batch, held, snap, outcome, sent>>
vars == <<storeVars, relayVars, verdict>>

\* "none": not published yet, "ok": err = nil, "failed": a transient error,
\* "permanent": an error tagged kout.PermanentError.
Outcomes == {"none", "ok", "failed", "permanent"}

Verdicts == {"open", "published", "dead"}

\* The state each variable ranges over.
TypeOK ==
    /\ StoreTypeOK
    /\ batch \in [Relays -> SUBSET Entries]
    /\ held \in [Relays -> Nat]
    /\ snap \in [Relays -> [Entries -> Nat]]
    /\ outcome \in [Relays -> [Entries -> Outcomes]]
    /\ sent \in [Entries -> Nat]
    /\ verdict \in [Entries -> Verdicts]

Init ==
    /\ StoreInit
    /\ batch = [r \in Relays |-> {}]
    /\ held = [r \in Relays |-> NoLease]
    /\ snap = [r \in Relays |-> [e \in Entries |-> 0]]
    /\ outcome = [r \in Relays |-> [e \in Entries |-> "none"]]
    /\ sent = [e \in Entries |-> 0]
    /\ verdict = [e \in Entries |-> "open"]

----------------------------------------------------------------------------

\* Phase 1 of pollOnce: the poll loop is between two polls.
Claim(r, S) ==
    /\ batch[r] = {}
    /\ ClaimPending(S)
    /\ batch' = [batch EXCEPT ![r] = S]
    /\ held' = [held EXCEPT ![r] = lastLease + 1]
    /\ snap' = [snap EXCEPT ![r] = [e \in Entries |-> IF e \in S THEN attempts[e] ELSE 0]]
    /\ UNCHANGED <<outcome, sent>>

\* Phase 2, one entry of publishBatch.  An entry that does not marshal is a
\* permanent failure.  Publish succeeds only if the broker took the message,
\* and may fail although it did.
Publish(r, e, out) ==
    /\ e \in batch[r]
    /\ outcome[r][e] = "none"
    /\ outcome' = [outcome EXCEPT ![r][e] = out]
    /\ \/ /\ e \in Unencodable
          /\ out = "permanent"
          /\ UNCHANGED sent
       \/ /\ e \notin Unencodable
          /\ out \in {"ok", "failed"}
          /\ sent' = [sent EXCEPT ![e] = @ + 1]
       \/ /\ e \notin Unencodable
          /\ out = "failed"
          /\ UNCHANGED sent
    /\ UNCHANGED <<storeVars, batch, held, snap>>

\* publishBatch returns before the first write-back.
Published(r) == \A e \in batch[r] : outcome[r][e] # "none"

\* Mutants of WriteBackOne: a transient failure passes for a success, and the
\* budget is taken to be spent one attempt early.
WriteBackOneLoose(r, e) ==
    LET n == snap[r][e] + 1 IN
    IF outcome[r][e] = "permanent" THEN MarkDead(e, held[r], n) ELSE MarkPublished(e, held[r])

WriteBackOneEarly(r, e) ==
    LET n == snap[r][e] + 1 IN
    CASE outcome[r][e] = "ok" -> MarkPublished(e, held[r])
      [] outcome[r][e] = "permanent" \/ Exhausted(n + 1) -> MarkDead(e, held[r], n)
      [] OTHER -> MarkRetry(e, held[r], n)

\* The store update of writeBackOne and handleFailedEntry.
WriteBackOne(r, e) ==
    LET n == snap[r][e] + 1 IN
    \/ /\ outcome[r][e] = "ok"
       /\ MarkPublished(e, held[r])
    \/ /\ outcome[r][e] # "ok"
       /\ outcome[r][e] = "permanent" \/ Exhausted(n)
       /\ MarkDead(e, held[r], n)
    \/ /\ outcome[r][e] # "ok"
       /\ ~(outcome[r][e] = "permanent" \/ Exhausted(n))
       /\ MarkRetry(e, held[r], n)

\* The relay is done with the entries S of its batch; what it knew of them was
\* local to pollOnce.
Forget(r, S) ==
    /\ batch' = [batch EXCEPT ![r] = @ \ S]
    /\ snap' = [snap EXCEPT ![r] = [e \in Entries |-> IF e \in S THEN 0 ELSE @[e]]]
    /\ outcome' = [outcome EXCEPT ![r] = [e \in Entries |-> IF e \in S THEN "none" ELSE @[e]]]
    /\ held' = [held EXCEPT ![r] = IF batch[r] \subseteq S THEN NoLease ELSE @]

\* Phase 3, one entry of writeBackResults.  A lost lease is not an error.
WriteBack(r, e) ==
    /\ e \in batch[r]
    /\ Published(r)
    /\ WriteBackOne(r, e)
    /\ Forget(r, {e})
    /\ UNCHANGED sent

\* A store error ends the write-back; the remaining entries stay claiming.
WriteBackError(r) ==
    /\ batch[r] # {}
    /\ Published(r)
    /\ Forget(r, batch[r])
    /\ UNCHANGED <<storeVars, sent>>

\* The process dies, or pollOnce is cut short by Stop, anywhere in a batch.
Crash(r) ==
    /\ batch[r] # {}
    /\ ~Published(r)
    /\ Forget(r, batch[r])
    /\ UNCHANGED <<storeVars, sent>>

\* One statement of the reclaim loop and one of the cleanup loop.
Reclaim == \E S \in SUBSET Stale : ReclaimStale(S) /\ UNCHANGED relayVars

CleanupPublished == \E S \in SUBSET Entries : Cleanup("published", S) /\ UNCHANGED relayVars
CleanupDead == \E S \in SUBSET Entries : Cleanup("dead", S) /\ UNCHANGED relayVars

Produce(e) == Write(e) /\ UNCHANGED relayVars
Tick(e) == TimePasses(e) /\ UNCHANGED relayVars

\* The history variable follows the status column.
RecordVerdict ==
    verdict' = [e \in Entries |->
                  IF status'[e] \in {"published", "dead"} THEN status'[e] ELSE verdict[e]]

\* Every entry has come and gone: the loops go on over an empty table.
Drained ==
    /\ \A e \in Entries : status[e] = "deleted"
    /\ \A r \in Relays : batch[r] = {}
    /\ UNCHANGED <<storeVars, relayVars>>

RelayStep(r) ==
    \/ \E S \in SUBSET Eligible : Claim(r, S)
    \/ \E e \in Entries, out \in Outcomes : Publish(r, e, out)
    \/ \E e \in Entries : WriteBack(r, e)

Step ==
    \/ \E e \in Entries : Produce(e)
    \/ \E r \in Relays : RelayStep(r)
    \/ \E r \in Relays : WriteBackError(r)
    \/ \E r \in Relays : Crash(r)
    \/ Reclaim
    \/ CleanupPublished
    \/ CleanupDead
    \/ \E e \in Entries : Tick(e)
    \/ Drained

Next == Step /\ RecordVerdict

Spec == Init /\ [][Next]_vars

\* Every poll loop keeps polling and finishes the batches it does not abandon;
\* some reclaim loop keeps running; the clock advances.  Producers, cleanup and
\* crashes are under no obligation.
Fairness ==
    /\ \A r \in Relays : WF_vars(RelayStep(r) /\ RecordVerdict)
    /\ WF_vars(Reclaim /\ RecordVerdict)
    /\ \A e \in Entries : WF_vars(Tick(e) /\ RecordVerdict)

FairSpec == Spec /\ Fairness
----------------------------------------------------------------------------
\* A row that a relay may still work on has budget left: MarkRetry and
\* ReclaimStale, the two writers of attempts, both send it to dead otherwise,
\* although one computes from the value read at the claim and the other from
\* the row.
AttemptBudget ==
    \A e \in Entries :
        /\ attempts[e] <= MaxAttempts
        /\ status[e] \in {"none", "pending", "claiming"} => attempts[e] < MaxAttempts

\* However relays overlap, crash and are reclaimed, no entry reaches the broker
\* more than MaxAttempts times: every claim is paid for with an attempt, and a
\* relay publishes an entry once for a claim, even after it has lost the lease.
DeliveryBudget == \A e \in Entries : sent[e] <= MaxAttempts

\* No event is lost by being called published: the broker has accepted every
\* entry whose row was marked published, also when cleanup has deleted the row.
PublishedWasSent ==
    \A e \in Entries : verdict[e] = "published" => sent[e] > 0

\* An entry is dead-lettered only when its budget is spent or it can never be
\* encoded; cleanup deletes nothing that is not published or dead.
DeadWasHopeless ==
    \A e \in Entries :
        /\ verdict[e] = "dead" => e \in Unencodable \/ attempts[e] = MaxAttempts
        /\ status[e] = "deleted" => verdict[e] # "open"

----------------------------------------------------------------------------
(* The parts of the inductive invariant behind the properties.             *)

\* Lease ids are minted in order, one for each ClaimPending.
LeasesMinted ==
    /\ \A e \in Entries : lease[e] <= lastLease
    /\ \A r \in Relays : held[r] <= lastLease

\* The fence: while the row is claiming under r's lease, the attempt count r
\* read at its claim is the row's own.
SnapshotCurrent ==
    \A r \in Relays : \A e \in batch[r] :
        Fenced(e, held[r]) => snap[r][e] = attempts[e]

\* A relay works on written rows, and its results say what happened at the broker.
ResultsTrue ==
    \A r \in Relays, e \in Entries :
        /\ IF e \in batch[r] THEN status[e] # "none" ELSE outcome[r][e] = "none"
        /\ outcome[r][e] = "ok" => sent[e] > 0
        /\ outcome[r][e] = "permanent" => e \in Unencodable

\* The verdict is the terminal status, before and after the row is deleted.
VerdictMatches ==
    \A e \in Entries :
        /\ status[e] \in {"none", "pending", "claiming"} => verdict[e] = "open"
        /\ status[e] \in {"published", "dead"} => verdict[e] = status[e]
        /\ status[e] = "deleted" => verdict[e] # "open"
        /\ verdict[e] = "published" => attempts[e] < MaxAttempts

\* Relays that still owe the broker the entry e.
Unsent(e) == {r \in Relays : e \in batch[r] /\ outcome[r][e] = "none"}

\* The claims of e so far: every finished claim that did not publish the row
\* has cost an attempt.
Claims(e) ==
    attempts[e] + (IF status[e] = "claiming" \/ verdict[e] = "published" THEN 1 ELSE 0)

\* A claim gives each relay at most one delivery of the entry.
DeliveriesPaid == \A e \in Entries : sent[e] + Cardinality(Unsent(e)) <= Claims(e)

Inv ==
    /\ TypeOK
    /\ LeasesMinted
    /\ SnapshotCurrent
    /\ ResultsTrue
    /\ VerdictMatches
    /\ AttemptBudget
    /\ PublishedWasSent
    /\ DeadWasHopeless
    /\ DeliveriesPaid

----------------------------------------------------------------------------
\* A claim is never given back for free: a row leaves claiming as published or
\* with exactly one attempt more than it had, whoever moves it.  A relay whose
\* lease was reclaimed would write the stale count it read at its own claim.
ClaimCostsAttempt ==
    [][\A e \in Entries :
        status[e] = "claiming" /\ status'[e] \in {"pending", "dead"}
            => attempts'[e] = attempts[e] + 1]_vars

\* A terminal row never comes back to life: after published or dead only the
\* retention cleanup may touch it.
TerminalIsFinal ==
    [][\A e \in Entries :
        status[e] \in {"published", "dead"} => status'[e] \in {status[e], "deleted"}]_vars

\* Every entry a producer commits is published or dead-lettered in the end,
\* though relays may crash in any batch and the broker may refuse for ever.
EventuallySettled ==
    \A e \in Entries : (status[e] = "pending") ~> (verdict[e] # "open")

\* The relays implement the outbox promise.
Fate == [e \in Entries |-> IF status[e] = "none" THEN "unwritten" ELSE verdict[e]]

Promise == INSTANCE OutboxPromise WITH fate <- Fate

\* Every step of the relays and the table is a step the promise allows.
KeepsPromise == Promise!Spec
============================================================================
