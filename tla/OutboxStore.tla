---------------------------- MODULE OutboxStore ----------------------------
(***************************************************************************)
(* The outbox_entries table behind runtime/outbox.Store, as PostgreSQL     *)
(* keeps it (adapters/postgres/outbox_store.go).  Every Store method is    *)
(* one short transaction, so each is one atomic operator here; the relays  *)
(* that call them are in OutboxRelay.                                      *)
(*                                                                         *)
(* A row is kept column by column.  Time is abstracted to one flag per     *)
(* row: elapsed[e] says that the deadline which matters to the row in its  *)
(* present status has passed, that is next_retry_at for a pending row,     *)
(* claimed_at + ClaimTTL for a claiming one, and the retention period for  *)
(* a published or a dead one.  Nothing bounds how long a relay may take    *)
(* between two of its steps, so TimePasses may set the flag at any moment. *)
(***************************************************************************)
EXTENDS Naturals, FiniteSets

CONSTANTS
    Entries,          \* the ids of the entries producers may write
    MaxAttempts,      \* RelayConfig.MaxAttempts
    BatchSize,        \* RelayConfig.BatchSize
    ReclaimBatchSize  \* RelayConfig.ReclaimBatchSize

\* RelayConfig.WithDefaults replaces a non-positive value of any of the three.
ASSUME StoreAssumption ==
    /\ MaxAttempts \in Nat \ {0}
    /\ BatchSize \in Nat \ {0}
    /\ ReclaimBatchSize \in Nat \ {0}

VARIABLES
    status,     \* status column; "none": not written, "deleted": cleaned up
    attempts,   \* attempts column
    lease,      \* lease_id column, NoLease for NULL
    elapsed,    \* the row's present deadline has passed
    lastLease   \* the lease ids minted so far are 1 .. lastLease

storeVars == <<status, attempts, lease, elapsed, lastLease>>

Statuses == {"none", "pending", "claiming", "published", "dead", "deleted"}

NoLease == 0

StoreTypeOK ==
    /\ status \in [Entries -> Statuses]
    /\ attempts \in [Entries -> Nat]
    /\ lease \in [Entries -> Nat]
    /\ elapsed \in [Entries -> BOOLEAN]
    /\ lastLease \in Nat

StoreInit ==
    /\ status = [e \in Entries |-> "none"]
    /\ attempts = [e \in Entries |-> 0]
    /\ lease = [e \in Entries |-> NoLease]
    /\ elapsed = [e \in Entries |-> FALSE]
    /\ lastLease = 0

\* The columns a statement over the rows S writes; the other rows keep theirs.
Update(S, col, f(_)) == [e \in Entries |-> IF e \in S THEN f(e) ELSE col[e]]

\* The producer's transaction commits: the row is there, pending, with a NULL
\* next_retry_at, so it is eligible at once.
Write(e) ==
    /\ status[e] = "none"
    /\ status' = [status EXCEPT ![e] = "pending"]
    /\ elapsed' = [elapsed EXCEPT ![e] = TRUE]
    /\ UNCHANGED <<attempts, lease, lastLease>>

\* Mutant of Stale: a row is reclaimed only once it has been retried.
StaleRetried == {e \in Entries : status[e] = "claiming" /\ elapsed[e] /\ attempts[e] > 0}

\* The rows ClaimPending may pick, and the rows ReclaimStale may.
Eligible == {e \in Entries : status[e] = "pending" /\ elapsed[e]}
Stale == {e \in Entries : status[e] = "claiming" /\ elapsed[e]}

\* ClaimPending picks the rows S, at most a batch of the eligible ones (SKIP
\* LOCKED leaves out rows another transaction has locked, so S may be any such
\* set) and stamps all of them with one fresh lease.
ClaimPending(S) ==
    /\ S \subseteq Eligible
    /\ S # {}
    /\ Cardinality(S) <= BatchSize
    /\ lastLease' = lastLease + 1
    /\ status' = Update(S, status, LAMBDA e : "claiming")
    /\ lease' = Update(S, lease, LAMBDA e : lastLease + 1)
    /\ elapsed' = Update(S, elapsed, LAMBDA e : FALSE)
    /\ UNCHANGED attempts

\* Mutants of Fenced: one half of the compare-and-swap is forgotten.
FencedByStatus(e, l) == status[e] = "claiming"
FencedByLease(e, l) == lease[e] = l

\* The compare-and-swap of every Mark* statement: the row is still claiming
\* under the lease the caller was given.
Fenced(e, l) == status[e] = "claiming" /\ lease[e] = l

\* MarkPublished keeps lease_id and attempts; it misses without the fence.
MarkPublished(e, l) ==
    IF Fenced(e, l)
    THEN /\ status' = [status EXCEPT ![e] = "published"]
         /\ elapsed' = [elapsed EXCEPT ![e] = FALSE]
         /\ UNCHANGED <<attempts, lease, lastLease>>
    ELSE UNCHANGED storeVars

\* MarkRetry writes the caller's attempt count and clears the lease.
MarkRetry(e, l, n) ==
    IF Fenced(e, l)
    THEN /\ status' = [status EXCEPT ![e] = "pending"]
         /\ attempts' = [attempts EXCEPT ![e] = n]
         /\ lease' = [lease EXCEPT ![e] = NoLease]
         /\ elapsed' = [elapsed EXCEPT ![e] = FALSE]
         /\ UNCHANGED lastLease
    ELSE UNCHANGED storeVars

\* MarkDead writes the caller's attempt count and keeps the lease.
MarkDead(e, l, n) ==
    IF Fenced(e, l)
    THEN /\ status' = [status EXCEPT ![e] = "dead"]
         /\ attempts' = [attempts EXCEPT ![e] = n]
         /\ elapsed' = [elapsed EXCEPT ![e] = FALSE]
         /\ UNCHANGED <<lease, lastLease>>
    ELSE UNCHANGED storeVars

\* Whether one more attempt spends the budget.
Exhausted(n) == n >= MaxAttempts

\* Mutant of ReclaimStale: the abandoned claim is not counted.
ReclaimStaleFree(S) ==
    /\ S \subseteq Stale
    /\ S # {}
    /\ Cardinality(S) <= ReclaimBatchSize
    /\ status' = Update(S, status, LAMBDA e : "pending")
    /\ lease' = Update(S, lease, LAMBDA e : NoLease)
    /\ elapsed' = Update(S, elapsed, LAMBDA e : FALSE)
    /\ UNCHANGED <<attempts, lastLease>>

\* ReclaimStale counts the abandoned claim of each row as an attempt.  A row
\* whose budget is spent is dead and keeps its lease, any other is pending again.
ReclaimStale(S) ==
    /\ S \subseteq Stale
    /\ S # {}
    /\ Cardinality(S) <= ReclaimBatchSize
    /\ attempts' = Update(S, attempts, LAMBDA e : attempts[e] + 1)
    /\ status' = Update(S, status,
                        LAMBDA e : IF Exhausted(attempts[e] + 1) THEN "dead" ELSE "pending")
    /\ lease' = Update(S, lease,
                       LAMBDA e : IF Exhausted(attempts[e] + 1) THEN lease[e] ELSE NoLease)
    /\ elapsed' = Update(S, elapsed, LAMBDA e : FALSE)
    /\ UNCHANGED lastLease

\* CleanupPublished and CleanupDead delete rows past their retention period.
Cleanup(s, S) ==
    /\ S \subseteq {e \in Entries : status[e] = s /\ elapsed[e]}
    /\ S # {}
    /\ status' = Update(S, status, LAMBDA e : "deleted")
    /\ UNCHANGED <<attempts, lease, elapsed, lastLease>>

\* The clock reaches the row's present deadline.
TimePasses(e) ==
    /\ status[e] \notin {"none", "deleted"}
    /\ ~elapsed[e]
    /\ elapsed' = [elapsed EXCEPT ![e] = TRUE]
    /\ UNCHANGED <<status, attempts, lease, lastLease>>

============================================================================
