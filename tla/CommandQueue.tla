---------------------------- MODULE CommandQueue ----------------------------
(* The device command queue: adapters/postgres/command_queue_store.go behind   *)
(* the interface of kernel/command, and the sweeper that ends overdue          *)
(* commands.  Every handler runs one transaction at a time.  Enqueue takes the *)
(* device's advisory lock, inserts, counts and commits in separate steps; Ack  *)
(* and Cancel read the row FOR UPDATE and write it in a later step.  Dequeue   *)
(* and Report are one statement each and therefore one step.                   *)
(*                                                                             *)
(* The columns attempt, lease_expiry, delivered_at and completed_at are left   *)
(* out: no statement reads them but ExtendLease, which tests lease_expiry for  *)
(* NULL (it is NULL exactly outside Sent and Delivered) and moves it.          *)
EXTENDS Integers, FiniteSets

CONSTANTS
    Commands,             \* command ids
    Handlers,             \* API handlers, one transaction each at a time
    Sweeper,              \* the reconcile loop's sweeper
    AckReasons,           \* outcomes a device acks with
    NoKey,                \* an empty EnqueueOptions.IdempotencyKey
    Plans,                \* what may be enqueued: see Plan below
    MaxTime,              \* bound on the clock
    MaxFaults             \* bound on transactions lost

ASSUME CommandAssumption ==
    /\ IsFiniteSet(Commands)
    /\ AckReasons \subseteq {"succeeded", "failed", "canceled"}
    /\ MaxTime \in Nat
    /\ MaxFaults \in Nat
    /\ Sweeper \notin Handlers
    /\ \A pl \in Plans :
          /\ pl.limit \in Nat
          /\ pl.timeouts \in
                [Commands -> [schedule : Nat, complete : Nat, overall : Nat]]

VARIABLES
    plan,     \* the commands' devices, keys and timeouts, and the quota; never changes
    row,      \* status column, "none" before the insert commits
    created,  \* created_at
    sent,     \* sent_at, -1 while NULL
    tx,       \* the transaction each process is in
    todo,     \* the sweep's transitions still to be acknowledged
    told,     \* outcomes some caller was told are in force
    now,
    faults

vars == <<plan, row, created, sent, tx, todo, told, now, faults>>

DeviceOf(c) == plan.device[c]
KeyOf(c) == plan.key[c]
Timeouts(c) == plan.timeouts[c]
MaxPendingPerDevice == plan.limit   \* 0: uncapped

Procs == Handlers \cup {Sweeper}
Active == {"pending", "sent", "delivered"}
Terminal == {"succeeded", "failed", "expired", "canceled"}
Stored == Active \cup Terminal

\* An Enqueue holds its uncommitted row; an Ack or a Cancel the status it read.
Idle == [at |-> "idle"]
EnqueueTx == [at : {"inserted", "counted"}, cmd : Commands, created : Nat]
EndTx == [at : {"selected"}, cmd : Commands, op : {"ack", "cancel"}, to : Terminal,
          read : Stored]

statusTransitions ==
    [pending   |-> {"sent", "failed", "expired", "canceled"},
     sent      |-> {"delivered", "succeeded", "failed", "expired", "canceled"},
     delivered |-> {"succeeded", "failed", "expired", "canceled"}]

(* ------------------------------- Enqueue ---------------------------------- *)

Capped == MaxPendingPerDevice > 0
Enqueueing(p) == tx[p].at \in {"inserted", "counted"}

\* Mutant of DeviceFree: the quota is counted without the advisory lock.
DeviceFreeAlways(c) == TRUE

\* pg_advisory_xact_lock: one capped Enqueue per device at a time.
DeviceFree(c) ==
    Capped => \A p \in Procs : Enqueueing(p) => DeviceOf(tx[p].cmd) # DeviceOf(c)

\* Mutant of KeyHeld: the index predicate covers status Pending only.
KeyHeldPending(c) ==
    KeyOf(c) # NoKey /\ \E o \in Commands : row[o] = "pending" /\ KeyOf(o) = KeyOf(c)

\* The partial unique index: an active row carries the key (ON CONFLICT DO NOTHING).
KeyHeld(c) ==
    KeyOf(c) # NoKey /\ \E o \in Commands : row[o] \in Active /\ KeyOf(o) = KeyOf(c)

\* The index makes an insert wait for an uncommitted row with the same id or key.
IndexFree(c) ==
    \A p \in Procs : Enqueueing(p) =>
        /\ tx[p].cmd # c
        /\ KeyOf(c) # NoKey => KeyOf(tx[p].cmd) # KeyOf(c)

\* enqueueTx up to insertEntry.  An id already stored is ErrConflict and a held key
\* a no-op: neither changes anything.
insertEntry(p, c) ==
    /\ tx[p] = Idle
    /\ row[c] = "none"
    /\ DeviceFree(c)
    /\ IndexFree(c)
    /\ ~KeyHeld(c)
    /\ tx' = [tx EXCEPT ![p] = [at      |-> IF Capped THEN "inserted" ELSE "counted",
                                cmd     |-> c,
                                created |-> now]]
    /\ UNCHANGED <<plan, row, created, sent, todo, told, now, faults>>

PendingOf(d) == {c \in Commands : row[c] = "pending" /\ DeviceOf(c) = d}

\* enforcePendingLimit: the count sees committed rows and the transaction's own.
enforcePendingLimit(p) ==
    LET c == tx[p].cmd
        n == Cardinality(PendingOf(DeviceOf(c)) \cup {c})
    IN  /\ tx[p].at = "inserted"
        /\ tx' = [tx EXCEPT ![p] = IF n > MaxPendingPerDevice THEN Idle
                                   ELSE [@ EXCEPT !.at = "counted"]]
        /\ UNCHANGED <<plan, row, created, sent, todo, told, now, faults>>

commitEnqueue(p) ==
    /\ tx[p].at = "counted"
    /\ row' = [row EXCEPT ![tx[p].cmd] = "pending"]
    /\ created' = [created EXCEPT ![tx[p].cmd] = tx[p].created]
    /\ tx' = [tx EXCEPT ![p] = Idle]
    /\ UNCHANGED <<plan, sent, todo, told, now, faults>>

(* --------------------------- Dequeue and Report ---------------------------- *)

Locked(c) == \E p \in Procs : tx[p].at = "selected" /\ tx[p].cmd = c

\* The n oldest Pending rows of device d that no transaction has locked.
Batch(d, n, S) ==
    LET free == {c \in PendingOf(d) : ~Locked(c)}
    IN  /\ S \subseteq free
        /\ Cardinality(S) = IF Cardinality(free) < n THEN Cardinality(free) ELSE n
        /\ \A c \in S, o \in free \ S : created[c] <= created[o]

Dequeue(d, n) ==
    \E S \in SUBSET PendingOf(d) :
        /\ S # {}
        /\ Batch(d, n, S)
        /\ row' = [c \in Commands |-> IF c \in S THEN "sent" ELSE row[c]]
        /\ sent' = [c \in Commands |-> IF c \in S THEN now ELSE sent[c]]
        /\ UNCHANGED <<plan, created, tx, todo, told, now, faults>>

\* In any other status Report changes nothing.
Report(c) ==
    /\ row[c] = "sent"
    /\ ~Locked(c)
    /\ row' = [row EXCEPT ![c] = "delivered"]
    /\ UNCHANGED <<plan, created, sent, tx, todo, told, now, faults>>

(* ------------------------------ Ack and Cancel ----------------------------- *)

\* Mutant of RowFree: the status is read without FOR UPDATE.
RowFreeAlways(c) == TRUE

\* FOR UPDATE waits for the transaction that has the row.
RowFree(c) == ~Locked(c)

\* The read of ackInTx and of Cancel.
selectStatusForUpdate(p, c, op, to) ==
    /\ tx[p] = Idle
    /\ row[c] # "none"
    /\ RowFree(c)
    /\ tx' = [tx EXCEPT ![p] = [at |-> "selected", cmd |-> c, op |-> op, to |-> to,
                                read |-> row[c]]]

\* A terminal row answers a repeated Ack of the same outcome with success and
\* everything else with an error; a Cancel of it is always an error.
AlreadySo(p) == tx[p].read = tx[p].to /\ tx[p].op = "ack"

\* The rest of ackInTx and of Cancel, and the commit.
ackInTx(p) ==
    LET c == tx[p].cmd
        ok == tx[p].read \in Active /\ tx[p].to \in statusTransitions[tx[p].read]
    IN  /\ tx[p].at = "selected"
        /\ tx' = [tx EXCEPT ![p] = Idle]
        /\ row' = IF ok THEN [row EXCEPT ![c] = tx[p].to] ELSE row
        /\ told' = IF ok \/ AlreadySo(p)
                   THEN [told EXCEPT ![c] = @ \cup {tx[p].to}] ELSE told
        /\ UNCHANGED <<plan, created, sent, todo, now, faults>>

\* The device ends a command.  Only the sweeper acks with AckTimeout.
Ack(p, c, to) ==
    /\ selectStatusForUpdate(p, c, "ack", to)
    /\ UNCHANGED <<plan, row, created, sent, todo, told, now, faults>>

\* The operator cancels one.
Cancel(p, c) ==
    /\ selectStatusForUpdate(p, c, "cancel", "canceled")
    /\ UNCHANGED <<plan, row, created, sent, todo, told, now, faults>>

(* -------------------------------- Sweeper ---------------------------------- *)

Phases == {"schedule", "complete", "overall"}

\* 0 when no deadline applies, as the zero time.Time does.
DeadlineFor(c, phase) ==
    IF Timeouts(c)[phase] = 0 \/ (phase = "complete" /\ sent[c] = -1) THEN 0
    ELSE (IF phase = "complete" THEN sent[c] ELSE created[c]) + Timeouts(c)[phase]

\* Some deadline has passed, whatever the status (the phase is only the reason given).
checkExpiry(c, t) == \E p \in Phases : DeadlineFor(c, p) # 0 /\ t > DeadlineFor(c, p)

\* Mutant of ScanActive: only leased rows are scanned.
ScanLeased == {c \in Commands : row[c] \in {"sent", "delivered"}}

ScanActive == {c \in Commands : row[c] \in Active}

\* SweepTick reads the clock, scans and decides; the Acks follow one by one, on a
\* snapshot that may be stale by then.
SweepTick ==
    /\ tx[Sweeper] = Idle
    /\ todo = {}
    /\ todo' = {c \in ScanActive : checkExpiry(c, now)}
    /\ UNCHANGED <<plan, row, created, sent, tx, told, now, faults>>

SweepAck(c) ==
    /\ c \in todo
    /\ selectStatusForUpdate(Sweeper, c, "ack", "expired")
    /\ todo' = todo \ {c}
    /\ UNCHANGED <<plan, row, created, sent, told, now, faults>>

(* --------------------------------- System ---------------------------------- *)

\* A transaction is lost before it commits and rolled back; the sweep goes on to
\* its next command, the handler's caller sees an error.
Rollback(p) ==
    /\ faults < MaxFaults
    /\ tx[p] # Idle
    /\ tx' = [tx EXCEPT ![p] = Idle]
    /\ faults' = faults + 1
    /\ UNCHANGED <<plan, row, created, sent, todo, told, now>>

Tick ==
    /\ now < MaxTime
    /\ now' = now + 1
    /\ UNCHANGED <<plan, row, created, sent, tx, todo, told, faults>>

Init ==
    /\ plan \in Plans
    /\ row = [c \in Commands |-> "none"]
    /\ created = [c \in Commands |-> 0]
    /\ sent = [c \in Commands |-> -1]
    /\ tx = [p \in Procs |-> Idle]
    /\ todo = {}
    /\ told = [c \in Commands |-> {}]
    /\ now = 0
    /\ faults = 0

Next ==
    \/ \E p \in Handlers, c \in Commands :
          \/ insertEntry(p, c)
          \/ Cancel(p, c)
          \/ \E to \in AckReasons : Ack(p, c, to)
    \/ \E p \in Procs :
          \/ enforcePendingLimit(p)
          \/ commitEnqueue(p)
          \/ ackInTx(p)
          \/ Rollback(p)
    \/ \E c \in Commands, n \in 1..Cardinality(Commands) : Dequeue(DeviceOf(c), n)
    \/ \E c \in Commands : Report(c) \/ SweepAck(c)
    \/ SweepTick
    \/ Tick

Spec == Init /\ [][Next]_vars

\* A database transaction ends; the reconcile loop ticks; a row lock is granted in
\* the order it is asked for, so the sweeper's turn comes.
Fairness ==
    /\ \A p \in Procs :
          WF_vars(enforcePendingLimit(p) \/ commitEnqueue(p) \/ ackInTx(p))
    /\ WF_vars(SweepTick)
    /\ \A c \in Commands : SF_vars(SweepAck(c))

FairSpec == Spec /\ Fairness

(* ------------------------------- Properties -------------------------------- *)

\* A device never has more Pending commands than its quota, however many Enqueue
\* calls race: the count is taken under the advisory lock (enqueueTx).
PendingCap ==
    Capped => \A c \in Commands :
        Cardinality(PendingOf(DeviceOf(c))) <= MaxPendingPerDevice

\* Two commands with the same idempotency key are never active together, although
\* the key is free again once its holder ends (enqueueInsertSQL's arbiter).
OneActivePerKey ==
    \A c, o \in Commands :
        row[c] \in Active /\ row[o] \in Active /\ KeyOf(c) # NoKey /\ KeyOf(c) = KeyOf(o)
            => c = o

\* A caller told that a command ended in some way was told the truth for good: the
\* device's Ack, the operator's Cancel and the sweeper's timeout race on the row,
\* and whoever gets a success answer finds that outcome in force (ackInTx, Cancel).
OneOutcome == \A c \in Commands : told[c] \subseteq {row[c]}

\* A command past one of its deadlines does not stay active, whatever Acks fail
\* (SweepTick, driven by the reconcile loop).
OverdueEnds ==
    \A c \in Commands :
        row[c] \in Active /\ checkExpiry(c, now) ~> row[c] \in Terminal
=============================================================================
