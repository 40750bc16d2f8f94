--------------------------- MODULE ReadModelStore ---------------------------
(***************************************************************************)
(* What the two drivers of read models have in common: an append-only      *)
(* journal with positions 1, 2, ..., the checkpoint row of a projection    *)
(* (CheckpointStore and OwnerCheckpointStore), and the read model itself,  *)
(* of which only matters how often it reflects each position.  A driver    *)
(* applies an event and moves the checkpoint in one transaction.           *)
(***************************************************************************)
EXTENDS Naturals

CONSTANTS
    MaxJournal,  \* bound: length of the journal
    Tailers,     \* the processes that may advance the checkpoint as its owner
    Nobody       \* no process

ASSUME StoreAssumption == MaxJournal \in Nat /\ Nobody \notin Tailers

Positions == 1 .. MaxJournal

VARIABLES
    driver,   \* who drives the read model: a "coordinator" (Projection) or a "tailer"
              \* (Tailer), fixed from the start
    head,     \* the position of the newest journal entry
    offset,   \* projection_checkpoints.offset_seq
    owner,    \* whose current token the owner column holds; Nobody: no one's
    applied   \* applied[n]: how often the read model reflects entry n

storeVars == <<driver, head, offset, owner, applied>>

StoreInit ==
    /\ driver \in {"coordinator", "tailer"}
    /\ head = 0
    /\ offset = 0
    /\ owner = Nobody
    /\ applied = [n \in Positions |-> 0]

\* A producer commits an entry; commits are in the order of the positions.
JournalGrows ==
    /\ head < MaxJournal
    /\ head' = head + 1
    /\ UNCHANGED <<driver, offset, owner, applied>>

\* The business Apply.
Apply(n) == applied' = [applied EXCEPT ![n] = @ + 1]

\* The unconditional write; the owner column is left alone.
SaveOffset(n) == offset' = n /\ UNCHANGED owner

\* Mutant of Accepts: a new owner may repeat the last position.
AcceptsEqual(t, n) == owner = t \/ n >= offset

\* The fence of AdvanceIfOwner: the recorded owner, or strictly ahead.
Accepts(t, n) == owner = t \/ n > offset

AdvanceIfOwner(t, n) ==
    /\ Accepts(t, n)
    /\ offset' = n
    /\ owner' = t
=============================================================================
