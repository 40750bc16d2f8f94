----------------------------- MODULE Projection -----------------------------
(***************************************************************************)
(* The projection coordinator (kernel/projection): a live handler fed by   *)
(* the in-memory bus, which delivers the events of the subscribed topic    *)
(* one at a time and in order, and a rebuild that shuts the gate, resets   *)
(* the read model and replays the whole journal into it.                   *)
(*                                                                         *)
(* LoadOffset is a plain read and a transaction takes effect when it       *)
(* commits, so the read and the commit are two steps; so are the moment    *)
(* when OnReset empties the read model and the commit of the reset.        *)
(***************************************************************************)
EXTENDS ReadModelStore, FiniteSetsExt

CONSTANTS
    Own,         \* positions of the subscribed topic; the others are foreign
    MaxRetries,  \* deliveries of an event before it is dead-lettered
    MaxFaults    \* bound: errors, losses and repetitions

ASSUME ProjectionAssumption ==
    /\ Own \subseteq Positions
    /\ MaxRetries \in Nat \ {0}
    /\ MaxFaults \in Nat

VARIABLES
    phase,   \* Coordinator.phase
    gate,    \* Coordinator.liveGate: "open" or "shut"
    seen,    \* the last own position the bus has delivered or lost
    live,    \* the live handler
    reb,     \* the rebuild goroutine; kept: the entry a handler has committed behind the
             \* back of OnReset, or 0; gap: history, an event after its first head was lost
             \* before the reset
    closed,  \* Close has been called
    clean,   \* history: nothing has happened since the last reset, or ever, that may
             \* leave a hole: see the actions that clear it
    faults   \* faults so far

projectionVars == <<phase, gate, seen, live, reb, closed, clean, faults>>

NoDelivery == [at |-> "idle", pos |-> 0, read |-> 0, tries |-> 0]
NoRebuild == [at |-> "idle", head0 |-> 0, through |-> 0, snap |-> 0, pos |-> 0, read |-> 0,
              kept |-> 0, canceled |-> FALSE, gap |-> FALSE]

ProjectionInit ==
    /\ phase = "live"
    /\ gate = "open"
    /\ seen = 0
    /\ live = NoDelivery
    /\ reb = NoRebuild
    /\ closed = FALSE
    /\ clean = TRUE
    /\ faults = 0

Fault == faults < MaxFaults /\ faults' = faults + 1

\* resolvePosition: an entry the checkpoint covers is skipped.
\* Mutant of Proceeds: off by one.
ProceedsEqual(n, current) == n >= current
Proceeds(n, current) == n > current

----------------------------------------------------------------------------
(* The bus and the live handler.                                           *)

ProjectionAppend == JournalGrows /\ UNCHANGED projectionVars

Waiting == {n \in Own : seen < n /\ n <= head}

\* The next event in order.
Deliver ==
    /\ live.at = "idle"
    /\ Waiting # {}
    /\ seen' = Min(Waiting)
    /\ live' = [NoDelivery EXCEPT !.at = "gate", !.pos = seen']
    /\ UNCHANGED <<storeVars, phase, gate, reb, closed, clean, faults>>

\* The relay has published an event twice.
Redeliver(n) ==
    /\ live.at = "idle"
    /\ n <= seen
    /\ Fault
    /\ live' = [NoDelivery EXCEPT !.at = "gate", !.pos = n]
    /\ UNCHANGED <<storeVars, phase, gate, seen, reb, closed, clean>>

\* The bus is full and drops the event.
Lose ==
    /\ Waiting # {}
    /\ Fault
    /\ seen' = Min(Waiting)
    /\ clean' = FALSE
    /\ reb' = [reb EXCEPT !.gap = @ \/ (reb.at \in {"reset", "wiped"} /\ reb.head0 < seen')]
    /\ UNCHANGED <<storeVars, phase, gate, live, closed>>

\* The handler loads the gate once: past it, or parked on its channel.
enterGate ==
    /\ live.at = "gate"
    /\ live' = [live EXCEPT !.at = IF gate = "open" THEN "begun" ELSE "parked"]
    /\ UNCHANGED <<storeVars, phase, gate, seen, reb, closed, clean, faults>>

liveLoad ==
    /\ live.at = "begun"
    /\ live' = [live EXCEPT !.at = "loaded", !.read = offset]
    /\ UNCHANGED <<storeVars, phase, gate, seen, reb, closed, clean, faults>>

\* OnReset has not seen what is committed after it.
liveCommit ==
    /\ live.at = "loaded"
    /\ IF Proceeds(live.pos, live.read)
       THEN /\ Apply(live.pos)
            /\ SaveOffset(live.pos)
            /\ reb' = [reb EXCEPT !.kept = IF reb.at = "wiped" THEN live.pos ELSE @]
       ELSE UNCHANGED <<applied, offset, owner, reb>>
    /\ live' = NoDelivery
    /\ UNCHANGED <<driver, head, phase, gate, seen, closed, clean, faults>>

\* Requeue while the budget lasts; a permanent error is a dead letter at once.
liveError ==
    /\ live.at \in {"begun", "loaded"}
    /\ Fault
    /\ \/ /\ live.tries + 1 < MaxRetries
          /\ live' = [live EXCEPT !.at = "gate", !.tries = @ + 1]
          /\ UNCHANGED clean
       \/ /\ live' = NoDelivery
          /\ clean' = FALSE
    /\ UNCHANGED <<storeVars, phase, gate, seen, reb, closed>>

----------------------------------------------------------------------------
(* The rebuild.                                                            *)

RebuildAt(from, to) == reb.at = from /\ reb' = [reb EXCEPT !.at = to]

\* openGate closes the channel: whoever is parked on it is past the gate.
openGate ==
    /\ gate' = "open"
    /\ live' = IF live.at = "parked" THEN [live EXCEPT !.at = "begun"] ELSE live

\* Admission: one rebuild at a time.
Rebuild ==
    /\ phase = "live"
    /\ phase' = "stopped"
    /\ reb' = [NoRebuild EXCEPT !.at = "admitted"]
    /\ UNCHANGED <<storeVars, gate, seen, live, closed, clean, faults>>

shutGate ==
    /\ RebuildAt("admitted", "head0")
    /\ gate' = "shut"
    /\ UNCHANGED <<storeVars, phase, seen, live, closed, clean, faults>>

captureHead ==
    /\ reb.at = "head0"
    /\ ~reb.canceled
    /\ reb' = [reb EXCEPT !.at = "reset", !.head0 = head, !.through = head]
    /\ phase' = "reset"
    /\ UNCHANGED <<storeVars, gate, seen, live, closed, clean, faults>>

\* OnReset empties the read model, as far as its transaction sees it.
onReset ==
    /\ RebuildAt("reset", "wiped")
    /\ ~reb.canceled
    /\ UNCHANGED <<storeVars, phase, gate, seen, live, closed, clean, faults>>

\* SaveOffset(0) and the commit.  A handler past the gate does not know.
commitReset ==
    /\ reb.at = "wiped"
    /\ ~reb.canceled
    /\ applied' = [n \in Positions |-> IF n = reb.kept THEN 1 ELSE 0]
    /\ SaveOffset(0)
    /\ reb' = [reb EXCEPT !.at = "query", !.pos = 0, !.kept = 0]
    /\ phase' = "replay"
    /\ clean' = (reb.kept = 0 /\ live.at \notin {"begun", "loaded"})
    /\ UNCHANGED <<driver, head, gate, seen, live, closed, faults>>

\* Replay opens a query, which sees the journal as it is now.
query ==
    /\ reb.at = "query"
    /\ reb' = [reb EXCEPT !.at = "drain", !.snap = head]
    /\ UNCHANGED <<storeVars, phase, gate, seen, live, closed, clean, faults>>

drainLoad ==
    /\ reb.at = "drain"
    /\ reb.pos < reb.snap
    /\ ~reb.canceled
    /\ reb' = [reb EXCEPT !.at = "loaded", !.pos = @ + 1, !.read = offset]
    /\ UNCHANGED <<storeVars, phase, gate, seen, live, closed, clean, faults>>

\* Own entries are applied, foreign ones only move the checkpoint.  The cutoff is
\* looked at after the entry; an empty journal has none.
drainCommit ==
    /\ reb.at = "loaded"
    /\ IF Proceeds(reb.pos, reb.read)
       THEN /\ SaveOffset(reb.pos)
            /\ IF reb.pos \in Own THEN Apply(reb.pos) ELSE UNCHANGED applied
       ELSE UNCHANGED <<offset, owner, applied>>
    /\ reb' = [reb EXCEPT !.at = IF reb.through > 0 /\ reb.pos >= reb.through
                                 THEN "drained" ELSE "drain"]
    /\ UNCHANGED <<driver, head, phase, gate, seen, live, closed, clean, faults>>

\* The first drain is followed by the catchup, the second by the handoff.
drainDone ==
    /\ reb.at = "drained" \/ (reb.at = "drain" /\ reb.pos >= reb.snap)
    /\ reb' = [reb EXCEPT !.at = IF phase = "replay" THEN "head1" ELSE "handoff"]
    /\ phase' = IF phase = "replay" THEN "catchup" ELSE phase
    /\ UNCHANGED <<storeVars, gate, seen, live, closed, clean, faults>>

\* The gap that has grown since the first head; without a second head the rebuild
\* is degraded, not failed.
catchupPhase ==
    /\ reb.at = "head1"
    /\ ~reb.canceled
    /\ \/ /\ reb' = [reb EXCEPT !.at = "query", !.pos = reb.head0, !.through = head]
          /\ UNCHANGED <<clean, faults>>
       \/ /\ reb' = [reb EXCEPT !.at = "handoff"]
          /\ Fault
          /\ clean' = (clean /\ ~reb.gap)
    /\ UNCHANGED <<storeVars, phase, gate, seen, live, closed>>

handoff ==
    /\ RebuildAt("handoff", "opened")
    /\ openGate
    /\ UNCHANGED <<storeVars, phase, seen, closed, clean, faults>>

Failing ==
    /\ reb.at \in {"head0", "reset", "wiped", "query", "drain", "loaded", "head1"}
    /\ \/ reb.canceled /\ UNCHANGED faults
       \/ Fault

\* Mutant of failRebuild: the gate stays shut.
failRebuildShut ==
    /\ Failing
    /\ reb' = [reb EXCEPT !.at = "opened"]
    /\ clean' = (clean /\ phase \notin {"replay", "catchup"})
    /\ UNCHANGED <<storeVars, phase, gate, live, seen, closed>>

\* An error, a panic or a cancellation; what has been reset stays reset.
failRebuild ==
    /\ Failing
    /\ reb' = [reb EXCEPT !.at = "opened"]
    /\ openGate
    /\ clean' = (clean /\ phase \notin {"replay", "catchup"})
    /\ UNCHANGED <<storeVars, phase, seen, closed>>

backToLive ==
    /\ reb.at = "opened"
    /\ reb' = NoRebuild
    /\ phase' = "live"
    /\ UNCHANGED <<storeVars, gate, seen, live, closed, clean, faults>>

\* Close cancels the rebuild it finds; one that is only admitted it does not.
Close ==
    /\ ~closed
    /\ closed' = TRUE
    /\ reb' = [reb EXCEPT !.canceled = reb.at \notin {"idle", "admitted"}]
    /\ UNCHANGED <<storeVars, phase, gate, seen, live, clean, faults>>

\* The process dies and starts again: what the bus held is lost, up to n.
RestartProjection(n) ==
    /\ Fault
    /\ phase' = "live"
    /\ gate' = "open"
    /\ seen' = n
    /\ live' = NoDelivery
    /\ reb' = NoRebuild
    /\ closed' = FALSE
    /\ clean' = (clean /\ live.at = "idle" /\ phase \notin {"replay", "catchup"}
                     /\ \A m \in Waiting : m > n)
    /\ UNCHANGED storeVars

----------------------------------------------------------------------------
Handler == Deliver \/ enterGate \/ liveLoad \/ liveCommit

RebuildStep ==
    \/ shutGate \/ captureHead \/ onReset \/ commitReset \/ query \/ drainLoad \/ drainCommit \/ drainDone
    \/ catchupPhase \/ handoff \/ backToLive \/ (reb.canceled /\ failRebuild)

ProjectionNext ==
    /\ driver = "coordinator"
    /\ \/ ProjectionAppend
       \/ Handler
       \/ \E n \in Own : Redeliver(n)
       \/ Lose
       \/ liveError
       \/ Rebuild
       \/ RebuildStep
       \/ failRebuild
       \/ Close
       \/ \E n \in seen .. head : RestartProjection(n)

----------------------------------------------------------------------------
\* As long as nothing has been lost, dead-lettered or abandoned since a reset that
\* met no handler past the gate (nor, if the rebuild then gets no second head, lost
\* between its first head and that reset), the read model reflects every own entry up to the
\* checkpoint exactly once and no other: neither the handoffs between live delivery,
\* replay and catchup nor repeated deliveries leave a hole or apply twice.
NoHole ==
    driver = "coordinator" /\ clean =>
        \A n \in Positions : applied[n] = IF n \in Own /\ n <= offset THEN 1 ELSE 0

\* Whatever happens to the rebuild, a handler parked at the gate gets past it.
ParkedResumes == (live.at = "parked") ~> (live.at # "parked")

=============================================================================
