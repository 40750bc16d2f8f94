------------------------------ MODULE Claimer ------------------------------
(***************************************************************************)
(* The two-phase idempotency keys of kernel/idempotency: Claim takes a     *)
(* processing lease, Commit turns it into a done mark, Release gives it    *)
(* back, Extend renews it.  Each call is one Lua script on Redis           *)
(* (adapters/redis/idempotency.go) or one critical section of InMemClaimer *)
(* (kernel/idempotency/inmem.go), so each is one atomic operator here; the *)
(* processes that make the calls are in Consumer.                          *)
(*                                                                         *)
(* A token is minted afresh for every acquisition and is known only to the *)
(* receipt of that acquisition.  A claimant works with one receipt at a    *)
(* time and never returns to an earlier one, so the token of a lease is    *)
(* represented by the claimant that acquired it.  Time is abstracted to    *)
(* Lapse: the TTL of a lease or of a done mark may run out at any moment.  *)
(***************************************************************************)
EXTENDS Naturals, FiniteSets

CONSTANTS
    Keys,       \* idempotency keys
    Claimants,  \* the processes that claim them
    Nobody      \* owner of no lease, and of a lease whose token was lost

ASSUME ClaimerAssumption == Nobody \notin Claimants /\ IsFiniteSet(Claimants)

VARIABLES
    mark,    \* mark[k]: "free", "leased" or "done"
    owner,   \* owner[k]: whose receipt carries the token of the lease
    lapsed,  \* lapsed[k]: the entry is past its expiry (only if Lazy)
    deploy   \* how the system is deployed, fixed for the behaviour

claimerVars == <<mark, owner, lapsed, deploy>>

\* TRUE: InMemClaimer, which keeps an entry past its expiry until the next Claim;
\* FALSE: Redis, which drops the key.
Lazy == deploy.lazy

ClaimerInit ==
    /\ mark = [k \in Keys |-> "free"]
    /\ owner = [k \in Keys |-> Nobody]
    /\ lapsed = [k \in Keys |-> FALSE]

\* Mutant of ClaimDone: a lease passes for a done mark.
ClaimDoneAny(k) == mark[k] # "free" /\ ~lapsed[k]

\* What Claim answers.
ClaimDone(k) == mark[k] = "done" /\ ~lapsed[k]
ClaimBusy(k) == mark[k] = "leased" /\ ~lapsed[k]
ClaimAcquired(k) == ~ClaimDone(k) /\ ~ClaimBusy(k)

Set(k, m, c) ==
    /\ mark' = [mark EXCEPT ![k] = m]
    /\ owner' = [owner EXCEPT ![k] = c]
    /\ lapsed' = [lapsed EXCEPT ![k] = FALSE]
    /\ UNCHANGED deploy

\* Claim answers ClaimAcquired, and c has the receipt.
Acquire(k, c) == ClaimAcquired(k) /\ Set(k, "leased", c)

\* Mutant of Holds: the token is not compared.
HoldsAny(k, c) == mark[k] = "leased"

\* The token guard of Commit, Release and Extend.
Holds(k, c) == mark[k] = "leased" /\ owner[k] = c

Commit(k, c) == IF Holds(k, c) THEN Set(k, "done", Nobody) ELSE UNCHANGED claimerVars
Release(k, c) == IF Holds(k, c) THEN Set(k, "free", Nobody) ELSE UNCHANGED claimerVars
Extend(k, c) == IF Holds(k, c) THEN Set(k, "leased", c) ELSE UNCHANGED claimerVars

\* The claimant dies or gives up with the lease unsettled: no receipt has its token.
Forsake(k, c) ==
    /\ owner' = [owner EXCEPT ![k] = IF Holds(k, c) THEN Nobody ELSE @]
    /\ UNCHANGED <<mark, lapsed, deploy>>

\* The TTL of the lease or of the done mark runs out.
Lapse(k) ==
    /\ mark[k] # "free"
    /\ ~lapsed[k]
    /\ IF Lazy
       THEN lapsed' = [lapsed EXCEPT ![k] = TRUE] /\ UNCHANGED <<mark, owner, deploy>>
       ELSE Set(k, "free", Nobody)

============================================================================
