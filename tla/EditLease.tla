----------------------------- MODULE EditLease -----------------------------
(* Who may change a version: the activities of frontend/src/lib/            *)
(* aiEditOwnership.ts, and what ProjectAIConnector makes of the answers of  *)
(* a task (reconcile, notify in projectAIConnector.ts).                     *)
EXTENDS Naturals, Batches

CONSTANTS Tasks

\* known: the answer of a task has named its request.
Waiting(v, known) == [key |-> v, state |-> "waiting", reason |-> None, inFlight |-> 0,
                      known |-> known, done |-> FALSE, superseded |-> FALSE]

\* blocksHumanEditing
Blocks(a) ==
    /\ ~a.superseded
    /\ \/ a.inFlight > 0
       \/ a.known /\ ~a.done /\ ~(a.state = "ended" /\ a.reason = "user")
       \/ a.state \notin {"completed", "ended"}

Locked(leases, v) == \E t \in Tasks : leases[t] # None /\ leases[t].key = v /\ Blocks(leases[t])

\* acquire(): the predecessor of a successor hands over what it held.
HandsOff(leases, prev, v) ==
    /\ prev # None /\ leases[prev] # None /\ leases[prev].key = v
    /\ leases[prev].inFlight = 0 /\ leases[prev].state \in {"completed", "ended"}
MayAcquire(leases, t, v, prev) == \A x \in Tasks \ {t} :
    (leases[x] # None /\ leases[x].key = v /\ Blocks(leases[x])) => x = prev /\ HandsOff(leases, prev, v)

\* assert()
MayWrite(leases, t) == leases[t] # None /\ leases[t].state \notin {"ended", "completed", "paused"}

\* end(): effective at once, whatever is under way.
Revoked(a) == IF a.state = "completed" /\ ~Blocks(a) THEN a
              ELSE [a EXCEPT !.state = "ended", !.reason = "user"]

-----------------------------------------------------------------------------
\* What a task says of itself.
View(tasks, t) == [state |-> tasks[t].state, reason |-> tasks[t].reason,
                   target |-> tasks[t].target, done |-> RequestComplete(tasks, t)]

NextState(a, r) ==
    IF a.state = "ended" /\ a.reason = "user" THEN "ended"
    ELSE IF r.state = "completed" THEN "completed"
    ELSE IF a.state = "ended" \/ r.state = "cancelled" THEN "ended"
    ELSE IF r.state = "paused" THEN "paused" ELSE "waiting"
NextReason(a, r) ==
    IF a.state = "ended" /\ a.reason = "user" THEN "user"
    ELSE IF r.state = "completed" THEN None
    ELSE IF r.state \in {"cancelled", "paused"} THEN r.reason ELSE a.reason

\* reconcile(): a later answer does not change a confirmed result.
Reconciled(a, r) ==
    IF a.state = "completed" /\ (~a.known \/ a.done) /\ r.state # "completed" THEN a
    ELSE [a EXCEPT !.key = r.target, !.known = TRUE, !.done = r.done,
                   !.state = NextState(a, r), !.reason = NextReason(a, r)]

\* notify(): every owner's view of every task, in the order of the owners.
Told(leases, owner) ==
    [t \in Tasks |-> IF leases[t] # None /\ owner.loaded /\ owner.tasks[t] # None
                     THEN Reconciled(leases[t], View(owner.tasks, t)) ELSE leases[t]]
Notified(leases, owners) == FoldLeft(Told, leases, owners)
=============================================================================
