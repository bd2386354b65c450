------------------------------ MODULE RunQueue ------------------------------
(***************************************************************************)
(* The durable run queue (SQLiteRunQueue): the tables run_queue,           *)
(* run_leases and workers of one SQLite file shared by the API process and *)
(* the worker processes.  Every operator below is one transaction.         *)
(*                                                                         *)
(* Time is abstract: a lock is fresh when it is taken or refreshed and     *)
(* expires at some later moment, locked_at < now - stale_after.  Nothing   *)
(* reads attempts, last_error, started_at, completed_at, the expiry of a   *)
(* lease or the status of a worker to decide anything: they are left out,  *)
(* and with them heartbeats without a run and detect_stale_workers.        *)
(* available_at is always the time of the call, so every pending row is    *)
(* available.                                                              *)
(***************************************************************************)
EXTENDS Integers, FiniteSets

CONSTANTS
    Runs, Workers,
    Priority,      \* [Runs -> Int]: the priority each run is enqueued with
    NoWorker       \* no lock owner, no lease

ASSUME RunsAssumption == IsFiniteSet(Runs)
ASSUME PriorityAssumption == Priority \in [Runs -> Int]
ASSUME NoWorkerAssumption == NoWorker \notin Workers

VARIABLES
    rows,     \* run_queue: status, order and lock of every run
    leases,   \* run_leases: the worker of the lease, or NoWorker
    desk,     \* workers: whether it is registered, and what the operator asked for
    sweep     \* the requeue_stale call in progress: what its SELECT returned and
              \* which rows its cutoff still covers

queueVars == <<rows, leases, desk, sweep>>

Settled == {"completed", "failed", "canceled"}
RowStatuses == {"absent", "pending", "running"} \cup Settled

NoRow == [status |-> "absent", priority |-> 0, born |-> 0, holder |-> NoWorker, lock |-> "free"]
NoSweep == [on |-> FALSE, selected |-> {}, below |-> {}]

QueueInit ==
    /\ rows = [r \in Runs |-> NoRow]
    /\ leases = [r \in Runs |-> NoWorker]
    /\ desk = [w \in Workers |-> [known |-> FALSE, drain |-> FALSE, shutdown |-> FALSE]]
    /\ sweep = NoSweep

-----------------------------------------------------------------------------
(* Rows and locks.                                                         *)

Known == {r \in Runs : rows[r].status # "absent"}
Unlocked(row, status) == [row EXCEPT !.status = status, !.holder = NoWorker, !.lock = "free"]
LockedBy(row, w) == [row EXCEPT !.status = "running", !.holder = w, !.lock = "fresh"]

\* A lock taken or refreshed now is no longer below the cutoff of a sweep.
Refreshed(r) == [sweep EXCEPT !.below = @ \ {r}]

\* enqueue: a new row, or an old one given another chance unless it runs or is
\* completed; the lock is cleared in any case.
Enqueue(r, priority) ==
    /\ rows' = [rows EXCEPT ![r] =
           IF @.status = "absent"
           THEN [Unlocked(@, "pending") EXCEPT !.priority = priority,
                                               !.born = Cardinality(Known) + 1]
           ELSE [Unlocked(@, IF @.status \in {"completed", "running"} THEN @.status ELSE "pending")
                   EXCEPT !.priority = priority]]
    /\ UNCHANGED <<leases, desk, sweep>>

\* Mutant of Claimable: failed rows are claimed again.
ClaimableFailed(r) ==
    \/ rows[r].status \in {"pending", "failed"}
    \/ rows[r].status = "running" /\ rows[r].lock = "expired"
\* Mutant of Claimable: an expired lock does not make a running row claimable.
ClaimablePending(r) == rows[r].status = "pending"

Claimable(r) ==
    \/ rows[r].status = "pending"
    \/ rows[r].status = "running" /\ rows[r].lock = "expired"

\* The order of claims: priority first, then age.
Precedes(r, q) ==
    \/ rows[r].priority > rows[q].priority
    \/ rows[r].priority = rows[q].priority /\ rows[r].born < rows[q].born

\* claim_next, when there is a row to claim.
ClaimNext(w, r) ==
    /\ Claimable(r)
    /\ \A q \in Runs \ {r} : Claimable(q) => Precedes(r, q)
    /\ rows' = [rows EXCEPT ![r] = LockedBy(@, w)]
    /\ leases' = [leases EXCEPT ![r] = w]
    /\ sweep' = Refreshed(r)
    /\ UNCHANGED desk

\* Mutant of MarkTerminal: the lease stays.
MarkTerminalLeased(r, status) ==
    /\ rows' = [rows EXCEPT ![r] = IF @.status = "completed" THEN @ ELSE Unlocked(@, status)]
    /\ UNCHANGED <<leases, desk, sweep>>

\* _mark_terminal: anyone may settle a row that is not completed.
MarkTerminal(r, status) ==
    /\ rows' = [rows EXCEPT ![r] = IF @.status = "completed" THEN @ ELSE Unlocked(@, status)]
    /\ leases' = [leases EXCEPT ![r] = NoWorker]
    /\ UNCHANGED <<desk, sweep>>

\* cancel_pending: the row is canceled if it is pending; the lease goes in any case.
CancelPending(r) ==
    /\ rows' = [rows EXCEPT ![r] = IF @.status = "pending" THEN Unlocked(@, "canceled") ELSE @]
    /\ leases' = [leases EXCEPT ![r] = NoWorker]
    /\ UNCHANGED <<desk, sweep>>

\* Time passes until the lock of a running row is older than the stale window.
LockExpires(r) ==
    /\ rows[r].status = "running" /\ rows[r].lock = "fresh"
    /\ rows' = [rows EXCEPT ![r].lock = "expired"]
    /\ UNCHANGED <<leases, desk, sweep>>

-----------------------------------------------------------------------------
(* Workers.                                                                *)

\* Mutant of RegisterWorker: registering again resets the operator's flags.
RegisterWorkerAfresh(w) ==
    /\ desk' = [desk EXCEPT ![w] = [known |-> TRUE, drain |-> FALSE, shutdown |-> FALSE]]
    /\ UNCHANGED <<rows, leases, sweep>>

\* register_worker: drain and shutdown requests of an earlier registration remain.
RegisterWorker(w) ==
    /\ desk' = [desk EXCEPT ![w].known = TRUE]
    /\ UNCHANGED <<rows, leases, sweep>>

\* heartbeat with a current run: the lease and the lock of a running row become this
\* worker's, whoever had them.
HeartbeatBusy(w, r) ==
    /\ leases' = [leases EXCEPT ![r] = w]
    /\ IF rows[r].status = "running"
       THEN rows' = [rows EXCEPT ![r] = LockedBy(@, w)] /\ sweep' = Refreshed(r)
       ELSE UNCHANGED <<rows, sweep>>
    /\ UNCHANGED desk

DrainWorker(w) ==
    /\ desk[w].known
    /\ desk' = [desk EXCEPT ![w].drain = TRUE]
    /\ UNCHANGED <<rows, leases, sweep>>

ShutdownWorker(w) ==
    /\ desk[w].known
    /\ desk' = [desk EXCEPT ![w].shutdown = TRUE]
    /\ UNCHANGED <<rows, leases, sweep>>

-----------------------------------------------------------------------------
(* requeue_stale: its SELECT and its UPDATE are two transactions.          *)

BeginRequeue ==
    /\ ~sweep.on
    /\ LET expired == {r \in Runs : rows[r].status = "running" /\ rows[r].lock = "expired"}
       IN  sweep' = [on |-> TRUE, selected |-> expired, below |-> expired]
    /\ UNCHANGED <<rows, leases, desk>>

\* Mutant of Reset: the rows the SELECT returned are reset, whatever happened since.
ResetSelected == sweep.selected

\* The rows the UPDATE resets: still running, with a lock below the cutoff.
Reset == {r \in sweep.below : rows[r].status = "running"}

\* The leases of all selected rows are deleted, a row claimed in between included.
EndRequeue ==
    /\ sweep.on
    /\ rows' = [r \in Runs |-> IF r \in Reset THEN Unlocked(rows[r], "pending") ELSE rows[r]]
    /\ leases' = [r \in Runs |-> IF r \in sweep.selected THEN NoWorker ELSE leases[r]]
    /\ sweep' = NoSweep
    /\ UNCHANGED desk
=============================================================================
