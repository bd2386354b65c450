--------------------------- MODULE RunProperties ----------------------------
(***************************************************************************)
(* What queued execution is expected to keep true.  Some of it holds of    *)
(* every deployment; some only where no run takes longer than the stale    *)
(* window (~Overruns), since a worker sends no heartbeat while a run       *)
(* executes.                                                               *)
(***************************************************************************)
EXTENDS RunLifecycle

Row == [status : RowStatuses, priority : Int, born : Nat, holder : Workers \cup {NoWorker},
        lock : {"free", "fresh", "expired"}]
DeskEntry == [known : BOOLEAN, drain : BOOLEAN, shutdown : BOOLEAN]

\* Every variable holds a value of its type, and a worker has a run exactly where the
\* loop has one.
RunTypeOK ==
    /\ rows \in [Runs -> Row]
    /\ leases \in [Runs -> Workers \cup {NoWorker}]
    /\ desk \in [Workers -> DeskEntry]
    /\ sweep \in [on : BOOLEAN, selected : SUBSET Runs, below : SUBSET Runs]
    /\ store \in [Runs -> StoreStatuses]
    /\ result \in [Runs -> BOOLEAN]
    /\ pc \in [Workers -> Executing \cup Idle]
    /\ job \in [Workers -> Runs \cup {NoRun}]
    /\ cancels \in [Runs -> {"idle", "read", "write"}]
    /\ crashes \in Nat
    /\ late \in [Workers -> Nat]
    /\ \A w \in Workers : job[w] # NoRun <=> pc[w] \in Executing

\* Without overruns a worker that has claimed a run holds the lock of its running row
\* until it settles the row: claims, heartbeats, cancels, deletions, recoveries of
\* other workers' runs and both halves of requeue_stale leave it alone.  So no run is
\* executed by two workers, and none is executed that was canceled while pending.
OwnerExecutes ==
    \A w \in Workers : job[w] # NoRun =>
        rows[job[w]].status = "running" /\ rows[job[w]].holder = w

\* Without overruns a lease never says anything else than the lock of a running row: a
\* settled run has none, and nobody but the owner of the lock has it.
LeaseIsLock ==
    \A r \in Runs : leases[r] # NoWorker =>
        rows[r].status = "running" /\ rows[r].holder = leases[r]

\* A run that is reported completed has its report and artifacts, whoever executed it
\* and whatever else happened to it.
CompletedHasResult == \A r \in Runs : store[r] = "completed" => result[r]

\* A settled queue row and the record of the run tell the same story: after a worker
\* has marked the row, the record is final too, and a completed row is not a failed run.
OutcomesAgree ==
    \A r \in Runs :
        /\ rows[r].status = "completed" => store[r] \in {"completed", "canceled", "deleted"}
        /\ rows[r].status = "failed" =>
               store[r] \in {"failed", "completed", "canceled", "deleted"}

\* A worker that was told to drain or to shut down claims at most the one run it was
\* about to claim, also if it is started again under its name.
StopsClaiming == \A w \in Workers : late[w] <= 1

\* No run is executed by two workers at once.
SingleExecutor ==
    \A w, v \in Workers : pc[w] = "execute" /\ pc[v] = "execute" /\ job[w] = job[v] => w = v

-----------------------------------------------------------------------------
(* The inductive invariants of the theorems.                               *)

\* A run in the queue was created, a claimed run is in the queue, and a worker about to
\* report a run completed has saved its results unless the run is gone.
RunInv ==
    /\ RunTypeOK
    /\ CompletedHasResult
    /\ \A r \in Runs : rows[r].status # "absent" => store[r] # "none"
    /\ \A w \in Workers : job[w] # NoRun => rows[job[w]].status # "absent"
    /\ \A w \in Workers : pc[w] = "complete" => result[job[w]] \/ ~Stored(job[w])

\* Without overruns: the lock of a run that is executed is fresh, so neither a claim nor
\* a sweep can touch it, and the rows below the cutoff of a sweep are among those it
\* selected and, if they still run, have expired locks.
LockInv ==
    /\ OwnerExecutes
    /\ LeaseIsLock
    /\ \A w \in Workers : job[w] # NoRun => rows[job[w]].lock = "fresh"
    /\ sweep.below \subseteq sweep.selected
    /\ \A r \in sweep.below : rows[r].status = "running" => rows[r].lock = "expired"

\* Without overruns: a worker about to settle a row finds the record already final, as the
\* row is going to say.
OutcomeInv ==
    /\ OutcomesAgree
    /\ \A w \in Workers : pc[w] \in {"report_done", "mark_completed"} =>
           store[job[w]] \in {"completed", "canceled", "deleted"}
    /\ \A w \in Workers : pc[w] \in {"report_failed", "mark_failed"} =>
           store[job[w]] \in {"failed", "completed", "canceled", "deleted"}

\* The request that a worker has overrun once still stands, and it is past the claim.
StopInv ==
    \A w \in Workers : late[w] # 0 =>
        late[w] = 1 /\ (desk[w].drain \/ desk[w].shutdown) /\ pc[w] # "claim"

-----------------------------------------------------------------------------
(* The queue as a board of runs.                                           *)

Stage(r) ==
    CASE rows[r].status = "absent" -> "absent"
      [] rows[r].status \in Settled -> "done"
      [] OTHER -> IF \E w \in Workers : job[w] = r THEN "held" ELSE "waiting"

Board == INSTANCE RunBoard WITH
    stage <- [r \in Runs |-> Stage(r)],
    keeper <- [r \in Runs |-> {w \in Workers : job[w] = r}]

\* Without overruns queued execution implements the board: a run is held by one worker,
\* goes back only when that worker has died, and is done for ever.
BoardSpec == Board!Spec

-----------------------------------------------------------------------------
(* Progress.                                                               *)

\* As long as some worker stays alive and is not told to stop, every enqueued run is
\* settled, also when the worker that had it died at any point.
EveryRunSettles ==
    (<>[](\E w \in Workers : pc[w] # "off" /\ ~desk[w].drain /\ ~desk[w].shutdown))
        => \A r \in Runs : rows[r].status # "absent" ~> rows[r].status \in Settled

\* A worker that is told to shut down leaves its loop.
ShutdownStops == \A w \in Workers : desk[w].shutdown ~> pc[w] = "off"
=============================================================================
