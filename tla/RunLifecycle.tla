---------------------------- MODULE RunLifecycle ----------------------------
(***************************************************************************)
(* The life of queued runs: API requests create, enqueue, cancel and       *)
(* delete runs, worker processes claim and execute them (Worker.run,       *)
(* RunExecutor, RunService, BenchmarkService), the run store keeps their   *)
(* status and results.  A step is one transaction of the queue or of the   *)
(* store; processes interleave between any two, and a worker may die       *)
(* there.                                                                  *)
(***************************************************************************)
EXTENDS RunQueue

CONSTANTS
    Benchmarks,    \* the runs executed by BenchmarkService
    Cancelable, Deletable,   \* the runs clients cancel, delete
    Drainable,     \* the workers operators drain or shut down
    MaxCrashes,    \* bound: how often a worker dies
    Overruns,      \* whether a run may take longer than the stale window
    NoRun

ASSUME SubsetsAssumption ==
    Benchmarks \subseteq Runs /\ Cancelable \subseteq Runs /\ Deletable \subseteq Runs
        /\ Drainable \subseteq Workers
ASSUME MaxCrashesAssumption == MaxCrashes \in Nat
ASSUME OverrunsAssumption == Overruns \in BOOLEAN
ASSUME NoRunAssumption == NoRun \notin Runs

VARIABLES
    store,    \* the status column of table runs
    result,   \* whether a run's report and artifacts are stored
    pc,       \* where a worker is in Worker.run
    job,      \* the run it has claimed
    cancels,  \* where a cancel request of the run is
    crashes,  \* how many workers have died
    late      \* history: how many runs a worker claimed after it was told to stop

vars == <<queueVars, store, result, pc, job, cancels, crashes, late>>

\* The points at which a worker has a run.
Executing == {"claimed", "open", "start", "execute", "save", "complete",
              "report_done", "mark_completed", "report_failed", "mark_failed"}
Idle == {"off", "poll", "claim"}
StoreStatuses == {"none", "pending", "running", "completed", "failed", "canceled", "deleted"}

Init ==
    /\ QueueInit
    /\ store = [r \in Runs |-> "none"]
    /\ result = [r \in Runs |-> FALSE]
    /\ pc = [w \in Workers |-> "off"]
    /\ job = [w \in Workers |-> NoRun]
    /\ cancels = [r \in Runs |-> "idle"]
    /\ crashes = 0
    /\ late = [w \in Workers |-> 0]

Stored(r) == store[r] \notin {"none", "deleted"}
Goto(w, point) == pc' = [pc EXCEPT ![w] = point]
\* update_run of a run that is gone changes nothing.
SetStatus(r, status) == store' = IF Stored(r) THEN [store EXCEPT ![r] = status] ELSE store
\* A step of a worker that leaves the requests of the clients and its own job alone.
OwnStep == UNCHANGED <<job, cancels, crashes, late>>

-----------------------------------------------------------------------------
(* The worker loop.                                                        *)

Register(w) ==
    /\ pc[w] = "off" /\ Goto(w, "poll")
    /\ RegisterWorker(w)
    /\ OwnStep /\ UNCHANGED <<store, result>>

\* Mutant of AfterPoll: a drain request hides a shutdown request.
AfterPollDrained(w) ==
    IF desk[w].drain THEN "poll" ELSE IF desk[w].shutdown THEN "off" ELSE "claim"

\* The loop ends at a shutdown request and sleeps, without claiming, when drained.
AfterPoll(w) ==
    IF desk[w].shutdown THEN "off" ELSE IF desk[w].drain THEN "poll" ELSE "claim"

\* get_worker: what the operator asked for is read here and acted upon later.
Poll(w) ==
    /\ pc[w] = "poll" /\ Goto(w, AfterPoll(w))
    /\ OwnStep /\ UNCHANGED <<queueVars, store, result>>

Claim(w, r) ==
    /\ pc[w] = "claim" /\ Goto(w, "claimed")
    /\ ClaimNext(w, r)
    /\ job' = [job EXCEPT ![w] = r]
    /\ late' = [late EXCEPT ![w] = @ + IF desk[w].drain \/ desk[w].shutdown THEN 1 ELSE 0]
    /\ UNCHANGED <<store, result, cancels, crashes>>

FindNothing(w) ==
    /\ pc[w] = "claim" /\ (\A r \in Runs : ~Claimable(r)) /\ Goto(w, "poll")
    /\ OwnStep /\ UNCHANGED <<queueVars, store, result>>

\* The heartbeats around an execution; none is sent during it.
Report(w, from, to) ==
    /\ pc[w] = from /\ Goto(w, to)
    /\ HeartbeatBusy(w, job[w])
    /\ OwnStep /\ UNCHANGED <<store, result>>

ReportClaim(w) == Report(w, "claimed", "open")
ReportDone(w) == Report(w, "report_done", "mark_completed")
ReportFailed(w) == Report(w, "report_failed", "mark_failed")

\* What execute_pending_run accepts: a benchmark is executed although it is canceled.
Accepted(r) ==
    Stored(r) /\ store[r] # "completed" /\ (store[r] = "canceled" => r \in Benchmarks)

Open(w) ==
    /\ pc[w] = "open"
    /\ Goto(w, IF Accepted(job[w]) THEN "start" ELSE "report_failed")
    /\ OwnStep /\ UNCHANGED <<queueVars, store, result>>

\* The status read by Open may have changed: a cancel in between is overwritten.
Start(w) ==
    /\ pc[w] = "start" /\ Goto(w, "execute")
    /\ SetStatus(job[w], "running")
    /\ OwnStep /\ UNCHANGED <<queueVars, result>>

\* Mutant of Succeed: the run is reported completed before its results are stored.
SucceedEarly(w) ==
    /\ pc[w] = "execute" /\ Goto(w, "save")
    /\ SetStatus(job[w], "completed")
    /\ OwnStep /\ UNCHANGED <<queueVars, result>>

Succeed(w) ==
    /\ pc[w] = "execute" /\ Goto(w, "save")
    /\ OwnStep /\ UNCHANGED <<queueVars, store, result>>

\* Mutant of Fail: the service does not raise again what the simulation raised.
FailSilently(w) ==
    /\ pc[w] = "execute" /\ Goto(w, "report_done")
    /\ SetStatus(job[w], "failed")
    /\ OwnStep /\ UNCHANGED <<queueVars, result>>

\* The simulation raised; the exception travels through the service to the worker.
Fail(w) ==
    /\ pc[w] = "execute" /\ Goto(w, "report_failed")
    /\ SetStatus(job[w], "failed")
    /\ OwnStep /\ UNCHANGED <<queueVars, result>>

\* store_result: nothing is stored for a run that is gone.
Save(w) ==
    /\ pc[w] = "save" /\ Goto(w, "complete")
    /\ result' = [result EXCEPT ![job[w]] = @ \/ Stored(job[w])]
    /\ OwnStep /\ UNCHANGED <<queueVars, store>>

\* The last update of the run; a run deleted meanwhile is an error.
Complete(w) ==
    /\ pc[w] = "complete"
    /\ Goto(w, IF Stored(job[w]) THEN "report_done" ELSE "report_failed")
    /\ SetStatus(job[w], "completed")
    /\ OwnStep /\ UNCHANGED <<queueVars, result>>

\* Mutant of Mark: the worker reports the run it has settled as its own.
MarkKeeping(w, from, status) ==
    /\ pc[w] = from /\ Goto(w, "poll")
    /\ MarkTerminal(job[w], status)
    /\ UNCHANGED <<store, result, job, cancels, crashes, late>>

\* The row is settled and the worker free.
Mark(w, from, status) ==
    /\ pc[w] = from /\ Goto(w, "poll")
    /\ MarkTerminal(job[w], status)
    /\ job' = [job EXCEPT ![w] = NoRun]
    /\ UNCHANGED <<store, result, cancels, crashes, late>>

MarkCompleted(w) == Mark(w, "mark_completed", "completed")
MarkFailed(w) == Mark(w, "mark_failed", "failed")

\* The process dies; what it has written stays.
Crash(w) ==
    /\ pc[w] # "off" /\ crashes < MaxCrashes
    /\ crashes' = crashes + 1
    /\ Goto(w, "off")
    /\ job' = [job EXCEPT ![w] = NoRun]
    /\ UNCHANGED <<queueVars, store, result, cancels, late>>

-----------------------------------------------------------------------------
(* Requests of clients and operators.                                      *)

\* A queued request creates the run and enqueues it in two transactions.
CreateRun(r) ==
    /\ store[r] = "none"
    /\ store' = [store EXCEPT ![r] = "pending"]
    /\ UNCHANGED <<queueVars, result, pc, job, cancels, crashes, late>>

EnqueueRun(r) ==
    /\ store[r] # "none" /\ rows[r].status = "absent"
    /\ Enqueue(r, Priority[r])
    /\ UNCHANGED <<store, result, pc, job, cancels, crashes, late>>

\* cancel_run: first the queue, then the store, which is read and written apart.
CancelInQueue(r) ==
    /\ r \in Cancelable /\ store[r] # "none" /\ cancels[r] = "idle"
    /\ cancels' = [cancels EXCEPT ![r] = "read"]
    /\ CancelPending(r)
    /\ UNCHANGED <<store, result, pc, job, crashes, late>>

CancelRead(r) ==
    /\ cancels[r] = "read"
    /\ cancels' = [cancels EXCEPT ![r] =
           IF Stored(r) /\ store[r] \notin {"completed", "canceled"} THEN "write" ELSE "idle"]
    /\ UNCHANGED <<queueVars, store, result, pc, job, crashes, late>>

CancelWrite(r) ==
    /\ cancels[r] = "write"
    /\ cancels' = [cancels EXCEPT ![r] = "idle"]
    /\ SetStatus(r, "canceled")
    /\ UNCHANGED <<queueVars, result, pc, job, crashes, late>>

\* The queue row of a deleted run stays.
DeleteRun(r) ==
    /\ r \in Deletable /\ Stored(r)
    /\ store' = [store EXCEPT ![r] = "deleted"]
    /\ result' = [result EXCEPT ![r] = FALSE]
    /\ UNCHANGED <<queueVars, pc, job, cancels, crashes, late>>

\* A lock expires while its run executes only if runs may take that long.
Expire(r) ==
    /\ Overruns \/ \A w \in Workers : job[w] # r
    /\ LockExpires(r)
    /\ UNCHANGED <<store, result, pc, job, cancels, crashes, late>>

\* Scheduler routes, the operator's requests included.
Operate ==
    /\ \/ \E w \in Drainable : DrainWorker(w) \/ ShutdownWorker(w)
       \/ BeginRequeue \/ EndRequeue
    /\ UNCHANGED <<store, result, pc, job, cancels, crashes, late>>

-----------------------------------------------------------------------------
Work(w) ==
    \/ Poll(w) \/ FindNothing(w) \/ \E r \in Runs : Claim(w, r)
    \/ ReportClaim(w) \/ Open(w) \/ Start(w)
    \/ Succeed(w) \/ Fail(w) \/ Save(w) \/ Complete(w)
    \/ ReportDone(w) \/ MarkCompleted(w) \/ ReportFailed(w) \/ MarkFailed(w)

Request ==
    \E r \in Runs :
        \/ CreateRun(r) \/ EnqueueRun(r) \/ DeleteRun(r)
        \/ CancelInQueue(r) \/ CancelRead(r) \/ CancelWrite(r)

Next ==
    \/ \E w \in Workers : Register(w) \/ Work(w) \/ Crash(w)
    \/ Request
    \/ Operate
    \/ \E r \in Runs : Expire(r)

Spec == Init /\ [][Next]_vars

\* The loop of a live worker goes on and executions end, and locks grow old; nobody has
\* to restart a worker, send a request or call the scheduler.
FairSpec ==
    /\ Spec
    /\ \A w \in Workers : WF_vars(Work(w))
    /\ \A r \in Runs : WF_vars(Expire(r))
=============================================================================
