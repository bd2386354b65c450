----------------------------- MODULE RunProofs ------------------------------
(***************************************************************************)
(* Theorems about queued execution, for any sets of runs and workers, any  *)
(* number of crashes and any requests.                                     *)
(***************************************************************************)
EXTENDS RunProperties, FiniteSetTheorems, TLAPS

\* The initial state satisfies the invariant.
LEMMA RunInit == Init => RunInv
BY NoRunAssumption, NoWorkerAssumption
   DEF Init, QueueInit, RunInv, RunTypeOK, CompletedHasResult, Row, DeskEntry, NoRow, NoSweep,
       RowStatuses, Settled, StoreStatuses, Executing, Idle, Stored

\* Steps that only move a worker, or change the record of its run.
LEMMA RunWorker ==
    ASSUME RunInv, NEW w \in Workers,
           \/ Poll(w) \/ FindNothing(w) \/ Open(w) \/ Start(w) \/ Succeed(w) \/ Fail(w)
           \/ Save(w) \/ Complete(w)
    PROVE  RunInv'
<1>1. CASE Poll(w)
  BY <1>1, NoRunAssumption
     DEF RunInv, RunTypeOK, CompletedHasResult, Poll, AfterPoll, OwnStep, Goto, queueVars, Stored, Executing, Idle
<1>2. CASE FindNothing(w)
  BY <1>2, NoRunAssumption
     DEF RunInv, RunTypeOK, CompletedHasResult, FindNothing, OwnStep, Goto, queueVars, Stored, Executing, Idle
<1>3. CASE Open(w)
  BY <1>3, NoRunAssumption
     DEF RunInv, RunTypeOK, CompletedHasResult, Open, OwnStep, Goto, queueVars, Stored, Executing, Idle
<1>4. CASE Start(w)
  BY <1>4, NoRunAssumption
     DEF RunInv, RunTypeOK, CompletedHasResult, Start, SetStatus, StoreStatuses,
         OwnStep, Goto, queueVars, Stored, Executing, Idle
<1>5. CASE Succeed(w)
  BY <1>5, NoRunAssumption
     DEF RunInv, RunTypeOK, CompletedHasResult, Succeed, OwnStep, Goto, queueVars, Stored, Executing, Idle
<1>6. CASE Fail(w)
  BY <1>6, NoRunAssumption
     DEF RunInv, RunTypeOK, CompletedHasResult, Fail, SetStatus, StoreStatuses,
         OwnStep, Goto, queueVars, Stored, Executing, Idle
<1>7. CASE Save(w)
  BY <1>7, NoRunAssumption
     DEF RunInv, RunTypeOK, CompletedHasResult, Save, OwnStep, Goto, queueVars, Stored, Executing, Idle
<1>8. CASE Complete(w)
  BY <1>8, NoRunAssumption
     DEF RunInv, RunTypeOK, CompletedHasResult, Complete, SetStatus, StoreStatuses,
         OwnStep, Goto, queueVars, Stored, Executing, Idle
<1>. QED  BY <1>1, <1>2, <1>3, <1>4, <1>5, <1>6, <1>7, <1>8

\* A row without its lock keeps its type and has the status given to it.
LEMMA UnlockedRow ==
    ASSUME NEW row \in Row, NEW status \in RowStatuses
    PROVE  /\ Unlocked(row, status) \in Row
           /\ Unlocked(row, status).status = status
           /\ Unlocked(row, status).lock = "free"
           /\ Unlocked(row, status).holder = NoWorker
BY DEF Row, RowStatuses, Settled, Unlocked

\* A lock is written with its owner, fresh, and makes the row a running one.
LEMMA LockedRow ==
    ASSUME NEW row \in Row, NEW w \in Workers
    PROVE  /\ LockedBy(row, w) \in Row
           /\ LockedBy(row, w).status = "running"
           /\ LockedBy(row, w).lock = "fresh"
           /\ LockedBy(row, w).holder = w
BY DEF Row, RowStatuses, Settled, LockedBy

\* Steps of a worker in the queue.
LEMMA RunWorkerInQueue ==
    ASSUME RunInv, NEW w \in Workers,
           \/ Register(w) \/ (\E r \in Runs : Claim(w, r))
           \/ ReportClaim(w) \/ ReportDone(w) \/ ReportFailed(w)
           \/ MarkCompleted(w) \/ MarkFailed(w) \/ Crash(w)
    PROVE  RunInv'
<1>0. RunTypeOK
  BY DEF RunInv
<1>a. "running" \in RowStatuses /\ "completed" \in RowStatuses /\ "failed" \in RowStatuses
  BY DEF RowStatuses, Settled
<1>1. CASE Register(w)
  <2>1. desk' \in [Workers -> DeskEntry]
    BY <1>0, <1>1 DEF Register, RegisterWorker, RunTypeOK, DeskEntry
  <2>. QED
    BY <1>1, <2>1, NoRunAssumption
       DEF RunInv, RunTypeOK, CompletedHasResult, Register, RegisterWorker,
           OwnStep, Goto, Stored, Executing, Idle
<1>2. CASE \E r \in Runs : Claim(w, r)
  <2>1. PICK r \in Runs : Claim(w, r)
    BY <1>2
  <2>2. LockedBy(rows[r], w) \in Row /\ LockedBy(rows[r], w).status = "running"
    BY <1>0, LockedRow DEF RunTypeOK
  <2>3. rows' = [rows EXCEPT ![r] = LockedBy(rows[r], w)]
    BY <2>1 DEF Claim, ClaimNext
  <2>4. /\ rows' \in [Runs -> Row]
        /\ \A q \in Runs : rows[q].status # "absent" <=> rows'[q].status # "absent"
    BY <1>0, <2>1, <2>2, <2>3 DEF Claim, ClaimNext, Claimable, RunTypeOK
  <2>5. sweep' \in [on : BOOLEAN, selected : SUBSET Runs, below : SUBSET Runs]
    BY <1>0, <2>1 DEF Claim, ClaimNext, Refreshed, RunTypeOK
  <2>6. leases' \in [Runs -> Workers \cup {NoWorker}] /\ late' \in [Workers -> Nat]
    BY <1>0, <2>1 DEF Claim, ClaimNext, RunTypeOK
  <2>7. rows[r].status # "absent"
    BY <2>1 DEF Claim, ClaimNext, Claimable
  <2>. QED
    BY <2>1, <2>4, <2>5, <2>6, <2>7, NoRunAssumption
       DEF RunInv, RunTypeOK, CompletedHasResult, Claim, ClaimNext,
           Goto, Stored, Executing, Idle
<1>3. CASE ReportClaim(w) \/ ReportDone(w) \/ ReportFailed(w)
  <2>1. PICK from \in Executing, to \in Executing : Report(w, from, to) /\ to # "complete"
    BY <1>3 DEF ReportClaim, ReportDone, ReportFailed, Executing
  <2>2. job[w] \in Runs
    BY <1>0, <2>1 DEF RunTypeOK, Report
  <2>3. /\ rows' \in [Runs -> Row]
        /\ \A q \in Runs : rows[q].status # "absent" <=> rows'[q].status # "absent"
    <3>1. LockedBy(rows[job[w]], w) \in Row /\ LockedBy(rows[job[w]], w).status = "running"
      BY <1>0, <2>2, LockedRow DEF RunTypeOK
    <3>. QED  BY <1>0, <2>1, <2>2, <3>1 DEF Report, HeartbeatBusy, RunTypeOK
  <2>4. sweep' \in [on : BOOLEAN, selected : SUBSET Runs, below : SUBSET Runs]
    BY <1>0, <2>1 DEF Report, HeartbeatBusy, Refreshed, RunTypeOK
  <2>5. leases' \in [Runs -> Workers \cup {NoWorker}]
    BY <1>0, <2>1 DEF Report, HeartbeatBusy, RunTypeOK
  <2>. QED
    BY <2>1, <2>2, <2>3, <2>4, <2>5, NoRunAssumption
       DEF RunInv, RunTypeOK, CompletedHasResult, Report, HeartbeatBusy,
           OwnStep, Goto, Stored
<1>4. CASE MarkCompleted(w) \/ MarkFailed(w)
  <2>1. PICK from \in Executing, status \in {"completed", "failed"} : Mark(w, from, status)
    BY <1>4 DEF MarkCompleted, MarkFailed, Executing
  <2>2. job[w] \in Runs /\ rows[job[w]].status # "absent"
    BY <1>0, <2>1 DEF RunTypeOK, RunInv, Mark
  <2>3. /\ rows' \in [Runs -> Row]
        /\ \A q \in Runs : rows[q].status # "absent" <=> rows'[q].status # "absent"
    <3>1. Unlocked(rows[job[w]], status) \in Row
          /\ Unlocked(rows[job[w]], status).status = status
      BY <1>0, <1>a, <2>2, UnlockedRow DEF RunTypeOK
    <3>. QED  BY <1>0, <2>1, <2>2, <3>1 DEF Mark, MarkTerminal, RunTypeOK
  <2>4. leases' \in [Runs -> Workers \cup {NoWorker}]
    BY <1>0, <2>1 DEF Mark, MarkTerminal, RunTypeOK
  <2>. QED
    BY <2>1, <2>2, <2>3, <2>4, NoRunAssumption
       DEF RunInv, RunTypeOK, CompletedHasResult, Mark, MarkTerminal,
           Goto, Stored, Executing, Idle
<1>5. CASE Crash(w)
  BY <1>5, NoRunAssumption, MaxCrashesAssumption
     DEF RunInv, RunTypeOK, CompletedHasResult, Crash, Goto, queueVars, Stored, Executing, Idle
<1>. QED  BY <1>1, <1>2, <1>3, <1>4, <1>5

\* Requests of clients.
LEMMA RunRequest ==
    ASSUME RunInv, NEW r \in Runs,
           \/ CreateRun(r) \/ EnqueueRun(r) \/ DeleteRun(r)
           \/ CancelInQueue(r) \/ CancelRead(r) \/ CancelWrite(r)
    PROVE  RunInv'
<1>0. RunTypeOK
  BY DEF RunInv
<1>a. "canceled" \in RowStatuses /\ "pending" \in RowStatuses
  BY DEF RowStatuses, Settled
<1>1. CASE CreateRun(r)
  BY <1>1, NoRunAssumption
     DEF RunInv, RunTypeOK, CompletedHasResult, CreateRun, StoreStatuses, queueVars, Stored
<1>2. CASE EnqueueRun(r)
  <2>1. Cardinality(Known) + 1 \in Nat
    BY RunsAssumption, FS_Subset, FS_CardinalityType DEF Known
  <2>2. rows' = [rows EXCEPT ![r] = [Unlocked(rows[r], "pending") EXCEPT
                     !.priority = Priority[r], !.born = Cardinality(Known) + 1]]
    BY <1>0, <1>2 DEF EnqueueRun, Enqueue, RunTypeOK
  <2>3. Unlocked(rows[r], "pending") \in Row /\ Unlocked(rows[r], "pending").status = "pending"
    BY <1>0, <1>a, UnlockedRow DEF RunTypeOK
  <2>4. rows' \in [Runs -> Row] /\ rows'[r].status = "pending"
    <3>. DEFINE row == [Unlocked(rows[r], "pending") EXCEPT
                     !.priority = Priority[r], !.born = Cardinality(Known) + 1]
    <3>1. row \in Row /\ row.status = "pending"
      BY <2>1, <2>3, PriorityAssumption DEF Row
    <3>. QED  BY <1>0, <2>2, <3>1 DEF RunTypeOK
  <2>5. \A q \in Runs \ {r} : rows'[q] = rows[q]
    BY <1>0, <2>2 DEF RunTypeOK
  <2>6. store[r] # "none"
    BY <1>2 DEF EnqueueRun
  <2>. QED
    BY <1>2, <2>4, <2>5, <2>6, NoRunAssumption
       DEF RunInv, RunTypeOK, CompletedHasResult, EnqueueRun, Enqueue, Stored
<1>3. CASE DeleteRun(r)
  BY <1>3, NoRunAssumption
     DEF RunInv, RunTypeOK, CompletedHasResult, DeleteRun, StoreStatuses, queueVars, Stored
<1>4. CASE CancelInQueue(r)
  <2>1. Unlocked(rows[r], "canceled") \in Row
        /\ Unlocked(rows[r], "canceled").status = "canceled"
    BY <1>0, <1>a, UnlockedRow DEF RunTypeOK
  <2>2. /\ rows' \in [Runs -> Row]
        /\ \A q \in Runs : rows[q].status # "absent" <=> rows'[q].status # "absent"
    BY <1>0, <1>4, <2>1 DEF CancelInQueue, CancelPending, RunTypeOK
  <2>3. leases' \in [Runs -> Workers \cup {NoWorker}]
    BY <1>0, <1>4 DEF CancelInQueue, CancelPending, RunTypeOK
  <2>. QED
    BY <1>4, <2>2, <2>3, NoRunAssumption
       DEF RunInv, RunTypeOK, CompletedHasResult, CancelInQueue, CancelPending, Stored
<1>5. CASE CancelRead(r)
  BY <1>5, NoRunAssumption
     DEF RunInv, RunTypeOK, CompletedHasResult, CancelRead, queueVars, Stored
<1>6. CASE CancelWrite(r)
  BY <1>6, NoRunAssumption
     DEF RunInv, RunTypeOK, CompletedHasResult, CancelWrite, SetStatus, StoreStatuses,
         queueVars, Stored
<1>. QED  BY <1>1, <1>2, <1>3, <1>4, <1>5, <1>6

\* Steps of operators, of the scheduler and of time.
LEMMA RunOperate ==
    ASSUME RunInv, Operate \/ \E r \in Runs : Expire(r)
    PROVE  RunInv'
<1>0. RunTypeOK
  BY DEF RunInv
<1>p. "pending" \in RowStatuses
  BY DEF RowStatuses
<1>. DEFINE Kept == /\ rows' \in [Runs -> Row]
                    /\ leases' \in [Runs -> Workers \cup {NoWorker}]
                    /\ desk' \in [Workers -> DeskEntry]
                    /\ sweep' \in [on : BOOLEAN, selected : SUBSET Runs, below : SUBSET Runs]
                    /\ \A q \in Runs : rows[q].status # "absent" <=> rows'[q].status # "absent"
<1>a. Kept
  <2>1. ASSUME NEW r \in Runs, Expire(r) PROVE Kept
    <3>1. [rows[r] EXCEPT !.lock = "expired"] \in Row
          /\ [rows[r] EXCEPT !.lock = "expired"].status = rows[r].status
      BY <1>0 DEF RunTypeOK, Row
    <3>. QED  BY <1>0, <2>1, <3>1 DEF Expire, LockExpires, RunTypeOK
  <2>2. ASSUME NEW w \in Drainable, DrainWorker(w) \/ ShutdownWorker(w) PROVE Kept
    <3>1. w \in Workers /\ desk[w] \in DeskEntry
      BY <1>0, SubsetsAssumption DEF RunTypeOK
    <3>2. [desk[w] EXCEPT !.drain = TRUE] \in DeskEntry
          /\ [desk[w] EXCEPT !.shutdown = TRUE] \in DeskEntry
      BY <3>1 DEF DeskEntry
    <3>. QED  BY ZenonT(30), <1>0, <2>2, <3>1, <3>2 DEF DrainWorker, ShutdownWorker, RunTypeOK
  <2>3. ASSUME BeginRequeue PROVE Kept
    BY <1>0, <2>3 DEF BeginRequeue, RunTypeOK
  <2>4. ASSUME EndRequeue PROVE Kept
    <3>1. \A q \in Runs : Unlocked(rows[q], "pending") \in Row
                          /\ Unlocked(rows[q], "pending").status = "pending"
      BY <1>0, <1>p, UnlockedRow DEF RunTypeOK
    <3>2. rows' \in [Runs -> Row]
          /\ \A q \in Runs : rows[q].status # "absent" <=> rows'[q].status # "absent"
      BY <1>0, <2>4, <3>1 DEF EndRequeue, Reset, RunTypeOK
    <3>. QED  BY <1>0, <2>4, <3>2 DEF EndRequeue, NoSweep, RunTypeOK
  <2>. QED  BY <2>1, <2>2, <2>3, <2>4 DEF Operate
<1>b. UNCHANGED <<store, result, pc, job, cancels, crashes, late>>
  BY DEF Operate, Expire
<1>. QED
  BY <1>a, <1>b, NoRunAssumption DEF RunInv, RunTypeOK, CompletedHasResult, Stored

\* RunInv is an invariant of queued execution.
THEOREM RunInvariant == Spec => []RunInv
<1>1. RunInv /\ [Next]_vars => RunInv'
  <2>. SUFFICES ASSUME RunInv, [Next]_vars PROVE RunInv'
    OBVIOUS
  <2>1. CASE UNCHANGED vars
    BY <2>1 DEF vars, queueVars, RunInv, RunTypeOK, CompletedHasResult, Stored
  <2>2. CASE \E w \in Workers : Register(w) \/ Work(w) \/ Crash(w)
    BY <2>2, RunWorker, RunWorkerInQueue DEF Work
  <2>3. CASE Request
    BY <2>3, RunRequest DEF Request
  <2>4. CASE Operate \/ \E r \in Runs : Expire(r)
    BY <2>4, RunOperate
  <2>. QED  BY <2>1, <2>2, <2>3, <2>4 DEF Next
<1>. QED  BY RunInit, <1>1, PTL DEF Spec

\* Every variable keeps its type, and a worker has a run exactly where its loop has one.
THEOREM RunTypesHold == Spec => []RunTypeOK
BY RunInvariant, PTL DEF RunInv

\* However workers, cancels, deletions, crashes, recoveries and second executions
\* interleave, a run that the store reports completed has its results stored.
THEOREM CompletedAlwaysHasResult == Spec => []CompletedHasResult
BY RunInvariant, PTL DEF RunInv

-----------------------------------------------------------------------------
(* Requests to stop.                                                       *)

\* StopInv is an invariant: requests are not taken back, not by a restart either, and a
\* worker that polls after a request does not go on to claim.
THEOREM StopInvariant == Spec => []StopInv
<1>1. Init => StopInv
  BY DEF Init, StopInv
<1>2. RunInv /\ StopInv /\ [Next]_vars => StopInv'
  <2>. SUFFICES ASSUME RunInv, StopInv, [Next]_vars PROVE StopInv'
    OBVIOUS
  <2>0. RunTypeOK
    BY DEF RunInv
  <2>1. ASSUME NEW w \in Workers, NEW r \in Runs, Claim(w, r) PROVE StopInv'
    BY <2>0, <2>1 DEF StopInv, Claim, ClaimNext, Goto, RunTypeOK
  <2>2. ASSUME NEW w \in Workers, Poll(w) PROVE StopInv'
    BY <2>0, <2>2 DEF StopInv, Poll, AfterPoll, OwnStep, Goto, queueVars, RunTypeOK
  <2>3. ASSUME NEW w \in Workers, Register(w) PROVE StopInv'
    BY <2>0, <2>3 DEF StopInv, Register, RegisterWorker, OwnStep, Goto, RunTypeOK, DeskEntry
  <2>4. ASSUME NEW w \in Workers,
               \/ FindNothing(w) \/ Open(w) \/ Start(w) \/ Succeed(w) \/ Fail(w) \/ Save(w)
               \/ Complete(w) \/ Crash(w)
        PROVE  StopInv'
    BY <2>0, <2>4 DEF StopInv, FindNothing, Open, Start, Succeed, Fail, Save, Complete, Crash,
                      OwnStep, Goto, queueVars, RunTypeOK
  <2>5. ASSUME NEW w \in Workers,
               \/ ReportClaim(w) \/ ReportDone(w) \/ ReportFailed(w)
               \/ MarkCompleted(w) \/ MarkFailed(w)
        PROVE  StopInv'
    BY <2>0, <2>5 DEF StopInv, ReportClaim, ReportDone, ReportFailed, Report, HeartbeatBusy,
                      MarkCompleted, MarkFailed, Mark, MarkTerminal, OwnStep, Goto, RunTypeOK
  <2>6. ASSUME NEW w \in Workers, DrainWorker(w) \/ ShutdownWorker(w), UNCHANGED <<pc, late>>
        PROVE  StopInv'
    BY <2>0, <2>6 DEF StopInv, DrainWorker, ShutdownWorker, RunTypeOK, DeskEntry
  <2>7. ASSUME UNCHANGED <<desk, pc, late>> PROVE StopInv'
    BY <2>7 DEF StopInv
  <2>8. CASE Request \/ (\E r \in Runs : Expire(r)) \/ UNCHANGED vars
    BY <2>7, <2>8 DEF Request, CreateRun, EnqueueRun, Enqueue, DeleteRun, CancelInQueue,
                      CancelPending, CancelRead, CancelWrite, Expire, LockExpires, queueVars, vars
  <2>9. CASE Operate
    BY <2>6, <2>7, <2>9, SubsetsAssumption DEF Operate, BeginRequeue, EndRequeue
  <2>. QED
    BY <2>1, <2>2, <2>3, <2>4, <2>5, <2>8, <2>9 DEF Next, Work
<1>. QED  BY <1>1, <1>2, RunInvariant, PTL DEF Spec

\* A worker told to drain or to shut down claims at most the run it was about to claim,
\* however often it dies and is started again under its name.
THEOREM StoppedWorkerStopsClaiming == Spec => []StopsClaiming
<1>1. StopInv => StopsClaiming
  BY DEF StopInv, StopsClaiming
<1>. QED  BY <1>1, StopInvariant, PTL

-----------------------------------------------------------------------------
(* Executions that end within the stale window.                            *)

\* The initial state has no lock, lease or sweep.
LEMMA LockInit == Init => LockInv
BY NoRunAssumption
   DEF Init, QueueInit, LockInv, OwnerExecutes, LeaseIsLock, NoRow, NoSweep

\* The owner of a run is unique, and its run is not claimable.
LEMMA OwnerFacts ==
    ASSUME RunInv, LockInv, NEW w \in Workers, job[w] # NoRun
    PROVE  /\ job[w] \in Runs
           /\ rows[job[w]].status = "running" /\ rows[job[w]].holder = w
           /\ rows[job[w]].lock = "fresh"
           /\ ~Claimable(job[w])
           /\ \A v \in Workers : job[v] = job[w] => v = w
BY NoRunAssumption DEF RunInv, RunTypeOK, LockInv, OwnerExecutes, Claimable

\* Steps of a worker in the queue keep locks, leases and jobs together.
LEMMA LockWorker ==
    ASSUME RunInv, LockInv, NEW w \in Workers,
           \/ Register(w) \/ (\E r \in Runs : Claim(w, r))
           \/ ReportClaim(w) \/ ReportDone(w) \/ ReportFailed(w)
           \/ MarkCompleted(w) \/ MarkFailed(w) \/ Crash(w)
    PROVE  LockInv'
<1>0. RunTypeOK
  BY DEF RunInv
<1>1. CASE Register(w)
  BY <1>1 DEF Register, RegisterWorker, OwnStep, LockInv, OwnerExecutes, LeaseIsLock
<1>2. CASE \E r \in Runs : Claim(w, r)
  <2>1. PICK r \in Runs : Claim(w, r)
    BY <1>2
  <2>2. rows' = [rows EXCEPT ![r] = LockedBy(rows[r], w)]
    BY <2>1 DEF Claim, ClaimNext
  <2>3. /\ rows'[r].status = "running" /\ rows'[r].lock = "fresh" /\ rows'[r].holder = w
        /\ \A q \in Runs \ {r} : rows'[q] = rows[q]
    BY <1>0, <2>2, LockedRow DEF RunTypeOK
  <2>4. \A v \in Workers : job[v] # r
    BY <2>1, OwnerFacts, NoRunAssumption DEF Claim, ClaimNext
  <2>5. leases' = [leases EXCEPT ![r] = w] /\ job' = [job EXCEPT ![w] = r]
    BY <2>1 DEF Claim, ClaimNext
  <2>6. sweep'.below = sweep.below \ {r} /\ sweep'.selected = sweep.selected
    BY <1>0, <2>1 DEF Claim, ClaimNext, Refreshed, RunTypeOK
  <2>. QED
    BY <1>0, <2>3, <2>4, <2>5, <2>6
       DEF RunTypeOK, LockInv, OwnerExecutes, LeaseIsLock
<1>3. CASE ReportClaim(w) \/ ReportDone(w) \/ ReportFailed(w)
  <2>1. PICK from \in Executing, to \in Executing : Report(w, from, to)
    BY <1>3 DEF ReportClaim, ReportDone, ReportFailed, Executing
  <2>2. job[w] # NoRun
    BY <1>0, <2>1 DEF RunTypeOK, Report
  <2>3. rows' = [rows EXCEPT ![job[w]] = LockedBy(rows[job[w]], w)] /\ sweep' = Refreshed(job[w])
        /\ leases' = [leases EXCEPT ![job[w]] = w] /\ job' = job
    BY <2>1, <2>2, OwnerFacts DEF Report, HeartbeatBusy, OwnStep
  <2>4. /\ rows'[job[w]].status = "running" /\ rows'[job[w]].lock = "fresh"
        /\ rows'[job[w]].holder = w
        /\ \A q \in Runs \ {job[w]} : rows'[q] = rows[q]
    BY <1>0, <2>2, <2>3, OwnerFacts, LockedRow DEF RunTypeOK
  <2>5. sweep'.below = sweep.below \ {job[w]} /\ sweep'.selected = sweep.selected
    BY <1>0, <2>3 DEF Refreshed, RunTypeOK
  <2>. QED
    BY <1>0, <2>2, <2>3, <2>4, <2>5, OwnerFacts
       DEF RunTypeOK, LockInv, OwnerExecutes, LeaseIsLock
<1>4. CASE MarkCompleted(w) \/ MarkFailed(w)
  <2>1. PICK from \in Executing, status \in {"completed", "failed"} : Mark(w, from, status)
    BY <1>4 DEF MarkCompleted, MarkFailed, Executing
  <2>2. job[w] # NoRun
    BY <1>0, <2>1 DEF RunTypeOK, Mark
  <2>3. rows' = [rows EXCEPT ![job[w]] = Unlocked(rows[job[w]], status)] /\ sweep' = sweep
        /\ leases' = [leases EXCEPT ![job[w]] = NoWorker] /\ job' = [job EXCEPT ![w] = NoRun]
    BY <2>1, <2>2, OwnerFacts DEF Mark, MarkTerminal
  <2>4. rows'[job[w]].status = status /\ \A q \in Runs \ {job[w]} : rows'[q] = rows[q]
    <3>. status \in RowStatuses
      BY DEF RowStatuses, Settled
    <3>. QED  BY <1>0, <2>2, <2>3, OwnerFacts, UnlockedRow DEF RunTypeOK
  <2>5. \A v \in Workers \ {w} : job'[v] = job[v] /\ job[v] # job[w]
    BY <1>0, <2>2, <2>3, OwnerFacts DEF RunTypeOK
  <2>. QED
    BY <1>0, <2>2, <2>3, <2>4, <2>5, OwnerFacts, NoRunAssumption
       DEF RunTypeOK, LockInv, OwnerExecutes, LeaseIsLock
<1>5. CASE Crash(w)
  BY <1>0, <1>5, NoRunAssumption
     DEF Crash, queueVars, RunTypeOK, LockInv, OwnerExecutes, LeaseIsLock
<1>. QED  BY <1>1, <1>2, <1>3, <1>4, <1>5

\* So do requests, time and both halves of a sweep.
LEMMA LockOthers ==
    ASSUME RunInv, LockInv, ~Overruns, Request \/ Operate \/ \E r \in Runs : Expire(r)
    PROVE  LockInv'
<1>0. RunTypeOK /\ job' = job
  BY DEF RunInv, Request, Operate, CreateRun, EnqueueRun, DeleteRun, CancelInQueue, CancelRead,
         CancelWrite, Expire
<1>1. ASSUME NEW r \in Runs, CreateRun(r) \/ DeleteRun(r) \/ CancelRead(r) \/ CancelWrite(r)
      PROVE  LockInv'
  BY <1>0, <1>1 DEF CreateRun, DeleteRun, CancelRead, CancelWrite, queueVars,
                    LockInv, OwnerExecutes, LeaseIsLock
<1>2. ASSUME NEW r \in Runs, EnqueueRun(r) PROVE LockInv'
  <2>1. /\ rows'[r].status = "pending"
        /\ \A q \in Runs \ {r} : rows'[q] = rows[q]
    BY <1>0, <1>2 DEF EnqueueRun, Enqueue, RunTypeOK, Unlocked, Row
  <2>2. leases' = leases /\ sweep' = sweep /\ rows[r].status = "absent"
    BY <1>2 DEF EnqueueRun, Enqueue
  <2>. QED
    BY <1>0, <2>1, <2>2, NoRunAssumption
       DEF RunTypeOK, LockInv, OwnerExecutes, LeaseIsLock
<1>3. ASSUME NEW r \in Runs, CancelInQueue(r) PROVE LockInv'
  <2>1. \/ rows' = rows
        \/ /\ rows[r].status = "pending" /\ rows'[r].status = "canceled"
           /\ \A q \in Runs \ {r} : rows'[q] = rows[q]
    BY <1>0, <1>3 DEF CancelInQueue, CancelPending, RunTypeOK, Unlocked, Row
  <2>2. leases' = [leases EXCEPT ![r] = NoWorker] /\ sweep' = sweep
    BY <1>3 DEF CancelInQueue, CancelPending
  <2>. QED
    BY <1>0, <2>1, <2>2, NoRunAssumption
       DEF RunTypeOK, LockInv, OwnerExecutes, LeaseIsLock
<1>4. ASSUME NEW r \in Runs, Expire(r) PROVE LockInv'
  <2>1. /\ rows'[r].status = rows[r].status /\ rows'[r].holder = rows[r].holder
        /\ rows'[r].lock = "expired"
        /\ \A q \in Runs \ {r} : rows'[q] = rows[q]
    BY <1>0, <1>4 DEF Expire, LockExpires, RunTypeOK, Row
  <2>2. leases' = leases /\ sweep' = sweep /\ \A w \in Workers : job[w] # r
    BY <1>4, ~Overruns DEF Expire, LockExpires
  <2>. QED
    BY <1>0, <2>1, <2>2, NoRunAssumption
       DEF RunTypeOK, LockInv, OwnerExecutes, LeaseIsLock
<1>5. ASSUME NEW w \in Workers, DrainWorker(w) \/ ShutdownWorker(w) PROVE LockInv'
  BY <1>0, <1>5 DEF DrainWorker, ShutdownWorker, LockInv, OwnerExecutes, LeaseIsLock
<1>6. ASSUME BeginRequeue PROVE LockInv'
  BY <1>0, <1>6 DEF BeginRequeue, LockInv, OwnerExecutes, LeaseIsLock
<1>7. ASSUME EndRequeue PROVE LockInv'
  <2>1. \A q \in Runs : q \notin Reset => rows'[q] = rows[q]
    BY <1>7 DEF EndRequeue
  <2>2. \A w \in Workers : job[w] \notin Reset
    BY NoRunAssumption, <1>0 DEF Reset, LockInv, OwnerExecutes, RunTypeOK
  <2>3. Reset \subseteq sweep.selected
    BY DEF Reset, LockInv
  <2>. QED
    BY <1>0, <1>7, <2>1, <2>2, <2>3, NoRunAssumption
       DEF EndRequeue, NoSweep, RunTypeOK, LockInv, OwnerExecutes, LeaseIsLock
<1>. QED  BY <1>1, <1>2, <1>3, <1>4, <1>5, <1>6, <1>7, SubsetsAssumption DEF Request, Operate

\* LockInv is an invariant where executions end within the stale window.
THEOREM LockInvariant ==
    ASSUME ~Overruns
    PROVE  Spec => []LockInv
<1>1. RunInv /\ LockInv /\ [Next]_vars => LockInv'
  <2>. SUFFICES ASSUME RunInv, LockInv, [Next]_vars PROVE LockInv'
    OBVIOUS
  <2>1. CASE UNCHANGED vars
    BY <2>1 DEF vars, queueVars, LockInv, OwnerExecutes, LeaseIsLock
  <2>2. ASSUME NEW w \in Workers,
               \/ Poll(w) \/ FindNothing(w) \/ Open(w) \/ Start(w) \/ Succeed(w) \/ Fail(w)
               \/ Save(w) \/ Complete(w)
        PROVE  LockInv'
    BY <2>2 DEF Poll, FindNothing, Open, Start, Succeed, Fail, Save, Complete, OwnStep, queueVars,
                LockInv, OwnerExecutes, LeaseIsLock
  <2>3. CASE \E w \in Workers : Register(w) \/ Work(w) \/ Crash(w)
    BY <2>2, <2>3, LockWorker DEF Work
  <2>4. CASE Request \/ Operate \/ \E r \in Runs : Expire(r)
    BY <2>4, LockOthers
  <2>. QED  BY <2>1, <2>3, <2>4 DEF Next
<1>. QED  BY LockInit, RunInvariant, <1>1, PTL DEF Spec

\* Where executions end within the stale window, no run is executed by two workers and
\* none whose row was canceled or settled: its executor holds the lock all along.
THEOREM OwnerAlwaysExecutes ==
    ASSUME ~Overruns
    PROVE  Spec => []OwnerExecutes
BY LockInvariant, PTL DEF LockInv

\* Under the same condition a lease says what the lock of a running row says, although
\* heartbeats, marks, cancels and sweeps write it without looking at its owner.
THEOREM LeasesFollowLocks ==
    ASSUME ~Overruns
    PROVE  Spec => []LeaseIsLock
BY LockInvariant, PTL DEF LockInv

\* What the second execution of a long run violates holds where no run is long: two
\* workers never execute the same run at once.
THEOREM NoRunTwice ==
    ASSUME ~Overruns
    PROVE  Spec => []SingleExecutor
<1>1. RunInv /\ LockInv => SingleExecutor
  BY OwnerFacts DEF SingleExecutor, RunInv, RunTypeOK, Executing
<1>. QED  BY <1>1, RunInvariant, LockInvariant, PTL

-----------------------------------------------------------------------------
(* Rows and records.                                                       *)

\* A settled row has no worker, and of the workers only the one that has a run writes its
\* record: what a worker writes, it writes to a running row's record.
LEMMA OutcomeWorker ==
    ASSUME RunInv, LockInv, OutcomeInv, NEW w \in Workers,
           \/ Poll(w) \/ FindNothing(w) \/ Open(w) \/ Start(w) \/ Succeed(w) \/ Fail(w)
           \/ Save(w) \/ Complete(w)
    PROVE  OutcomeInv'
<1>0. RunTypeOK /\ rows' = rows /\ job' = job
  BY DEF RunInv, Poll, FindNothing, Open, Start, Succeed, Fail, Save, Complete, OwnStep, queueVars
<1>1. CASE Poll(w) \/ FindNothing(w) \/ Succeed(w) \/ Save(w)
  BY <1>0, <1>1 DEF Poll, AfterPoll, FindNothing, Succeed, Save, Goto, OutcomeInv, OutcomesAgree,
                    RunTypeOK
<1>. USE DEF Executing
<1>2. CASE Open(w)
  <2>1. job[w] \in Runs /\ store[job[w]] # "none"
    BY <1>0, <1>2 DEF Open, RunInv, RunTypeOK
  <2>. QED
    BY <1>0, <1>2, <2>1 DEF Open, Accepted, Stored, Goto, OutcomeInv, OutcomesAgree, RunTypeOK
<1>3. CASE Start(w) \/ Fail(w) \/ Complete(w)
  <2>1. job[w] # NoRun /\ pc[w] \in {"start", "execute", "complete"}
    BY <1>0, <1>3 DEF Start, Fail, Complete, RunTypeOK
  <2>2. /\ job[w] \in Runs /\ rows[job[w]].status = "running" /\ store[job[w]] # "none"
        /\ \A v \in Workers : job[v] = job[w] => v = w
    BY <2>1, OwnerFacts DEF RunInv
  <2>3. \A r \in Runs \ {job[w]} : store'[r] = store[r]
    BY <1>0, <1>3 DEF Start, Fail, Complete, SetStatus, RunTypeOK
  <2>4. OutcomesAgree'
    BY <1>0, <2>2, <2>3 DEF OutcomeInv, OutcomesAgree
  <2>5. \A v \in Workers \ {w} : pc'[v] = pc[v]
    BY <1>0, <1>3 DEF Start, Fail, Complete, Goto, RunTypeOK
  <2>6. \A v \in Workers \ {w} : pc[v] \in Executing => store'[job[v]] = store[job[v]]
    BY <1>0, <2>2, <2>3, NoRunAssumption DEF RunTypeOK
  <2>7. /\ pc'[w] \in {"report_done", "mark_completed"} => store'[job[w]] = "completed"
        /\ pc'[w] \in {"report_failed", "mark_failed"} => store'[job[w]] \in {"failed", "deleted"}
    BY <1>0, <1>3, <2>2 DEF Start, Fail, Complete, SetStatus, Stored, Goto, RunTypeOK
  <2>. QED  BY <1>0, <2>4, <2>5, <2>6, <2>7 DEF OutcomeInv
<1>. QED  BY <1>1, <1>2, <1>3

\* Steps of a worker in the queue leave the records alone.
LEMMA OutcomeWorkerInQueue ==
    ASSUME RunInv, LockInv, OutcomeInv, NEW w \in Workers,
           \/ Register(w) \/ (\E r \in Runs : Claim(w, r))
           \/ ReportClaim(w) \/ ReportDone(w) \/ ReportFailed(w)
           \/ MarkCompleted(w) \/ MarkFailed(w) \/ Crash(w)
    PROVE  OutcomeInv'
<1>0. RunTypeOK /\ store' = store
  BY DEF RunInv, Register, Claim, ReportClaim, ReportDone, ReportFailed, Report, MarkCompleted,
         MarkFailed, Mark, Crash
<1>. USE DEF Executing
<1>1. CASE Register(w) \/ Crash(w)
  <2>1. /\ rows' = rows /\ pc'[w] \in {"poll", "off"}
        /\ \A v \in Workers \ {w} : pc'[v] = pc[v] /\ job'[v] = job[v]
    BY <1>0, <1>1 DEF Register, RegisterWorker, Crash, OwnStep, Goto, queueVars, RunTypeOK
  <2>. QED  BY <1>0, <2>1 DEF OutcomeInv, OutcomesAgree
<1>2. CASE \E r \in Runs : Claim(w, r)
  <2>1. PICK r \in Runs : Claim(w, r)
    BY <1>2
  <2>2. rows'[r].status = "running" /\ \A q \in Runs \ {r} : rows'[q] = rows[q]
    BY <1>0, <2>1, LockedRow DEF Claim, ClaimNext, RunTypeOK
  <2>3. pc'[w] = "claimed" /\ \A v \in Workers \ {w} : pc'[v] = pc[v] /\ job'[v] = job[v]
    BY <1>0, <2>1 DEF Claim, Goto, RunTypeOK
  <2>. QED  BY <1>0, <2>2, <2>3 DEF OutcomeInv, OutcomesAgree
<1>3. CASE ReportClaim(w) \/ ReportDone(w) \/ ReportFailed(w)
  <2>1. PICK from \in Executing, to \in Executing :
            /\ Report(w, from, to)
            /\ <<from, to>> \in {<<"claimed", "open">>, <<"report_done", "mark_completed">>,
                                 <<"report_failed", "mark_failed">>}
    BY <1>3 DEF ReportClaim, ReportDone, ReportFailed
  <2>2. job[w] # NoRun /\ job' = job /\ pc[w] = from /\ pc' = [pc EXCEPT ![w] = to]
    BY <1>0, <2>1 DEF RunTypeOK, Report, OwnStep, Goto
  <2>3. \A q \in Runs : rows'[q].status = rows[q].status
    <3>1. /\ rows \in [Runs -> Row] /\ job[w] \in Runs /\ rows[job[w]].status = "running"
          /\ rows' = [rows EXCEPT ![job[w]] = LockedBy(rows[job[w]], w)]
      BY <1>0, <2>1, <2>2, OwnerFacts DEF Report, HeartbeatBusy, RunTypeOK
    <3>2. LockedBy(rows[job[w]], w).status = "running"
      BY <3>1, LockedRow
    <3>. QED  BY <3>1, <3>2
  <2>. QED  BY <1>0, <2>1, <2>2, <2>3 DEF OutcomeInv, OutcomesAgree, RunTypeOK
<1>4. CASE MarkCompleted(w) \/ MarkFailed(w)
  <2>1. PICK from \in Executing, status \in {"completed", "failed"} :
            /\ Mark(w, from, status)
            /\ <<from, status>> \in {<<"mark_completed", "completed">>, <<"mark_failed", "failed">>}
    BY <1>4 DEF MarkCompleted, MarkFailed
  <2>2. job[w] # NoRun
    BY <1>0, <2>1 DEF RunTypeOK, Mark
  <2>3. rows'[job[w]].status = status /\ \A q \in Runs \ {job[w]} : rows'[q] = rows[q]
    <3>. status \in RowStatuses
      BY DEF RowStatuses, Settled
    <3>. QED  BY <1>0, <2>1, <2>2, OwnerFacts, UnlockedRow DEF Mark, MarkTerminal, RunTypeOK
  <2>4. /\ pc[w] = from /\ pc'[w] = "poll"
        /\ \A v \in Workers \ {w} : pc'[v] = pc[v] /\ job'[v] = job[v]
    BY <1>0, <2>1 DEF Mark, Goto, RunTypeOK
  <2>5. \/ store[job[w]] \in {"completed", "canceled", "deleted"}
        \/ (status = "failed" /\ store[job[w]] = "failed")
    BY <2>1, <2>4 DEF OutcomeInv
  <2>. QED  BY <1>0, <2>1, <2>3, <2>4, <2>5 DEF OutcomeInv, OutcomesAgree
<1>. QED  BY <1>1, <1>2, <1>3, <1>4

\* Requests, time and sweeps: a cancel or a deletion is final, a new row is pending, a
\* reset row was running.
LEMMA OutcomeOthers ==
    ASSUME RunInv, LockInv, OutcomeInv, Request \/ Operate \/ \E r \in Runs : Expire(r)
    PROVE  OutcomeInv'
<1>0. RunTypeOK /\ job' = job /\ pc' = pc
  BY DEF RunInv, Request, Operate, CreateRun, EnqueueRun, DeleteRun, CancelInQueue, CancelRead,
         CancelWrite, Expire
<1>a. ASSUME \A q \in Runs : \/ store'[q] = store[q]
                             \/ store'[q] \in {"canceled", "deleted"}
                             \/ rows[q].status = "absent" /\ store[q] = "none",
             \A q \in Runs : \/ rows'[q].status = rows[q].status
                             \/ rows'[q].status \notin {"completed", "failed"}
      PROVE  OutcomeInv'
  <2>1. OutcomesAgree'
    BY <1>a DEF OutcomeInv, OutcomesAgree
  <2>2. \A w \in Workers : pc[w] \in Executing =>
            job[w] \in Runs /\ rows[job[w]].status # "absent"
    BY <1>0 DEF RunInv, RunTypeOK
  <2>. QED  BY <1>0, <1>a, <2>1, <2>2 DEF OutcomeInv, Executing
<1>1. ASSUME NEW r \in Runs, CreateRun(r) PROVE OutcomeInv'
  BY <1>0, <1>a, <1>1 DEF CreateRun, queueVars, RunInv, RunTypeOK
<1>2. ASSUME NEW r \in Runs, DeleteRun(r) \/ CancelRead(r) \/ CancelWrite(r) PROVE OutcomeInv'
  BY <1>0, <1>a, <1>2 DEF DeleteRun, CancelRead, CancelWrite, SetStatus, queueVars, RunTypeOK
<1>3. ASSUME NEW r \in Runs, EnqueueRun(r) PROVE OutcomeInv'
  <2>1. /\ rows'[r].status = "pending"
        /\ \A q \in Runs \ {r} : rows'[q] = rows[q]
    BY <1>0, <1>3 DEF EnqueueRun, Enqueue, RunTypeOK, Unlocked, Row
  <2>. QED  BY <1>a, <1>3, <2>1 DEF EnqueueRun
<1>4. ASSUME NEW r \in Runs, CancelInQueue(r) PROVE OutcomeInv'
  <2>1. \/ rows' = rows
        \/ /\ rows'[r].status = "canceled"
           /\ \A q \in Runs \ {r} : rows'[q] = rows[q]
    BY <1>0, <1>4 DEF CancelInQueue, CancelPending, RunTypeOK, Unlocked, Row
  <2>. QED  BY <1>a, <1>4, <2>1 DEF CancelInQueue
<1>5. ASSUME NEW r \in Runs, Expire(r) PROVE OutcomeInv'
  <2>1. \A q \in Runs : rows'[q].status = rows[q].status
    BY <1>0, <1>5 DEF Expire, LockExpires, RunTypeOK, Row
  <2>. QED  BY <1>a, <1>5, <2>1 DEF Expire
<1>6. ASSUME Operate PROVE OutcomeInv'
  <2>1. CASE EndRequeue
    <3>. "pending" \in RowStatuses
      BY DEF RowStatuses
    <3>1. \A q \in Runs : rows'[q] = rows[q] \/ rows'[q].status = "pending"
      BY <1>0, <2>1, UnlockedRow DEF EndRequeue, RunTypeOK
    <3>. QED  BY <1>a, <1>6, <3>1 DEF Operate
  <2>2. CASE rows' = rows
    BY <1>a, <1>6, <2>2 DEF Operate
  <2>. QED  BY <1>6, <2>1, <2>2 DEF Operate, DrainWorker, ShutdownWorker, BeginRequeue
<1>. QED  BY <1>1, <1>2, <1>3, <1>4, <1>5, <1>6 DEF Request

\* Where executions end within the stale window, a completed row is never that of a failed
\* or unfinished run, and a failed row never that of an unfinished one, whatever crashes,
\* cancels, deletions and recoveries came in between.
THEOREM OutcomesAlwaysAgree ==
    ASSUME ~Overruns
    PROVE  Spec => []OutcomesAgree
<1>1. Init => OutcomeInv
  BY DEF Init, QueueInit, NoRow, OutcomeInv, OutcomesAgree
<1>2. RunInv /\ LockInv /\ OutcomeInv /\ [Next]_vars => OutcomeInv'
  <2>. SUFFICES ASSUME RunInv, LockInv, OutcomeInv, [Next]_vars PROVE OutcomeInv'
    OBVIOUS
  <2>1. CASE UNCHANGED vars
    BY <2>1 DEF vars, queueVars, OutcomeInv, OutcomesAgree
  <2>2. CASE \E w \in Workers : Register(w) \/ Work(w) \/ Crash(w)
    BY <2>2, OutcomeWorker, OutcomeWorkerInQueue DEF Work
  <2>3. CASE Request \/ Operate \/ \E r \in Runs : Expire(r)
    BY <2>3, OutcomeOthers
  <2>. QED  BY <2>1, <2>2, <2>3 DEF Next
<1>3. OutcomeInv => OutcomesAgree
  BY DEF OutcomeInv
<1>. QED  BY <1>1, <1>2, <1>3, RunInvariant, LockInvariant, PTL DEF Spec

-----------------------------------------------------------------------------
(* The board.                                                              *)

\* Where the board shows a run, by the status of its row and the jobs of the workers.
LEMMA StageFacts ==
    ASSUME RunInv, NEW r \in Runs
    PROVE  /\ rows[r].status = "absent" => Stage(r) = "absent"
           /\ rows[r].status \in Settled => Stage(r) = "done"
           /\ rows[r].status \in {"pending", "running"} =>
                  Stage(r) = IF \E w \in Workers : job[w] = r THEN "held" ELSE "waiting"
           /\ rows[r].status \in RowStatuses
BY DEF RunInv, RunTypeOK, Row, RowStatuses, Settled, Stage

\* The same in the next state.
LEMMA StageFactsNext ==
    ASSUME RunInv', NEW r \in Runs
    PROVE  /\ rows'[r].status = "absent" => Stage(r)' = "absent"
           /\ rows'[r].status \in Settled => Stage(r)' = "done"
           /\ rows'[r].status \in {"pending", "running"} =>
                  Stage(r)' = IF \E w \in Workers : job'[w] = r THEN "held" ELSE "waiting"
           /\ rows'[r].status \in RowStatuses
BY DEF RunInv, RunTypeOK, Row, RowStatuses, Settled, Stage

\* A step that moves no job, and no row between absent, active and settled, is not seen.
LEMMA BoardStutter ==
    ASSUME RunInv, RunInv', job' = job,
           \A q \in Runs : \/ rows'[q].status = rows[q].status
                           \/ /\ rows[q].status \in {"pending", "running"}
                              /\ rows'[q].status \in {"pending", "running"}
    PROVE  UNCHANGED Board!vars
<1>1. \A q \in Runs : Stage(q)' = Stage(q)
  BY StageFacts, StageFactsNext DEF RowStatuses, Settled
<1>. QED  BY <1>1 DEF Board!vars

\* A step that moves one run on the board.
LEMMA BoardMove ==
    ASSUME RunInv, RunInv', NEW r \in Runs, NEW from, NEW to, NEW ks,
           Stage(r) = from, Stage(r)' = to, {w \in Workers : job'[w] = r} = ks,
           \A q \in Runs \ {r} : rows'[q].status = rows[q].status,
           \A q \in Runs \ {r} : \A w \in Workers : job'[w] = q <=> job[w] = q
    PROVE  Board!Move(r, from, to, ks)
<1>1. \A q \in Runs \ {r} : {w \in Workers : job'[w] = q} = {w \in Workers : job[w] = q}
  OBVIOUS
<1>2. \A q \in Runs \ {r} : Stage(q)' = Stage(q)
  BY StageFacts, StageFactsNext DEF RowStatuses, Settled
<1>3. [q \in Runs |-> Stage(q)]' = [[q \in Runs |-> Stage(q)] EXCEPT ![r] = to]
  BY <1>2
<1>4. [q \in Runs |-> {w \in Workers : job[w] = q}]'
      = [[q \in Runs |-> {w \in Workers : job[w] = q}] EXCEPT ![r] = ks]
  BY ZenonT(30), <1>1
<1>5. [q \in Runs |-> Stage(q)][r] = from
  OBVIOUS
<1>. QED  BY <1>3, <1>4, <1>5 DEF Board!Move

\* Every step of a worker is a step of the board or leaves it alone.
LEMMA BoardWorker ==
    ASSUME RunInv, RunInv', LockInv, LockInv', NEW w \in Workers,
           Register(w) \/ Work(w) \/ Crash(w)
    PROVE  [Board!Next]_(Board!vars)
<1>0. RunTypeOK /\ RunTypeOK'
  BY DEF RunInv
<1>1. CASE \/ Register(w) \/ Poll(w) \/ FindNothing(w) \/ Open(w) \/ Start(w) \/ Succeed(w)
           \/ Fail(w) \/ Save(w) \/ Complete(w)
  <2>1. rows' = rows /\ job' = job
    BY <1>1 DEF Register, RegisterWorker, Poll, FindNothing, Open, Start, Succeed, Fail, Save,
                Complete, OwnStep, queueVars
  <2>. QED  BY <2>1, BoardStutter
<1>2. CASE \E r \in Runs : Claim(w, r)
  <2>1. PICK r \in Runs : Claim(w, r)
    BY <1>2
  <2>2. \A v \in Workers : job[v] # r
    BY <2>1, OwnerFacts, NoRunAssumption DEF Claim, ClaimNext
  <2>3. job[w] = NoRun
    BY <1>0, <2>1 DEF Claim, RunTypeOK, Executing
  <2>4. job' = [job EXCEPT ![w] = r] /\ rows' = [rows EXCEPT ![r] = LockedBy(rows[r], w)]
    BY <2>1 DEF Claim, ClaimNext
  <2>5. /\ rows[r].status \in {"pending", "running"} /\ rows'[r].status = "running"
        /\ \A q \in Runs \ {r} : rows'[q].status = rows[q].status
    BY <1>0, <2>1, <2>4, LockedRow DEF Claim, ClaimNext, Claimable, RunTypeOK
  <2>6. Stage(r) = "waiting" /\ Stage(r)' = "held"
    BY <1>0, <2>2, <2>4, <2>5, StageFacts, StageFactsNext DEF RunTypeOK
  <2>7. {v \in Workers : job'[v] = r} = {w}
    BY <1>0, <2>2, <2>4 DEF RunTypeOK
  <2>8. \A q \in Runs \ {r} : \A v \in Workers : job'[v] = q <=> job[v] = q
    BY <1>0, <2>3, <2>4, NoRunAssumption DEF RunTypeOK
  <2>9. Board!Move(r, "waiting", "held", {w})
    BY <2>5, <2>6, <2>7, <2>8, BoardMove
  <2>10. \A q \in Runs : w \notin {v \in Workers : job[v] = q}
    BY <2>3, NoRunAssumption
  <2>11. Board!Take(r, w)
    BY <2>9, <2>10 DEF Board!Take
  <2>. QED  BY <2>11 DEF Board!Next
<1>3. CASE ReportClaim(w) \/ ReportDone(w) \/ ReportFailed(w)
  <2>1. PICK from \in Executing, to \in Executing : Report(w, from, to)
    BY <1>3 DEF ReportClaim, ReportDone, ReportFailed, Executing
  <2>2. job[w] # NoRun
    BY <1>0, <2>1 DEF RunTypeOK, Report
  <2>3. rows' = [rows EXCEPT ![job[w]] = LockedBy(rows[job[w]], w)] /\ job' = job
    BY <2>1, <2>2, OwnerFacts DEF Report, HeartbeatBusy, OwnStep
  <2>4. \A q \in Runs : rows'[q].status = rows[q].status
    BY <1>0, <2>2, <2>3, OwnerFacts, LockedRow DEF RunTypeOK
  <2>. QED  BY <2>3, <2>4, BoardStutter
<1>4. CASE MarkCompleted(w) \/ MarkFailed(w)
  <2>1. PICK from \in Executing, status \in {"completed", "failed"} : Mark(w, from, status)
    BY <1>4 DEF MarkCompleted, MarkFailed, Executing
  <2>2. job[w] # NoRun
    BY <1>0, <2>1 DEF RunTypeOK, Mark
  <2>3. rows' = [rows EXCEPT ![job[w]] = Unlocked(rows[job[w]], status)]
        /\ job' = [job EXCEPT ![w] = NoRun]
    BY <2>1, <2>2, OwnerFacts DEF Mark, MarkTerminal
  <2>4. job[w] \in Runs /\ rows[job[w]].status = "running"
        /\ \A v \in Workers : job[v] = job[w] => v = w
    BY <2>2, OwnerFacts
  <2>5. rows'[job[w]].status \in Settled
        /\ \A q \in Runs \ {job[w]} : rows'[q].status = rows[q].status
    <3>. status \in RowStatuses /\ status \in Settled
      BY DEF RowStatuses, Settled
    <3>. QED  BY <1>0, <2>3, <2>4, UnlockedRow DEF RunTypeOK
  <2>6. Stage(job[w]) = "held"
    BY <2>4, StageFacts
  <2>7. {v \in Workers : job'[v] = job[w]} = {}
    BY <1>0, <2>2, <2>3, <2>4 DEF RunTypeOK
  <2>8. \A q \in Runs \ {job[w]} : \A v \in Workers : job'[v] = q <=> job[v] = q
    BY <1>0, <2>3, NoRunAssumption DEF RunTypeOK
  <2>9. \A r \in Runs : r = job[w] => Board!Move(r, "held", "done", {})
    <3>. SUFFICES ASSUME NEW r \in Runs, r = job[w] PROVE Board!Move(r, "held", "done", {})
      OBVIOUS
    <3>1. Stage(r)' = "done"
      BY <2>5, StageFactsNext
    <3>. QED  BY <2>5, <2>6, <2>7, <2>8, <3>1, BoardMove
  <2>10. PICK r \in Runs : r = job[w]
    BY <2>4
  <2>11. Board!Settle(r)
    BY <2>9, <2>10 DEF Board!Settle
  <2>. QED  BY <2>11 DEF Board!Next
<1>5. CASE Crash(w)
  <2>1. rows' = rows /\ job' = [job EXCEPT ![w] = NoRun]
    BY <1>5 DEF Crash, queueVars
  <2>2. CASE job[w] = NoRun
    <3>1. job' = job
      BY <1>0, <2>1, <2>2 DEF RunTypeOK
    <3>. QED  BY <2>1, <3>1, BoardStutter
  <2>3. CASE job[w] # NoRun
    <3>1. PICK r \in Runs : r = job[w]
      BY <2>3, OwnerFacts
    <3>2. rows[r].status = "running" /\ \A v \in Workers : job[v] = r => v = w
      BY <2>3, <3>1, OwnerFacts
    <3>3. {v \in Workers : job'[v] = r} = {} /\ ~\E v \in Workers : job'[v] = r
      BY <1>0, <2>1, <2>3, <3>1, <3>2 DEF RunTypeOK
    <3>4. \A q \in Runs \ {r} : \A v \in Workers : job'[v] = q <=> job[v] = q
      BY <1>0, <2>1, <3>1, NoRunAssumption DEF RunTypeOK
    <3>5. Stage(r) = "held" /\ Stage(r)' = "waiting"
      BY <2>1, <3>1, <3>2, <3>3, StageFacts, StageFactsNext
    <3>6. Board!Move(r, "held", "waiting", {})
      BY <2>1, <3>3, <3>4, <3>5, BoardMove
    <3>7. Board!GiveBack(r)
      BY <3>6 DEF Board!GiveBack
    <3>. QED  BY <3>7 DEF Board!Next
  <2>. QED  BY <2>2, <2>3
<1>. QED  BY <1>1, <1>2, <1>3, <1>4, <1>5 DEF Work

\* And so is every other step.
LEMMA BoardOthers ==
    ASSUME RunInv, RunInv', LockInv, LockInv', Request \/ Operate \/ \E r \in Runs : Expire(r)
    PROVE  [Board!Next]_(Board!vars)
<1>0. RunTypeOK /\ RunTypeOK' /\ job' = job
  BY DEF RunInv, Request, Operate, CreateRun, EnqueueRun, DeleteRun, CancelInQueue, CancelRead,
         CancelWrite, Expire
<1>1. ASSUME NEW r \in Runs, CreateRun(r) \/ DeleteRun(r) \/ CancelRead(r) \/ CancelWrite(r)
      PROVE  [Board!Next]_(Board!vars)
  <2>1. rows' = rows
    BY <1>1 DEF CreateRun, DeleteRun, CancelRead, CancelWrite, queueVars
  <2>. QED  BY <1>0, <2>1, BoardStutter
<1>2. ASSUME NEW r \in Runs, EnqueueRun(r) PROVE [Board!Next]_(Board!vars)
  <2>1. /\ rows[r].status = "absent" /\ rows'[r].status = "pending"
        /\ \A q \in Runs \ {r} : rows'[q] = rows[q]
    BY <1>0, <1>2 DEF EnqueueRun, Enqueue, RunTypeOK, Unlocked, Row
  <2>2. {v \in Workers : job'[v] = r} = {} /\ ~\E v \in Workers : job'[v] = r
    BY <1>0, <2>1, OwnerFacts, NoRunAssumption
  <2>3. Stage(r) = "absent" /\ Stage(r)' = "waiting"
    BY <2>1, <2>2, StageFacts, StageFactsNext
  <2>4. Board!Move(r, "absent", "waiting", {})
    BY <1>0, <2>1, <2>2, <2>3, BoardMove
  <2>5. Board!Post(r)
    BY <2>4 DEF Board!Post
  <2>. QED  BY <2>5 DEF Board!Next
<1>3. ASSUME NEW r \in Runs, CancelInQueue(r) PROVE [Board!Next]_(Board!vars)
  <2>1. \/ rows' = rows
        \/ /\ rows[r].status = "pending" /\ rows'[r].status = "canceled"
           /\ \A q \in Runs \ {r} : rows'[q] = rows[q]
    BY <1>0, <1>3 DEF CancelInQueue, CancelPending, RunTypeOK, Unlocked, Row
  <2>2. CASE rows' = rows
    BY <1>0, <2>2, BoardStutter
  <2>3. CASE /\ rows[r].status = "pending" /\ rows'[r].status = "canceled"
             /\ \A q \in Runs \ {r} : rows'[q] = rows[q]
    <3>1. {v \in Workers : job'[v] = r} = {} /\ ~\E v \in Workers : job[v] = r
      BY <1>0, <2>3, OwnerFacts, NoRunAssumption
    <3>2. Stage(r) = "waiting" /\ Stage(r)' = "done"
      BY <2>3, <3>1, StageFacts, StageFactsNext DEF Settled
    <3>3. Board!Move(r, "waiting", "done", {})
      BY <1>0, <2>3, <3>1, <3>2, BoardMove
    <3>4. Board!Drop(r)
      BY <3>3 DEF Board!Drop
    <3>. QED  BY <3>4 DEF Board!Next
  <2>. QED  BY <2>1, <2>2, <2>3
<1>4. ASSUME NEW r \in Runs, Expire(r) PROVE [Board!Next]_(Board!vars)
  <2>1. \A q \in Runs : rows'[q].status = rows[q].status
    BY <1>0, <1>4 DEF Expire, LockExpires, RunTypeOK, Row
  <2>. QED  BY <1>0, <2>1, BoardStutter
<1>5. ASSUME Operate PROVE [Board!Next]_(Board!vars)
  <2>1. CASE EndRequeue
    <3>1. \A q \in Reset : rows[q].status = "running" /\ rows'[q].status = "pending"
      <4>1. "pending" \in RowStatuses
        BY DEF RowStatuses
      <4>2. \A q \in Reset : q \in Runs /\ rows'[q] = Unlocked(rows[q], "pending")
        BY <1>0, <2>1 DEF EndRequeue, Reset, RunTypeOK
      <4>. QED  BY <1>0, <4>1, <4>2, UnlockedRow DEF Reset, RunTypeOK
    <3>2. \A q \in Runs \ Reset : rows'[q].status = rows[q].status
      BY <2>1 DEF EndRequeue
    <3>. QED  BY <1>0, <3>1, <3>2, BoardStutter
  <2>2. CASE rows' = rows
    BY <1>0, <2>2, BoardStutter
  <2>. QED  BY <1>5, <2>1, <2>2 DEF Operate, DrainWorker, ShutdownWorker, BeginRequeue
<1>. QED  BY <1>1, <1>2, <1>3, <1>4, <1>5 DEF Request

\* Where executions end within the stale window, queue rows, locks, leases, heartbeats
\* and sweeps implement the board: a run is taken by one worker at a time, comes back
\* only when that worker has died, and is done once and for ever.
THEOREM QueueImplementsBoard ==
    ASSUME ~Overruns
    PROVE  Spec => BoardSpec
<1>1. Init => Board!Init
  <2>. SUFFICES ASSUME Init PROVE Board!Init
    OBVIOUS
  <2>1. \A r \in Runs : Stage(r) = "absent" /\ {w \in Workers : job[w] = r} = {}
    <3>1. \A r \in Runs : rows[r].status = "absent"
      BY DEF Init, QueueInit, NoRow
    <3>2. \A r \in Runs : {w \in Workers : job[w] = r} = {}
      BY NoRunAssumption DEF Init
    <3>. QED  BY <3>1, <3>2, RunInit, StageFacts
  <2>. QED  BY <2>1 DEF Board!Init
<1>2. /\ RunInv /\ RunInv' /\ LockInv /\ LockInv' /\ [Next]_vars
      => [Board!Next]_(Board!vars)
  <2>. SUFFICES ASSUME RunInv, RunInv', LockInv, LockInv', [Next]_vars
                PROVE  [Board!Next]_(Board!vars)
    OBVIOUS
  <2>1. CASE UNCHANGED vars
    BY <2>1, BoardStutter DEF vars, queueVars
  <2>2. CASE Next
    BY <2>2, BoardWorker, BoardOthers DEF Next
  <2>. QED  BY <2>1, <2>2
<1>. QED  BY <1>1, <1>2, RunInvariant, LockInvariant, PTL DEF Spec, BoardSpec, Board!Spec

=============================================================================
