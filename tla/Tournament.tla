----------------------------- MODULE Tournament -----------------------------
(***************************************************************************)
(* TournamentService and the processes around one tournament: the request  *)
(* that creates it, the workers that execute its children and refresh its  *)
(* report, and a client that reads, cancels or deletes.  A step is one     *)
(* transaction; of the queue only the rows' states are kept, not the locks *)
(* (RunLifecycle has them): a run of a dead worker may be claimed again.   *)
(***************************************************************************)
EXTENDS TournamentPlan

CONSTANTS
    Workers,
    Configs,       \* the requests clients make
    Runs,          \* the run ids the store hands out
    Metrics,       \* <<score, ending equity>> of a completed child
    MaxCrashes,    \* bound: how often a worker dies
    MaxRequests,   \* bound: how many requests the client makes after the creation
    Client, NoRun

ASSUME ConfigsAssumption == \A c \in Configs : IsConfig(c)
ASSUME ProcessesAssumption == Client \notin Workers /\ NoRun \notin Runs
ASSUME TournamentBounds == MaxCrashes \in Nat /\ MaxRequests \in Nat /\ IsFiniteSet(Runs)

VARIABLES
    rows,            \* the queue rows of the children
    record,          \* table runs: status and metrics of the children
    links,           \* table tournament_children
    tour,            \* table tournaments: status, and report once there is one
    creator,         \* the creating request: point, children still to create, the present one
    pc, job,         \* where a worker is, and the run it has claimed
    agg,             \* the aggregations under way, by process
    client,          \* the client's request: point, runs still to visit, the present one
    crashes, requests,
    reported,        \* history: children some stored report shows as terminal
    dropped,         \* history: children a cancel took off the queue
    lost,            \* history: children whose worker died after mark_failed
    overtaken        \* history: an older aggregation was stored over a newer one

creation == <<creator, links>>
history == <<reported, dropped, lost, overtaken>>
vars == <<rows, record, creation, tour, pc, job, agg, client, crashes, requests, history>>

NoReport == [status |-> "none"]
Absent == [status |-> "none", metrics |-> <<>>]
NoAgg == [on |-> FALSE, links |-> {}, read |-> [r \in {} |-> Absent], older |-> {}, late |-> FALSE]
Processes == Workers \cup {Client}

Init ==
    /\ rows = [r \in Runs |-> "absent"]
    /\ record = [r \in Runs |-> Absent]
    /\ links = {}
    /\ tour = [status |-> "none", report |-> NoReport]
    /\ creator = [point |-> "idle", todo |-> {}, run |-> NoRun, key |-> <<>>]
    /\ pc = [w \in Workers |-> "idle"]
    /\ job = [w \in Workers |-> NoRun]
    /\ agg = [p \in Processes |-> NoAgg]
    /\ client = [point |-> "idle", todo |-> {}, run |-> NoRun]
    /\ crashes = 0 /\ requests = 0
    /\ reported = {} /\ dropped = {} /\ lost = {} /\ overtaken = FALSE

Stored(r) == record[r].status \notin {"none", "deleted"}
SetStatus(r, status) ==
    record' = IF Stored(r) THEN [record EXCEPT ![r].status = status] ELSE record

-----------------------------------------------------------------------------
(* run_tournament.                                                         *)

\* The parent is created pending and set running before any child.
CreateTournament(c) ==
    /\ tour.status = "none" /\ WellFormed(c) /\ Expandable(c)
    /\ tour' = [tour EXCEPT !.status = "running"]
    /\ creator' = [creator EXCEPT !.point = "next", !.todo = expand_tournament(c)]
    /\ UNCHANGED <<rows, record, links, pc, job, agg, client, crashes, requests, history>>

\* The children are created in the order of their keys, under fresh ids.
CreateChild ==
    \E s \in creator.todo, r \in Runs :
        /\ creator.point = "next" /\ record[r] = Absent
        /\ \A q \in Runs : record[q] = Absent => r <= q
        /\ \A t \in creator.todo : ~Before(t.key, s.key)
        /\ record' = [record EXCEPT ![r].status = "pending"]
        /\ creator' = [point |-> "link", todo |-> creator.todo \ {s}, run |-> r, key |-> s.key]
        /\ UNCHANGED <<rows, links, tour, pc, job, agg, client, crashes, requests, history>>

\* An upsert: a second child of the same key takes the place of the first.  A child that
\* was deleted meanwhile cannot be linked, and the request fails.
LinkChild ==
    /\ creator.point = "link" /\ Stored(creator.run)
    /\ links' = {l \in links : l.key # creator.key}
                    \cup {[key |-> creator.key, run |-> creator.run]}
    /\ creator' = [creator EXCEPT !.point = "enqueue"]
    /\ UNCHANGED <<rows, record, tour, pc, job, agg, client, crashes, requests, history>>

LinkDeleted ==
    /\ creator.point = "link" /\ ~Stored(creator.run)
    /\ creator' = [creator EXCEPT !.point = "broken"]
    /\ UNCHANGED <<rows, record, links, tour, pc, job, agg, client, crashes, requests, history>>

EnqueueChild ==
    /\ creator.point = "enqueue"
    /\ rows' = [rows EXCEPT ![creator.run] = "pending"]
    /\ creator' = [creator EXCEPT !.point = "next", !.run = NoRun, !.key = <<>>]
    /\ UNCHANGED <<record, links, tour, pc, job, agg, client, crashes, requests, history>>

Created == creator.point = "next" /\ creator.todo = {}

Create == CreateChild \/ LinkChild \/ LinkDeleted \/ EnqueueChild

-----------------------------------------------------------------------------
(* aggregate, by a worker or by the client's request.                      *)

Active(p) == agg[p].on

\* The links are read at once, the records one by one, the report is written at the end.
\* older: the aggregations that were under way when this one read the links.
ListChildren(p) ==
    agg' = [agg EXCEPT ![p].on = TRUE, ![p].links = links,
                       ![p].older = {q \in Processes : Active(q)}]

Unread(p) == {l \in agg[p].links : l.run \notin DOMAIN agg[p].read}

\* A record that is gone is skipped, and counted as failed by the report.
ReadChild(p) ==
    \E l \in agg[p].links :
        /\ l \in Unread(p)
        /\ \A m \in Unread(p) : ~Before(m.key, l.key)
        /\ agg' = [agg EXCEPT ![p].read = [r \in DOMAIN @ \cup {l.run} |->
                       IF r = l.run
                       THEN IF Stored(r) THEN record[r] ELSE [Absent EXCEPT !.status = "failed"]
                       ELSE @[r]]]
        /\ UNCHANGED <<record, tour, reported, overtaken>>

WriteReport(p) ==
    LET report == build_report(agg[p].links, agg[p].read)
    IN  /\ Unread(p) = {}
        /\ tour' = [status |-> report.status, report |-> report]
        /\ agg' = [[q \in Processes |->
                       IF q \in agg[p].older /\ Active(q) THEN [agg[q] EXCEPT !.late = TRUE]
                                                          ELSE agg[q]] EXCEPT ![p] = NoAgg]
        /\ reported' = reported \cup {l.run : l \in {m \in agg[p].links :
               agg[p].read[m.run].status \in Terminal}}
        /\ overtaken' = (overtaken \/ agg[p].late)
        /\ UNCHANGED record

Aggregate(p) ==
    /\ Active(p)
    /\ ReadChild(p) \/ WriteReport(p)
    /\ UNCHANGED <<rows, creation, pc, job, client, crashes, requests, dropped, lost>>

-----------------------------------------------------------------------------
(* Worker.run with its tournament service.                                 *)

Goto(w, point) == pc' = [pc EXCEPT ![w] = point]
\* A step of a worker on the record of its run.
WorkerStep == UNCHANGED <<creation, tour, client, crashes, requests, history>>

Abandoned(r) == rows[r] = "running" /\ \A w \in Workers : job[w] # r
Settle(r) == rows' = [rows EXCEPT ![r] = "settled"]

Poll(w) == pc[w] = "idle" /\ UNCHANGED vars

Claim(w, r) ==
    /\ pc[w] = "idle" /\ Goto(w, "open")
    /\ rows[r] = "pending" \/ Abandoned(r)
    /\ rows' = [rows EXCEPT ![r] = "running"]
    /\ job' = [job EXCEPT ![w] = r]
    /\ WorkerStep /\ UNCHANGED <<record, agg>>

\* execute_pending_run refuses what is gone, completed or canceled.
Open(w) ==
    /\ pc[w] = "open"
    /\ Goto(w, IF record[job[w]].status \in {"deleted", "completed", "canceled"}
               THEN "fail" ELSE "start")
    /\ WorkerStep /\ UNCHANGED <<rows, record, job, agg>>

Start(w) ==
    /\ pc[w] = "start" /\ Goto(w, "execute")
    /\ SetStatus(job[w], "running")
    /\ WorkerStep /\ UNCHANGED <<rows, job, agg>>

FailRun(w) ==
    /\ pc[w] = "execute" /\ Goto(w, "fail")
    /\ SetStatus(job[w], "failed")
    /\ WorkerStep /\ UNCHANGED <<rows, job, agg>>

\* store_result keeps the metrics; nobody reads them before the status is completed.  A
\* run that is gone is an error.
Complete(w) ==
    /\ pc[w] = "execute"
    /\ Goto(w, IF Stored(job[w]) THEN "done" ELSE "fail")
    /\ \E m \in Metrics :
           record' = IF Stored(job[w])
                     THEN [record EXCEPT ![job[w]] = [status |-> "completed", metrics |-> m]]
                     ELSE record
    /\ WorkerStep /\ UNCHANGED <<rows, job, agg>>

\* aggregate_for_child: an aggregation starts if the tournament has the run as a child.
Find(w, from, to) ==
    /\ pc[w] = from /\ Goto(w, to)
    /\ IF \E l \in links : l.run = job[w] THEN ListChildren(w) ELSE UNCHANGED agg
    /\ WorkerStep /\ UNCHANGED <<rows, record, job>>

\* After a success the report is refreshed before the row is marked.
FindDone(w) == Find(w, "done", "mark")

\* Mutant of MarkCompleted: the row is marked without waiting for the refresh.
MarkCompletedEarly(w) ==
    /\ pc[w] = "mark" /\ Goto(w, "idle")
    /\ Settle(job[w])
    /\ job' = [job EXCEPT ![w] = NoRun]
    /\ WorkerStep /\ UNCHANGED <<record, agg>>

MarkCompleted(w) ==
    /\ pc[w] = "mark" /\ ~Active(w) /\ Goto(w, "idle")
    /\ Settle(job[w])
    /\ job' = [job EXCEPT ![w] = NoRun]
    /\ WorkerStep /\ UNCHANGED <<record, agg>>

\* Mutant of MarkFailed: the report is refreshed for completed children only.
MarkFailedOnly(w) ==
    /\ pc[w] = "fail" /\ Goto(w, "idle")
    /\ Settle(job[w])
    /\ job' = [job EXCEPT ![w] = NoRun]
    /\ WorkerStep /\ UNCHANGED <<record, agg>>

\* After a failure the row is marked first.
MarkFailed(w) ==
    /\ pc[w] = "fail" /\ Goto(w, "failed")
    /\ Settle(job[w])
    /\ WorkerStep /\ UNCHANGED <<record, job, agg>>

FindFailed(w) == Find(w, "failed", "leave")

Leave(w) ==
    /\ pc[w] = "leave" /\ ~Active(w) /\ Goto(w, "idle")
    /\ job' = [job EXCEPT ![w] = NoRun]
    /\ WorkerStep /\ UNCHANGED <<rows, record, agg>>

\* The points after mark_failed: the row is settled and will not be claimed again.
PastMark == {"failed", "leave"}

\* A worker dies with a run; what it has written stays.  Started again, it is another one.
Crash(w) ==
    /\ crashes < MaxCrashes /\ job[w] # NoRun /\ Goto(w, "off")
    /\ crashes' = crashes + 1
    /\ lost' = IF pc[w] \in PastMark THEN lost \cup {job[w]} ELSE lost
    /\ job' = [job EXCEPT ![w] = NoRun]
    /\ agg' = [agg EXCEPT ![w] = NoAgg]
    /\ UNCHANGED <<rows, record, creation, tour, client, requests, reported, dropped, overtaken>>

\* requeue_stale, for a run nobody executes any more.
Requeue(r) ==
    /\ Abandoned(r)
    /\ rows' = [rows EXCEPT ![r] = "pending"]
    /\ WorkerStep /\ UNCHANGED <<record, pc, job, agg>>

Work(w) ==
    \/ Open(w) \/ Start(w) \/ FailRun(w) \/ Complete(w) \/ FindDone(w)
    \/ MarkCompleted(w) \/ MarkFailed(w) \/ FindFailed(w) \/ Leave(w)
    \/ \E r \in Runs : Claim(w, r)
    \/ Aggregate(w)

-----------------------------------------------------------------------------
(* The client.                                                             *)

ClientStep == UNCHANGED <<creation, pc, job, crashes, reported, lost, overtaken>>

Ask(point, runs) ==
    /\ client.point = "idle" /\ tour.status # "none" /\ requests < MaxRequests
    /\ requests' = requests + 1
    /\ client' = [point |-> point, todo |-> runs, run |-> NoRun]

\* get_report aggregates only when no report is stored.
GetReport ==
    /\ Ask("idle", {}) /\ ~Active(Client)
    /\ tour.report = NoReport
    /\ ListChildren(Client)
    /\ ClientStep /\ UNCHANGED <<rows, record, tour, dropped>>

\* cancel_tournament: refused once completed; then child after child.
CancelTournament ==
    /\ tour.status # "completed"
    /\ Ask("cancel", {l.run : l \in links})
    /\ ClientStep /\ UNCHANGED <<rows, record, tour, agg, dropped>>

\* cancel_pending: a waiting row is taken off the queue.
CancelInQueue ==
    \E r \in client.todo :
        /\ client.point = "cancel" /\ client.run = NoRun
        /\ client' = [client EXCEPT !.run = r]
        /\ IF rows[r] = "pending" THEN Settle(r) /\ dropped' = dropped \cup {r}
                                  ELSE UNCHANGED <<rows, dropped>>
        /\ ClientStep /\ UNCHANGED <<record, tour, agg, requests>>

Visited == [point |-> "cancel", todo |-> client.todo \ {client.run}, run |-> NoRun]

\* Mutant of Cancels: only a pending record is canceled.
CancelsPending(status) == status = "pending"

Cancels(status) == status \in {"pending", "running"}

\* The record is read here and written by cancel_run later.
CancelRead ==
    /\ client.point = "cancel" /\ client.run # NoRun
    /\ client' = IF Cancels(record[client.run].status)
                 THEN [client EXCEPT !.point = "write"] ELSE Visited
    /\ ClientStep /\ UNCHANGED <<rows, record, tour, agg, requests, dropped>>

CancelWrite ==
    /\ client.point = "write"
    /\ SetStatus(client.run, "canceled")
    /\ client' = Visited
    /\ ClientStep /\ UNCHANGED <<rows, tour, agg, requests, dropped>>

EndCancel ==
    /\ client.point = "cancel" /\ client.run = NoRun /\ client.todo = {}
    /\ tour' = [tour EXCEPT !.status = "canceled"]
    /\ client' = [client EXCEPT !.point = "idle"]
    /\ ClientStep /\ UNCHANGED <<rows, record, agg, requests, dropped>>

\* delete_run: the link goes with the record, the queue row stays.
DeleteChild(r) ==
    /\ Stored(r) /\ Ask("idle", {})
    /\ record' = [record EXCEPT ![r] = [Absent EXCEPT !.status = "deleted"]]
    /\ links' = {l \in links : l.run # r}
    /\ UNCHANGED <<rows, creator, tour, pc, job, agg, crashes, history>>

ClientWork == CancelInQueue \/ CancelRead \/ CancelWrite \/ EndCancel \/ Aggregate(Client)

-----------------------------------------------------------------------------
Next ==
    \/ \E c \in Configs : CreateTournament(c)
    \/ Create
    \/ \E w \in Workers : Poll(w) \/ Work(w) \/ Crash(w)
    \/ \E r \in Runs : Requeue(r) \/ DeleteChild(r)
    \/ GetReport \/ CancelTournament \/ ClientWork

Spec == Init /\ [][Next]_vars

\* Requests under way and live workers go on, also to claim the runs of dead ones; nobody
\* has to restart a worker, to send a request or to call the scheduler.
FairSpec ==
    /\ Spec
    /\ WF_vars(Create) /\ WF_vars(ClientWork)
    /\ \A w \in Workers : WF_vars(Work(w))
=============================================================================
