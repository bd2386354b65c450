----------------------------- MODULE RunReplay ------------------------------
(***************************************************************************)
(* One run that is executed, possibly more than once at a time, while its  *)
(* artifacts are read: RunService.execute_pending_run and cancel_run       *)
(* write, ReplayService reads.  A step is one access to the store, so a    *)
(* reader's load_run is six steps apart from one another.                  *)
(*                                                                         *)
(* An attempt is one execution of the run's job; an attempt whose lease    *)
(* expired goes on beside the next one (module RunQueue).  The engine is   *)
(* deterministic: its answers depend on the run's config and on the build  *)
(* of the engine.  A deployment restarts every process with the next       *)
(* build.                                                                  *)
(***************************************************************************)
EXTENDS ReplayVerifier

CONSTANTS
    Scenarios,   \* a config, for every build the answers of the engine, and what clients request
    Attempts, Readers,
    Window,      \* steps of a range request
    PageLimit,   \* limit of a timeline request
    MaxFaults    \* bound: crashes, failures, expired leases, deployments, cancel and delete requests

ASSUME WindowAssumption == Window \in Nat \ {0} /\ PageLimit \in Nat \ {0}
ASSUME FaultsAssumption == MaxFaults \in Nat

Purposes == {"range", "timeline", "play", "rewind", "summary", "verify"}
\* A visit of a session or a command of a backtest has an answer: lists of events.
IsList(value) == value \in Seq(Range(value))
IsTape(config, tape) ==
    /\ IsList(tape)
    /\ config.run_type = "session" => Len(tape) = config.steps * Len(config.symbols)
    /\ \A i \in DOMAIN tape :
           /\ IsList(tape[i].halt) /\ IsList(tape[i].commands) /\ IsList(tape[i].uncross)
           /\ \A c \in DOMAIN tape[i].commands : IsList(tape[i].commands[c].events)
           /\ config.run_type # "session" => tape[i].commands # <<>>
ASSUME ScenariosAssumption ==
    \A s \in Scenarios :
        /\ s.requests \subseteq Purposes
        /\ s.config.steps \in Nat /\ IsList(s.config.symbols)
        /\ IsList(s.tapes) /\ s.tapes # <<>> /\ \A b \in DOMAIN s.tapes : IsTape(s.config, s.tapes[b])

VARIABLES
    scenario,
    build,    \* the build that is deployed
    run,      \* the row of the run and its artifacts
    thread,   \* the attempts and the request that cancels
    reader,   \* the clients of the replay service
    faults

vars == <<scenario, build, run, thread, reader, faults>>

Canceler == "cancel"
config == scenario.config
Run(b) == Artifacts(config, scenario.tapes[b])
Stored == run.status # "deleted"

With(dict, key, value) == [k \in DOMAIN dict \cup {key} |-> IF k = key THEN value ELSE dict[k]]
Log(level, type, step) == [level |-> level, type |-> type, step |-> step]

NewRun == [report |-> [k \in {} |-> None], events |-> <<>>, snapshots |-> <<>>, accounts |-> <<>>,
           status |-> "pending", logs |-> <<>>, verification |-> [k \in {} |-> None]]
Waiting == [point |-> "waiting", todo |-> <<>>]
Over == [point |-> "over", todo |-> <<>>]
\* began: what was stored when the client began; seen: what it was given; missed: what it was
\* not given when it had come to the end.
Idle == [point |-> "idle", purpose |-> "none", got |-> [k \in {} |-> None], began |-> [k \in {} |-> None],
         seen |-> {}, missed |-> {}, cursor |-> 0, steps |-> {}, answer |-> [k \in {} |-> None]]
Gone == [Idle EXCEPT !.point = "over"]

Init ==
    /\ scenario \in Scenarios
    /\ build = 1
    /\ run = NewRun
    /\ thread = [t \in Attempts \cup {Canceler} |-> Waiting]
    /\ reader = [r \in Readers |-> Idle]
    /\ faults = 0

Fault == faults < MaxFaults /\ faults' = faults + 1

\* update_run, append_log, store_result: nothing happens to a run that is gone.
SetStatus(status) == IF Stored THEN [run EXCEPT !.status = status] ELSE run
AppendLog(log) == IF Stored THEN [run EXCEPT !.logs = Append(@, log)] ELSE run
StoreArtifacts(result) ==
    IF Stored
    THEN [run EXCEPT !.report = result.report, !.events = result.events,
                     !.snapshots = result.snapshots, !.accounts = result.accounts]
    ELSE run

-----------------------------------------------------------------------------
(* RunService._execute_record.                                             *)

\* What an execution publishes before its result is stored: its start, its progress, and the
\* snapshots when they are streamed.
ExecutionLogs ==
    LET tape == scenario.tapes[build]
        steps == Ascending(ProgressSteps(config, tape))
        snapshots == IF config.stream_snapshots THEN Run(build).snapshots ELSE <<>>
    IN  <<Log("status", "run_started", None)>>
            \o [i \in DOMAIN steps |-> Log("progress", "progress", steps[i])]
            \o [i \in DOMAIN snapshots |-> Log("snapshot", "snapshot", snapshots[i].step)]

\* execute_pending_run reads the run and refuses a completed or canceled one.  A second attempt
\* begins when the first is over, or when its lease has expired.
Open(t) ==
    /\ t \in Attempts /\ thread[t].point = "waiting"
    /\ run.status \notin {"completed", "canceled", "deleted"}
    /\ IF \A u \in Attempts : thread[u].point \in {"waiting", "over"} THEN faults' = faults ELSE Fault
    /\ thread' = [thread EXCEPT ![t].point = "open"]
    /\ UNCHANGED <<scenario, build, run, reader>>

Start(t) ==
    /\ t \in Attempts /\ thread[t].point = "open"
    /\ run' = SetStatus("running")
    /\ thread' = [thread EXCEPT ![t] = [point |-> "execute", todo |-> ExecutionLogs]]
    /\ UNCHANGED <<scenario, build, reader, faults>>

\* One message: of the execution, or the last ones of a thread.
Publish(t) ==
    /\ thread[t].todo # <<>>
    /\ run' = AppendLog(Head(thread[t].todo))
    /\ thread' = [thread EXCEPT ![t] =
           IF @.point = "last" /\ Len(@.todo) = 1 THEN Over
           ELSE [point |-> @.point, todo |-> Tail(@.todo)]]
    /\ UNCHANGED <<scenario, build, reader, faults>>

\* The engine or a progress callback raises.
Fail(t) ==
    /\ Fault
    /\ thread[t].point = "execute"
    /\ run' = SetStatus("failed")
    /\ thread' = [thread EXCEPT ![t] = [point |-> "last", todo |-> <<Log("error", "run_failed", None)>>]]
    /\ UNCHANGED <<scenario, build, reader>>

\* Mutant of StoreResult: the run is completed before its result is stored.
StoreResultLate(t) ==
    /\ thread[t].point = "execute" /\ thread[t].todo = <<>>
    /\ run' = SetStatus("completed")
    /\ thread' = [thread EXCEPT ![t].point = "stored"]
    /\ UNCHANGED <<scenario, build, reader, faults>>

\* store_result: one transaction replaces the report, events, snapshots and accounts.
StoreResult(t) ==
    /\ thread[t].point = "execute" /\ thread[t].todo = <<>>
    /\ Readable(config, scenario.tapes[build])
    /\ run' = StoreArtifacts(Run(build))
    /\ thread' = [thread EXCEPT ![t].point = "stored"]
    /\ UNCHANGED <<scenario, build, reader, faults>>

Complete(t) ==
    /\ thread[t].point = "stored"
    /\ run' = SetStatus("completed")
    /\ thread' = [thread EXCEPT ![t] =
           IF Stored THEN [point |-> "last", todo |-> <<Log("completed", "run_completed", None)>>] ELSE Over]
    /\ UNCHANGED <<scenario, build, reader, faults>>

\* The process of an attempt stops; its job is given to another one.
Crash(t) ==
    /\ Fault
    /\ t \in Attempts /\ thread[t].point \notin {"waiting", "over"}
    /\ thread' = [thread EXCEPT ![t] = Over]
    /\ UNCHANGED <<scenario, build, run, reader>>

\* cancel_run: the status it read may be out of date when it writes.
CancelRead ==
    /\ Fault
    /\ thread[Canceler].point = "waiting" /\ run.status \notin {"completed", "canceled", "deleted"}
    /\ thread' = [thread EXCEPT ![Canceler].point = "open"]
    /\ UNCHANGED <<scenario, build, run, reader>>

CancelWrite ==
    /\ thread[Canceler].point = "open"
    /\ run' = SetStatus("canceled")
    /\ thread' = [thread EXCEPT ![Canceler] =
           IF Stored
           THEN [point |-> "last",
                 todo |-> <<[level |-> "warning", message |-> "run cancellation requested"],
                            Log("status", "run_canceled", None)>>]
           ELSE Over]
    /\ UNCHANGED <<scenario, build, reader, faults>>

DeleteRun ==
    /\ Fault
    /\ Stored
    /\ run' = [NewRun EXCEPT !.status = "deleted"]
    /\ UNCHANGED <<scenario, build, thread, reader>>

Deploy ==
    /\ Fault
    /\ build < Len(scenario.tapes)
    /\ build' = build + 1
    /\ thread' = [t \in DOMAIN thread |-> IF thread[t].point = "waiting" THEN Waiting ELSE Over]
    /\ reader' = [r \in Readers |-> IF reader[r].point = "idle" THEN Idle ELSE Gone]
    /\ UNCHANGED <<scenario, run>>

-----------------------------------------------------------------------------
(* ReplayService.                                                          *)

\* Mutant of LoadOrder: the report after the artifacts it sums up.
LoadOrderReportLast == <<"record", "events", "snapshots", "accounts", "logs", "report">>

\* load_run: the queries in their order.
LoadOrder == <<"record", "report", "events", "snapshots", "accounts", "logs">>
After(query) == (Tail(LoadOrder) \o <<"loaded">>)[CHOOSE i \in DOMAIN LoadOrder : LoadOrder[i] = query]

\* What a client is to be given, artifact by artifact.
Item(category, sequence, payload) == [category |-> category, sequence |-> sequence, payload |-> payload]
Paged(purpose) == CASE purpose \in {"range", "play", "rewind"} -> {"snapshots"}
                    [] purpose = "timeline" -> Range(Categories)
                    [] OTHER -> {}
Snapshots(frames, stored) ==
    {Item("snapshots", i - 1, stored[i]) : i \in {j \in DOMAIN stored :
        \E f \in frames : stored[j] \in Range(f.snapshots)}}
Everything(began) == UNION {{Item(c, i - 1, began[c][i]) : i \in DOMAIN began[c]} : c \in DOMAIN began}
\* What it was not given of what was stored when it began, unless another result took its place.
Missed(began, seen) ==
    IF \A c \in DOMAIN began : IsPrefix(began[c], run[c]) THEN Everything(began) \ seen ELSE {}

Request(r, purpose) ==
    /\ reader[r].point = "idle"
    /\ reader' = [reader EXCEPT ![r] =
           [Idle EXCEPT !.point = Head(LoadOrder), !.purpose = purpose,
                        !.began = [c \in Paged(purpose) |-> run[c]]]]
    /\ UNCHANGED <<scenario, build, run, thread, faults>>

\* One query of load_run; a run that is gone ends the request.
Query(r) ==
    /\ reader[r].point \in Range(LoadOrder)
    /\ LET name == reader[r].point
           value == IF name = "record" THEN [config |-> config, status |-> run.status] ELSE run[name]
       IN  reader' = [reader EXCEPT ![r] =
               IF Stored
               THEN [@ EXCEPT !.point = After(name), !.got = With(reader[r].got, name, value)]
               ELSE Gone]
    /\ UNCHANGED <<scenario, build, run, thread, faults>>

\* A page is delivered: the client asks for the next one or is done.
Deliver(r, items, more, cursor) ==
    LET seen == reader[r].seen \cup items
        ended == [Idle EXCEPT !.point = "done", !.purpose = reader[r].purpose,
                              !.missed = Missed(reader[r].began, seen)]
    IN  /\ reader' = [reader EXCEPT ![r] =
               IF more THEN [@ EXCEPT !.point = Head(LoadOrder), !.got = Idle.got, !.seen = seen, !.cursor = cursor]
               ELSE ended]
        /\ UNCHANGED <<scenario, build, run, thread, faults>>

Answers(r, purpose) == reader[r].point = "loaded" /\ reader[r].purpose = purpose

AnswerRange(r) ==
    /\ Answers(r, "range")
    /\ LET start == reader[r].cursor
           page == get_replay_range(reader[r].got, start, start + Window - 1, None, Range(Categories))
           next == page.next_start_step
       IN  Deliver(r, Snapshots(page.frames, reader[r].got.snapshots), next # None,
                   IF next # None THEN next ELSE start)

AnswerTimeline(r) ==
    /\ Answers(r, "timeline")
    /\ LET page == get_timeline(reader[r].got, None, None, None, PageLimit, reader[r].cursor)
       IN  Deliver(r, {Item(e.category, e.sequence, e.payload) : e \in Range(page)},
                   Len(page) = PageLimit, reader[r].cursor + PageLimit)

\* A replay session is opened; the client plays from the first step or jumps to the last.
AnswerSession(r) ==
    /\ \E purpose \in {"play", "rewind"} : Answers(r, purpose)
    /\ reader[r].steps = {}
    /\ _validate_replay_events(reader[r].got.events)
    /\ LET session == get_replay_session(reader[r].got)
           first == Snapshots({session.frame}, reader[r].got.snapshots)
           cursor == IF reader[r].purpose = "play" THEN next_frame(session.steps, session.cursor)
                     ELSE seek(session.steps, Max(session.steps))
       IN  IF cursor = session.cursor THEN Deliver(r, first, FALSE, cursor)
           ELSE /\ reader' = [reader EXCEPT ![r] =
                       [@ EXCEPT !.point = Head(LoadOrder), !.got = Idle.got, !.steps = session.steps,
                                 !.cursor = cursor, !.seen = first]]
                /\ UNCHANGED <<scenario, build, run, thread, faults>>

\* A frame of it; the controller of the client moves on along the steps it was given.
AnswerFrame(r) ==
    /\ \E purpose \in {"play", "rewind"} : Answers(r, purpose)
    /\ reader[r].steps # {}
    /\ LET steps == reader[r].steps
           cursor == reader[r].cursor
           frame == get_replay_frame(reader[r].got, cursor, None)
           next == IF reader[r].purpose = "play" THEN next_frame(steps, cursor)
                   ELSE previous_frame(steps, cursor)
       IN  Deliver(r, Snapshots({frame}, reader[r].got.snapshots), next # cursor, next)

AnswerSummary(r) ==
    /\ Answers(r, "summary")
    /\ LET a == reader[r].got
       IN  reader' = [reader EXCEPT ![r] =
               [Idle EXCEPT !.point = "done", !.purpose = "summary",
                            !.answer = [summary |-> summarize_run(a), events |-> a.events, found |-> replay_run(a),
                                        replay |-> get_replay_summary(a, run.verification)]]]
    /\ UNCHANGED <<scenario, build, run, thread, faults>>

\* verify_run executes a completed run again, with the build of its own process.
AnswerVerify(r) ==
    /\ Answers(r, "verify")
    /\ LET a == reader[r].got
           replayed == IF Readable(config, scenario.tapes[build]) THEN Run(build) ELSE None
           verdict == IF a.record.status # "completed"
                      THEN [verify(a, None) EXCEPT !.status = "partial"] ELSE verify(a, replayed)
       IN  reader' = [reader EXCEPT ![r].point = "store", ![r].got = Idle.got,
                                      ![r].answer = With(verdict, "build", build)]
    /\ UNCHANGED <<scenario, build, run, thread, faults>>

StoreVerification(r) ==
    /\ reader[r].point = "store"
    /\ run' = IF Stored THEN [run EXCEPT !.verification = reader[r].answer] ELSE run
    /\ reader' = [reader EXCEPT ![r] = Gone]
    /\ UNCHANGED <<scenario, build, thread, faults>>

\* Nothing is left to happen.
Ended ==
    /\ \A t \in DOMAIN thread : thread[t].point \in {"waiting", "over"}
    /\ UNCHANGED vars

Next ==
    \/ \E t \in DOMAIN thread :
          Open(t) \/ Start(t) \/ Publish(t) \/ Fail(t) \/ StoreResult(t) \/ Complete(t) \/ Crash(t)
    \/ CancelRead \/ CancelWrite \/ DeleteRun \/ Deploy
    \/ \E r \in Readers :
          \/ \E purpose \in scenario.requests : Request(r, purpose)
          \/ Query(r) \/ AnswerRange(r) \/ AnswerTimeline(r) \/ AnswerSession(r) \/ AnswerFrame(r)
          \/ AnswerSummary(r) \/ AnswerVerify(r) \/ StoreVerification(r)
    \/ Ended

Spec == Init /\ [][Next]_vars
=============================================================================
