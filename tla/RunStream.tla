----------------------------- MODULE RunStream ------------------------------
(***************************************************************************)
(* The live stream of one run: StreamService, the threads of RunService    *)
(* that publish to it and close it, the route stream_run and the           *)
(* reconnecting reader of the dashboard.  A step is one critical section   *)
(* of the service, one put to a subscriber's queue or one access to the    *)
(* store; threads interleave between any two.                              *)
(*                                                                         *)
(* Every process has a StreamService of its own.  A synchronous run is     *)
(* executed in the API process, a queued one in a worker's.                *)
(***************************************************************************)
EXTENDS Naturals, Sequences, SequencesExt

CONSTANTS
    Viewers,
    Modes,         \* how runs are executed: "sync", "queued"
    Steps,         \* bound: progress messages of a run
    RecentLimit,   \* recent messages a service keeps
    ReplayLimit,   \* replay_limit of a reader
    MaxFaults      \* bound: how often a connection breaks or the API process is restarted

ASSUME ModesAssumption == Modes \subseteq {"sync", "queued"}
ASSUME LimitsAssumption == RecentLimit \in Nat \ {0} /\ ReplayLimit \in Nat
ASSUME StreamBounds == Steps \in Nat /\ MaxFaults \in Nat

VARIABLES
    mode,      \* how the run is executed
    status,    \* the status column of the run
    logs,      \* the stored logs of the run
    recent, subscribers, closed,   \* the StreamService of each process
    queue,     \* the queues of the subscribers, by viewer
    thread,    \* the threads that publish and close
    viewer,    \* the connections and readers
    faults

service == <<recent, subscribers, closed>>
vars == <<mode, status, logs, service, queue, thread, viewer, faults>>

Threads == {"exec", "cancel", "delete"}
Processes == {"api", "worker"}
Sentinel == [category |-> "sentinel", by |-> "close", n |-> 0]
\* A log entry that is no stream message, such as "run cancellation requested".
Other == [category |-> "other", by |-> "log", n |-> 0]
EndCategories == {"completed", "error"}   \* TERMINAL_CATEGORIES of the reader

\* point: where the thread is; after: where it goes when it has published or closed;
\* to: the subscribers still to serve; n: messages it has published.
NewThread == [point |-> "begin", after |-> "end", msg |-> Other, to |-> {}, n |-> 0]
NewViewer == [point |-> "off", known |-> "none", got |-> <<>>, late |-> FALSE]

Init ==
    /\ mode \in Modes
    /\ status = "none" /\ logs = <<>>
    /\ recent = [p \in Processes |-> <<>>]
    /\ subscribers = [p \in Processes |-> {}]
    /\ closed = [p \in Processes |-> FALSE]
    /\ queue = [v \in Viewers |-> <<>>]
    /\ thread = [t \in Threads |-> NewThread]
    /\ viewer = [v \in Viewers |-> NewViewer]
    /\ faults = 0

Stored == status \notin {"none", "deleted"}
SetStatus(s) == status' = IF Stored THEN s ELSE status
AppendLog(entry) == logs' = IF Stored THEN Append(logs, entry) ELSE logs
Goto(t, point) == thread' = [thread EXCEPT ![t].point = point]
Home == IF mode = "queued" THEN "worker" ELSE "api"
Process(t) == IF t = "exec" /\ thread[t].after # "queued" THEN Home ELSE "api"

-----------------------------------------------------------------------------
(* StreamService.                                                          *)

\* Mutant of Keep: a full deque refuses the newest message.
KeepFirst(messages) ==
    IF Len(messages) > RecentLimit THEN SubSeq(messages, 1, RecentLimit) ELSE messages

\* deque(maxlen): the oldest message makes room.
Keep(messages) ==
    IF Len(messages) > RecentLimit
    THEN SubSeq(messages, Len(messages) - RecentLimit + 1, Len(messages)) ELSE messages

\* Mutant of Publish: a message with subscribers is not kept for replay.
PublishLive(t, p, category, after) ==
    LET msg == [category |-> category, by |-> t, n |-> thread[t].n + 1]
    IN  /\ recent' = IF subscribers[p] = {} THEN [recent EXCEPT ![p] = Keep(Append(@, msg))] ELSE recent
        /\ thread' = [thread EXCEPT ![t] = [point |-> "deliver", after |-> after, msg |-> msg,
                                            to |-> subscribers[p], n |-> msg.n]]
        /\ UNCHANGED <<mode, status, logs, subscribers, closed, queue, viewer, faults>>

\* publish, under the lock: the message is kept and the subscribers are copied.
Publish(t, p, category, after) ==
    LET msg == [category |-> category, by |-> t, n |-> thread[t].n + 1]
    IN  /\ recent' = [recent EXCEPT ![p] = Keep(Append(@, msg))]
        /\ thread' = [thread EXCEPT ![t] = [point |-> "deliver", after |-> after, msg |-> msg,
                                            to |-> subscribers[p], n |-> msg.n]]
        /\ UNCHANGED <<mode, status, logs, subscribers, closed, queue, viewer, faults>>

\* publish, outside the lock: one put after the other, to queues nobody may read any more.
Deliver(t) ==
    \E v \in thread[t].to :
        /\ thread[t].point = "deliver"
        /\ queue' = [queue EXCEPT ![v] = Append(@, thread[t].msg)]
        /\ thread' = [thread EXCEPT ![t].to = @ \ {v}]
        /\ UNCHANGED <<mode, status, logs, service, viewer, faults>>

\* publish, at last: the message is persisted.
LogMessage(t) ==
    /\ thread[t].point = "deliver" /\ thread[t].to = {}
    /\ AppendLog(thread[t].msg)
    /\ Goto(t, thread[t].after)
    /\ UNCHANGED <<mode, status, service, queue, viewer, faults>>

\* close, under the lock.
Close(t, p) ==
    /\ closed' = [closed EXCEPT ![p] = TRUE]
    /\ subscribers' = [subscribers EXCEPT ![p] = {}]
    /\ thread' = [thread EXCEPT ![t].point = "sentinel", ![t].to = subscribers[p]]
    /\ UNCHANGED <<mode, status, logs, recent, queue, viewer, faults>>

\* close, outside the lock: the sentinel ends each subscription.
PutSentinel(t) ==
    \E v \in thread[t].to :
        /\ thread[t].point = "sentinel"
        /\ queue' = [queue EXCEPT ![v] = Append(@, Sentinel)]
        /\ thread' = [thread EXCEPT ![t].to = @ \ {v}]
        /\ UNCHANGED <<mode, status, logs, service, viewer, faults>>

\* The entries of a log that are stream messages.
StreamMessages(entries) ==
    LET kept[i \in 0..Len(entries)] ==
            IF i = 0 THEN <<>>
            ELSE IF entries[i] = Other THEN kept[i - 1] ELSE Append(kept[i - 1], entries[i])
    IN  kept[Len(entries)]

\* replay_recent: what this process remembers, else what is stored; get_logs returns the
\* first entries.
ReplayRecent(p) ==
    IF recent[p] # <<>>
    THEN SubSeq(recent[p], Max({0, Len(recent[p]) - ReplayLimit}) + 1, Len(recent[p]))
    ELSE StreamMessages(SubSeq(logs, 1, Min({ReplayLimit, Len(logs)})))

-----------------------------------------------------------------------------
(* RunService: the executing thread.                                       *)

CreateRun ==
    /\ thread["exec"].point = "begin"
    /\ status' = "pending"
    /\ thread' = [thread EXCEPT !["exec"].point = IF mode = "queued" THEN "queue" ELSE "start",
                                !["exec"].after = IF mode = "queued" THEN "queued" ELSE "end"]
    /\ UNCHANGED <<mode, logs, service, queue, viewer, faults>>

\* queue_session publishes in the API process.
PublishQueued == thread["exec"].point = "queue" /\ Publish("exec", "api", "status", "queued")

\* The worker claims the run, and refuses one that is canceled or gone.
ClaimQueued ==
    /\ thread["exec"].point = "queued"
    /\ AppendLog(Other)
    /\ thread' = [thread EXCEPT
           !["exec"].point = IF status \in {"canceled", "deleted"} THEN "end" ELSE "start",
           !["exec"].after = "end"]
    /\ UNCHANGED <<mode, status, service, queue, viewer, faults>>

StartRun ==
    /\ thread["exec"].point = "start"
    /\ SetStatus("running") /\ Goto("exec", "started")
    /\ UNCHANGED <<mode, logs, service, queue, viewer, faults>>

PublishStarted == thread["exec"].point = "started" /\ Publish("exec", Home, "status", "run")

\* The progress callback, and the streamed events and snapshots.
PublishProgress ==
    /\ thread["exec"].point = "run" /\ thread["exec"].n < Steps + 1
    /\ Publish("exec", Home, "progress", "run")

\* The end of the run is recorded before it is published; a run that is gone ends silently.
FinishRun(outcome) ==
    /\ thread["exec"].point = "run"
    /\ SetStatus(outcome)
    /\ Goto("exec", IF outcome = "failed" THEN "failed" ELSE IF Stored THEN "completed" ELSE "end")
    /\ UNCHANGED <<mode, logs, service, queue, viewer, faults>>

PublishEnd ==
    \/ thread["exec"].point = "failed" /\ Publish("exec", Home, "error", "close")
    \/ thread["exec"].point = "completed" /\ Publish("exec", Home, "completed", "close")

CloseRun == thread["exec"].point = "close" /\ Close("exec", Home)

Execute ==
    \/ PublishQueued \/ ClaimQueued \/ StartRun \/ PublishStarted \/ PublishProgress
    \/ FinishRun("completed") \/ FinishRun("failed") \/ PublishEnd \/ CloseRun

-----------------------------------------------------------------------------
(* RunService: cancel_run and delete_run, in other threads of the API.     *)

\* What is read here decides later whether the stream is closed.
CancelRead ==
    /\ thread["cancel"].point = "begin" /\ Stored /\ status \notin {"completed", "canceled"}
    /\ thread' = [thread EXCEPT !["cancel"].point = "write",
                                !["cancel"].after = IF status = "pending" THEN "close" ELSE "end"]
    /\ UNCHANGED <<mode, status, logs, service, queue, viewer, faults>>

CancelWrite ==
    /\ thread["cancel"].point = "write"
    /\ SetStatus("canceled") /\ AppendLog(Other)
    /\ Goto("cancel", IF Stored THEN "publish" ELSE "end")
    /\ UNCHANGED <<mode, service, queue, viewer, faults>>

PublishCanceled ==
    thread["cancel"].point = "publish" /\ Publish("cancel", "api", "status", thread["cancel"].after)

CloseCanceled == thread["cancel"].point = "close" /\ Close("cancel", "api")

DeleteRun ==
    /\ thread["delete"].point = "begin" /\ Stored
    /\ status' = "deleted" /\ logs' = <<>>
    /\ Goto("delete", "close")
    /\ UNCHANGED <<mode, service, queue, viewer, faults>>

CloseDeleted == thread["delete"].point = "close" /\ Close("delete", "api")

Advance == \/ Execute \/ CancelWrite \/ PublishCanceled \/ CloseCanceled \/ CloseDeleted
           \/ \E t \in Threads : Deliver(t) \/ LogMessage(t) \/ PutSentinel(t)

-----------------------------------------------------------------------------
(* stream_run and its reader.                                              *)

ViewerStep == UNCHANGED <<mode, status, logs, recent, closed>>
\* The subscription ends; what is still put to its queue is read by nobody.
Unsubscribe(v) ==
    /\ subscribers' = [subscribers EXCEPT !["api"] = @ \ {v}]
    /\ thread' = [t \in Threads |-> [thread[t] EXCEPT !.to = @ \ {v}]]
HasEnd(got) == \E i \in DOMAIN got : got[i].category \in EndCategories
EndLogged == \E i \in DOMAIN logs : logs[i].category \in EndCategories

\* The record is read when the request arrives.
Connect(v) ==
    /\ viewer[v].point = "off" /\ Stored
    /\ viewer' = [viewer EXCEPT ![v] = [point |-> "replay", known |-> status, got |-> <<>>,
                      late |-> status \in {"completed", "failed"} /\ EndLogged]]
    /\ ViewerStep /\ UNCHANGED <<subscribers, queue, thread, faults>>

\* A reader that has seen the end closes the connection for good.
Replay(v) ==
    /\ viewer[v].point = "replay"
    /\ viewer' = [viewer EXCEPT ![v].got = ReplayRecent("api"),
                      ![v].point = IF HasEnd(ReplayRecent("api")) THEN "done" ELSE "check"]
    /\ ViewerStep /\ UNCHANGED <<subscribers, queue, thread, faults>>

\* What was known at the start decides whether the stream ends after the replay.
CheckEnd(v) ==
    /\ viewer[v].point = "check"
    /\ viewer' = [viewer EXCEPT ![v] =
           IF viewer[v].known \in {"completed", "failed", "canceled"} \/ closed["api"]
           THEN NewViewer ELSE [@ EXCEPT !.point = "subscribe"]]
    /\ ViewerStep /\ UNCHANGED <<subscribers, queue, thread, faults>>

\* Mutant of Subscribe: that the stream is closed was checked before.
SubscribeUnchecked(v) ==
    /\ viewer[v].point = "subscribe"
    /\ viewer' = [viewer EXCEPT ![v].point = "live"]
    /\ subscribers' = [subscribers EXCEPT !["api"] = @ \cup {v}]
    /\ queue' = [queue EXCEPT ![v] = <<>>]
    /\ ViewerStep /\ UNCHANGED <<thread, faults>>

\* Mutant of Subscribe: a subscription starts with the recent messages.
SubscribeReplaying(v) ==
    /\ viewer[v].point = "subscribe"
    /\ viewer' = [viewer EXCEPT ![v] = IF closed["api"] THEN NewViewer ELSE [@ EXCEPT !.point = "live"]]
    /\ subscribers' = [subscribers EXCEPT !["api"] = IF closed["api"] THEN @ ELSE @ \cup {v}]
    /\ queue' = [queue EXCEPT ![v] = recent["api"]]
    /\ ViewerStep /\ UNCHANGED <<thread, faults>>

\* subscribe: closed is checked and the queue entered under one lock.
Subscribe(v) ==
    /\ viewer[v].point = "subscribe"
    /\ viewer' = [viewer EXCEPT ![v] = IF closed["api"] THEN NewViewer ELSE [@ EXCEPT !.point = "live"]]
    /\ subscribers' = [subscribers EXCEPT !["api"] = IF closed["api"] THEN @ ELSE @ \cup {v}]
    /\ queue' = [queue EXCEPT ![v] = <<>>]
    /\ ViewerStep /\ UNCHANGED <<thread, faults>>

Receive(v) ==
    /\ viewer[v].point = "live" /\ queue[v] # <<>>
    /\ LET msg == Head(queue[v])
           over == msg = Sentinel \/ msg.category \in EndCategories
       IN  /\ viewer' = [viewer EXCEPT ![v] =
                  IF msg = Sentinel THEN NewViewer
                  ELSE [viewer[v] EXCEPT !.got = Append(@, msg),
                                         !.point = IF over THEN "done" ELSE @]]
           /\ queue' = [queue EXCEPT ![v] = IF over THEN <<>> ELSE Tail(@)]
           /\ IF over THEN Unsubscribe(v) ELSE UNCHANGED <<subscribers, thread>>
    /\ ViewerStep /\ UNCHANGED faults

\* The connection breaks; the reader tries again.
Drop(v) ==
    /\ viewer[v].point \in {"replay", "check", "subscribe", "live"} /\ faults < MaxFaults
    /\ faults' = faults + 1
    /\ viewer' = [viewer EXCEPT ![v] = NewViewer]
    /\ queue' = [queue EXCEPT ![v] = <<>>]
    /\ Unsubscribe(v)
    /\ ViewerStep

Read(v) == Connect(v) \/ Replay(v) \/ CheckEnd(v) \/ Subscribe(v) \/ Receive(v)

\* The API process is restarted: its threads, its connections and what it remembers are
\* gone, the store and the worker are not.
Restart ==
    /\ faults < MaxFaults /\ faults' = faults + 1
    /\ recent' = [recent EXCEPT !["api"] = <<>>]
    /\ subscribers' = [subscribers EXCEPT !["api"] = {}]
    /\ closed' = [closed EXCEPT !["api"] = FALSE]
    /\ thread' = [t \in Threads |->
           IF Process(t) = "api" /\ thread[t].point \notin {"begin", "queued"}
           THEN [thread[t] EXCEPT !.point = "end", !.to = {}] ELSE thread[t]]
    /\ queue' = [v \in Viewers |-> <<>>]
    /\ viewer' = [v \in Viewers |-> IF viewer[v].point = "done" THEN viewer[v] ELSE NewViewer]
    /\ UNCHANGED <<mode, status, logs>>

-----------------------------------------------------------------------------
Next ==
    \/ CreateRun \/ Advance \/ CancelRead \/ DeleteRun \/ Restart
    \/ \E v \in Viewers : Read(v) \/ Drop(v)

Spec == Init /\ [][Next]_vars

\* Started requests and executions go on, readers read and reconnect; nobody has to send a
\* request.
FairSpec == Spec /\ WF_vars(Advance) /\ \A v \in Viewers : WF_vars(Read(v))
=============================================================================
