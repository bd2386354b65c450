-------------------------- MODULE StreamProperties --------------------------
(***************************************************************************)
(* What a reader of a run's stream may rely on.                            *)
(***************************************************************************)
EXTENDS RunStream

\* On one connection no message is delivered twice and the messages of one publisher come
\* in the order in which it published them, replayed and live ones together, although
\* publish delivers outside the lock and a reader subscribes some time after its replay.
\* Between two publishers (execution and cancel) there is no order.
PublisherOrder ==
    \A v \in Viewers : LET got == viewer[v].got IN
        \A i, j \in DOMAIN got : i < j /\ got[i].by = got[j].by => got[i].n < got[j].n

\* Nobody waits on a closed stream: whoever is subscribed when close takes the
\* subscribers gets the sentinel, or is about to, and nobody subscribes afterwards.
NobodyStranded ==
    closed["api"] => \A v \in Viewers : viewer[v].point = "live" =>
        \/ \E i \in DOMAIN queue[v] : queue[v][i] = Sentinel
        \/ \E t \in Threads : thread[t].point = "sentinel" /\ v \in thread[t].to

\* A reader that connects to a run which is over, and whose last message is stored, is
\* replayed that message (docs/api.md: "Completed runs replay recent stored stream messages
\* and then close").
OverIsReplayed ==
    \A v \in Viewers :
        viewer[v].late /\ viewer[v].point \in {"check", "subscribe", "live"} =>
            status \notin {"completed", "failed"}

\* It holds of the runs the API process executes itself, also after a restart.
EndIsReplayed == mode = "sync" => OverIsReplayed

\* Every reader of a run that the API process has executed to its end learns the end,
\* whatever it missed between its replay and its subscription and however its connection
\* broke.
ReadersLearnTheEnd ==
    mode = "sync" /\ <>[](status \in {"completed", "failed"} /\ EndLogged) =>
        \A v \in Viewers : <>(viewer[v].point = "done")

-----------------------------------------------------------------------------
(* The inductive invariants of the theorems.                               *)

Published == [category : {"status", "progress", "completed", "error"}, by : Threads, n : Nat]
ThreadPoints ==
    {"begin", "queue", "queued", "start", "started", "run", "failed", "completed", "write",
     "publish", "close", "deliver", "sentinel", "end"}
Statuses == {"none", "pending", "running", "completed", "failed", "canceled", "deleted"}
Thread == [point : ThreadPoints, after : {"end", "queued", "run", "close"},
           msg : Published \cup {Other}, to : SUBSET Viewers, n : Nat]
ViewerPoints == {"off", "replay", "check", "subscribe", "live", "done"}
Viewer == [point : ViewerPoints, known : Statuses, got : Seq(Published), late : BOOLEAN]

\* Types of the state: a service remembers, and a reader is handed, published messages
\* only; a stored log has other entries too, and a queue may end with the sentinel.
StreamTypeOK ==
    /\ mode \in {"sync", "queued"} /\ status \in Statuses
    /\ logs \in Seq(Published \cup {Other})
    /\ recent \in [Processes -> Seq(Published)]
    /\ subscribers \in [Processes -> SUBSET Viewers]
    /\ closed \in [Processes -> BOOLEAN]
    /\ queue \in [Viewers -> Seq(Published \cup {Sentinel})]
    /\ thread \in [Threads -> Thread]
    /\ viewer \in [Viewers -> Viewer]
    /\ faults \in Nat

Live(v) == viewer[v].point = "live"

\* The readers of an open stream are its subscribers, and a thread serves readers that
\* wait; a worker's service has no subscribers.
SubscriberInv ==
    /\ subscribers["worker"] = {}
    /\ \A v \in subscribers["api"] : Live(v)
    /\ closed["api"] => subscribers["api"] = {}
    /\ ~closed["api"] => \A v \in Viewers : Live(v) => v \in subscribers["api"]
    /\ \A t \in Threads : \A v \in thread[t].to : Live(v)
    /\ \A t \in Threads : thread[t].point \notin {"deliver", "sentinel"} => thread[t].to = {}
    /\ mode = "queued" /\ thread["exec"].after # "queued" => thread["exec"].to = {}

\* The messages of each publisher come in the order of their numbers.
InOrder(messages) ==
    \A i, j \in DOMAIN messages :
        i < j /\ messages[i].by = messages[j].by /\ messages[i].by \in Threads =>
            messages[i].n < messages[j].n

\* Nothing that has not been published yet, and nothing as new as t's latest message.
UpToDate(messages) ==
    \A i \in DOMAIN messages :
        messages[i].by \in Threads => messages[i].n <= thread[messages[i].by].n
Before(messages, t) ==
    \A i \in DOMAIN messages : messages[i].by = t => messages[i].n < thread[t].n

\* What is remembered, stored, read and waiting to be read is in order, what waits is
\* newer than what was read, and what a thread still has to put somewhere is newer than
\* what is already there.
OrderInv ==
    /\ \A p \in Processes : InOrder(recent[p]) /\ UpToDate(recent[p])
    /\ InOrder(logs) /\ UpToDate(logs)
    /\ \A v \in Viewers : InOrder(viewer[v].got) /\ UpToDate(viewer[v].got)
    /\ \A v \in Viewers : Live(v) =>
           /\ InOrder(queue[v]) /\ UpToDate(queue[v])
           /\ \A i \in DOMAIN viewer[v].got, j \in DOMAIN queue[v] :
                  viewer[v].got[i].by = queue[v][j].by => viewer[v].got[i].n < queue[v][j].n
    /\ \A t \in Threads : thread[t].point = "deliver" =>
           /\ thread[t].msg \in Published /\ thread[t].msg.by = t /\ thread[t].msg.n = thread[t].n
           /\ Before(logs, t)
           /\ \A v \in thread[t].to : Before(viewer[v].got, t) /\ Before(queue[v], t)

\* Where the threads of a run in the API process are, and how many messages each has
\* published by then.
PathInv ==
    LET exec == thread["exec"]  cancel == thread["cancel"]  delete == thread["delete"] IN
    /\ exec.point \in {"begin", "start", "started", "run", "failed", "completed", "deliver",
                       "close", "sentinel", "end"}
    /\ exec.point \in {"begin", "start", "started"} => exec.n = 0
    /\ exec.n <= Steps + (IF exec.point \in {"run", "failed", "completed"} THEN 1 ELSE 2)
    /\ exec.point = "deliver" =>
           IF exec.msg.category \in EndCategories THEN exec.after = "close"
           ELSE exec.after = "run" /\ exec.n <= Steps + 1
    /\ cancel.point \in {"begin", "write", "publish", "deliver", "close", "sentinel", "end"}
    /\ cancel.after \in {"close", "end"}
    /\ cancel.n <= (IF cancel.point \in {"begin", "write", "publish"} THEN 0 ELSE 1)
    /\ cancel.point = "deliver" => cancel.msg.category = "status"
    /\ delete.point \in {"begin", "close", "sentinel", "end"}

\* One entry for each message that is not being delivered, one for the cancel.
Pending(t) == IF thread[t].point = "deliver" THEN 1 ELSE 0
LogCount ==
    Len(logs) + Pending("exec") + Pending("cancel")
        <= thread["exec"].n + thread["cancel"].n
               + (IF thread["cancel"].point \in {"begin", "write"} THEN 0 ELSE 1)

IsOver == status \in {"completed", "failed"}

\* The last message of the run is the last one remembered, or the one before that of the
\* cancel.
EndNear ==
    \E i \in DOMAIN recent["api"] :
        /\ recent["api"][i].category \in EndCategories
        /\ \/ i = Len(recent["api"])
           \/ i = Len(recent["api"]) - 1 /\ thread["cancel"].n = 1

\* The last message is remembered from before it is stored; where it is forgotten the run
\* was canceled after it failed, or a restart left nothing and the logs are replayed.
EndInv ==
    /\ thread["exec"].point = "deliver" /\ thread["exec"].msg.category \in EndCategories => EndNear
    /\ EndLogged \/ (\E v \in Viewers : viewer[v].late) =>
           thread["exec"].point \in {"close", "sentinel", "end"}
    /\ EndLogged =>
           \/ EndNear \/ ~IsOver
           \/ recent["api"] = <<>> /\ thread["cancel"].point # "publish" /\ faults > 0
    /\ \A v \in Viewers : viewer[v].late => EndLogged \/ ~IsOver
    /\ OverIsReplayed

SyncInv == faults <= MaxFaults /\ (mode = "sync" => PathInv /\ LogCount /\ EndInv)
=============================================================================
