-------------------------- MODULE ReplayProperties --------------------------
(***************************************************************************)
(* What a client may rely on who reads a run while it is executed.         *)
(***************************************************************************)
EXTENDS RunReplay

CONSTANT Queries   \* artifact queries

ASSUME QueriesAssumption == \A q \in Queries : q.limit \in Int \cup {None} /\ q.offset \in Int

\* A stored verdict of verify_run is about a whole result, never about parts of one that
\* load_run read around a store_result, and it is the verdict diff_runs gives of that result
\* and the one of the verifier's build; a stream that differs has a first divergence.
Sound(v) ==
    "status" \in DOMAIN v /\ v.status \in {"verified", "mismatch"} =>
        \E b \in 1..build :
            LET diff == diff_runs(Run(b), Run(v.build))
            IN  /\ v.original_hashes = hash_summary(Run(b))
                /\ (v.status = "verified") <=> (diff.status = "matching")
                /\ v.first_divergence_step = diff.first_divergence_step
                /\ (v.first_divergence_step # None) <=>
                      (v.mismatched_fields \cap {"event_hash", "snapshot_hash", "account_hash"} # {})
VerdictHolds == Sound(run.verification)

\* Paging misses nothing: a client that read a run to the end, page by page of the timeline,
\* range by range or frame by frame in either direction, was given everything that was
\* stored when it began, whatever was stored between its requests, unless the result was
\* replaced by another build's.
PagesMissNothing == \A r \in Readers : reader[r].missed = {}

\* The totals of summarize_run, which come from the report or from the events, and those of
\* get_replay_summary, which come from the events, are those of the events that were read,
\* although report and events are read at different times: of a completed run, and of any
\* run as long as one build executed it.
Recounts(answer) ==
    LET s == answer.summary
        trades == Where(answer.events, IsTrade)
    IN  /\ s.total_trades = Len(trades) /\ answer.replay.total_trades = Len(trades)
        /\ s.total_volume = Total(trades, Qty)
        /\ s.traded_notional = Total(trades, Notional)
        /\ _count_event_type(answer.events, "OrderRejected") <= s.total_rejections
        /\ s.total_rejections <= _count_rejections(answer.events)
SummaryRecounts ==
    \A r \in Readers :
        /\ reader[r].point = "done" /\ reader[r].purpose = "summary"
        /\ reader[r].answer.summary.status = "completed" \/ build = 1
        => Recounts(reader[r].answer)

\* An artifact the columns of SQLiteRunStore can describe: it names one symbol at most.
Describable(item) ==
    Cardinality(UNION {Keys(item, key) : key \in {"symbols", "positions", "mark_to_market"}}) <= 1

\* No stored account has an account_id: InMemoryRunStore compares the text "None" with the
\* filter (_matches_account), SQLiteRunStore a column that is NULL.
NamesNone(kind, q) == kind = "accounts" /\ q.account = "None"

\* The two stores give the same answers to the same queries of the same artifacts, as long as
\* none of them names several symbols and no query asks for the accounts of "None".
SameAnswers(kind) ==
    (\A item \in Range(run[kind]) : Describable(item)) =>
        \A q \in Queries :
            NamesNone(kind, q) \/ MemoryGet(kind, run[kind], q) = SQLiteGet(kind, run[kind], q)

\* Whatever attempt stores a result, or replaces what another one stored, and whoever deletes
\* it: after every write of artifacts both stores give the same answers, but for artifacts of
\* several symbols and for the account filter "None" (get_events, get_snapshots, get_accounts).
StoresAgree ==
    [][\A kind \in {"events", "snapshots", "accounts"} : run'[kind] # run[kind] => SameAnswers(kind)']_vars
-----------------------------------------------------------------------------
(* The inductive invariant of the theorem about the verdicts.              *)

Kinds == {"report", "events", "snapshots", "accounts"}
Working == {"open", "execute", "stored"}

\* No request and no attempt is going to write.
Unattended == \A t \in DOMAIN thread : thread[t].point \notin Working

\* The stored result is the whole one of build b.
Holds(b) == \A k \in Kinds : run[k] = Run(b)[k]

ReplayTypeOK ==
    /\ scenario \in Scenarios /\ build \in 1..Len(scenario.tapes)
    /\ DOMAIN run = Kinds \cup {"status", "logs", "verification"}
    /\ DOMAIN thread = Attempts \cup {Canceler}
    /\ \A t \in DOMAIN thread : DOMAIN thread[t] = {"point", "todo"}
    /\ DOMAIN reader = Readers /\ \A r \in Readers : DOMAIN reader[r] = DOMAIN Idle

\* A completed run has a whole result: that of the present build, or of an earlier one as
\* long as nobody is going to write.
ResultInv ==
    Stored =>
        /\ \A t \in DOMAIN thread : thread[t].point = "stored" => Holds(build)
        /\ run.status = "completed" =>
               Holds(build) \/ ((\E b \in 1..build : Holds(b)) /\ Unattended)

\* store_result is one transaction: a run has nothing of a result or all of it.
WholeInv == (\A k \in Kinds : run[k] = NewRun[k]) \/ \E b \in 1..build : Holds(b)

\* The queries that a reader has made that has come to a point.
Made(point) ==
    {LoadOrder[i] : i \in {j \in DOMAIN LoadOrder : \A k \in DOMAIN LoadOrder : LoadOrder[k] = point => j < k}}
Reading(x) == x.point \in Range(LoadOrder) \cup {"loaded"}

\* A reader that has found the run completed reads the artifacts of one result, those which
\* are stored as long as the run is not deleted.
ReaderOK(x) ==
    /\ Reading(x) => DOMAIN x.got = Made(x.point)
    /\ Reading(x) /\ "record" \in DOMAIN x.got /\ x.got.record.status = "completed" =>
           \E b \in 1..build :
               /\ \A k \in Kinds \cap DOMAIN x.got : x.got[k] = Run(b)[k]
               /\ Stored => Holds(b) /\ (b = build \/ (run.status = "completed" /\ Unattended))
    /\ x.point = "store" => Sound(x.answer)
ReaderInv == \A r \in Readers : ReaderOK(reader[r])

VerdictInv == ReplayTypeOK /\ ResultInv /\ ReaderInv /\ VerdictHolds

\* While one build executes, a reader that has read a report reads the events it sums up.
Summarized(x) ==
    build = 1 /\ Reading(x) /\ "report" \in DOMAIN x.got =>
        /\ "events" \in DOMAIN x.got => x.got.events \in {NewRun.events, Run(1).events}
        /\ \/ x.got.report = NewRun.report
           \/ /\ x.got.report = Run(1).report /\ (Stored => Holds(1))
              /\ "events" \in DOMAIN x.got => x.got.events = Run(1).events
SummaryInv == VerdictInv /\ WholeInv /\ (\A r \in Readers : Summarized(reader[r])) /\ SummaryRecounts
-----------------------------------------------------------------------------
(* The inductive invariant of the theorem about paging.                    *)

\* The steps of stored artifacts are numbers, those of snapshots count from zero.
Dated(c, list) ==
    /\ IsList(list)
    /\ \A i \in DOMAIN list :
           _entry_step(list[i]) \in IF c = "snapshots" THEN Nat ELSE Int \cup {None}
DatedInv ==
    /\ \A c \in Range(Categories) : Dated(c, run[c]) /\ (Stored \/ run[c] = <<>>)
    /\ \A t \in DOMAIN thread : Dated("logs", thread[t].todo)

\* Nothing of what was stored when a reader began has been replaced.
Intact(x) == Stored /\ \A c \in DOMAIN x.began : IsPrefix(x.began[c], run[c])

\* Logs are only appended; a result is stored once, or once more by the present build.
Follows(x, c) ==
    IF c = "logs"
    THEN /\ IsPrefix(x.began[c], run[c])
         /\ c \in DOMAIN x.got => IsPrefix(x.began[c], x.got[c]) /\ IsPrefix(x.got[c], run[c])
    ELSE /\ run[c] \in {x.began[c], Run(build)[c]}
         /\ c \in DOMAIN x.got => x.got[c] = x.began[c] \/ (x.got[c] = Run(build)[c] /\ run[c] = x.got[c])

\* What load_run returns if the rest of its queries are made now.
Pending(x) ==
    [k \in Range(Categories) \cup {"record"} |->
        IF k = "record" THEN [config |-> config] ELSE IF k \in DOMAIN x.got THEN x.got[k] ELSE run[k]]
Preceding(a, e) == Cardinality({d \in Entries(a) : Earlier(d, e)})

\* A reader was given what lies behind its cursor: the steps it played or paged through, in its
\* direction, and of a timeline at least as many entries as there are before what it misses.
Given(x, c, i) == Item(c, i - 1, x.began[c][i]) \in x.seen
Covered(x) ==
    /\ x.purpose \in {"range", "play", "rewind"} =>
           \A i \in DOMAIN x.began.snapshots :
               LET step == _entry_step(x.began.snapshots[i])
               IN  /\ x.purpose = "range" =>
                          x.cursor \in Int /\ (Given(x, "snapshots", i) \/ x.cursor <= step)
                   /\ x.purpose # "range" /\ x.steps # {} =>
                          /\ IsFiniteSet(x.steps) /\ x.steps \subseteq Int
                          /\ x.cursor \in x.steps /\ step \in x.steps
                          /\ \/ Given(x, "snapshots", i)
                             \/ x.purpose = "play" /\ x.cursor <= step
                             \/ x.purpose = "rewind" /\ step <= x.cursor
    /\ x.purpose = "timeline" =>
           /\ x.cursor \in Nat
           /\ \A k \in DOMAIN Categories : \A i \in DOMAIN x.began[Categories[k]] :
                  \/ Given(x, Categories[k], i)
                  \/ x.cursor <= Preceding(Pending(x), _entry(Pending(x), k, i))

PagesOK(x) ==
    /\ x.missed = {}
    /\ Reading(x) =>
           /\ DOMAIN x.began = Paged(x.purpose)
           /\ \A c \in DOMAIN x.began : Dated(c, x.began[c]) /\ (Stored => Follows(x, c))
           /\ \A c \in Range(Categories) \cap DOMAIN x.got : Dated(c, x.got[c])
           /\ "record" \in DOMAIN x.got => x.got.record.config = config
           /\ Intact(x) => Covered(x)
PagingInv == VerdictInv /\ WholeInv /\ DatedInv /\ \A r \in Readers : PagesOK(reader[r])
=============================================================================
