------------------------ MODULE TournamentProperties ------------------------
(***************************************************************************)
(* What a tournament is expected to keep true while its request, two       *)
(* workers and a client interleave.                                        *)
(***************************************************************************)
EXTENDS Tournament

\* Nothing is under way: the creation is over, no request, no execution, no waiting child.
Quiet ==
    /\ Created /\ client.point = "idle" /\ ~Active(Client)
    /\ \A w \in Workers : pc[w] \in {"idle", "off"}
    /\ \A r \in Runs : rows[r] \in {"absent", "settled"}

\* No client canceled or deleted anything.
Undisturbed == dropped = {} /\ \A r \in Runs : record[r].status \notin {"canceled", "deleted"}

\* No list of a request repeats a text; two values may have one text, as 1 and "1" have.
RepeatFree(c) ==
    /\ IsInjective(c.strategies) /\ IsInjective(c.seeds) /\ IsInjective(c.symbols)
    /\ IsInjective(c.scenarios) /\ IsInjective(c.participant_counts)
    /\ IsInjective(c.volatility_ranges)
    /\ \A p \in Range(c.strategy_parameters) \cup Range(c.sweep.parameters) : IsInjective(p.values)

\* No text of a request contains a character that separates it from others in a key: a bar,
\* a comma if it belongs to a parameter, a plus if it is a symbol.
Separated(c) ==
    /\ \A text \in Range(c.strategies) \cup Range(c.scenarios) \cup Range(c.symbols) \cup {c.sweep.strategy} :
           Bar \notin Range(text)
    /\ \A symbol \in Range(c.symbols) : Plus \notin Range(symbol)
    /\ \A p \in Range(c.strategy_parameters) \cup Range(c.sweep.parameters) :
           \A text \in {p.name} \cup Range(p.values) : {Bar, Comma} \cap Range(text) = {}

\* Every child that was not deleted is linked under a key of its own once the request that
\* created the children has returned (expand_tournament, _key, link_tournament_child), for
\* requests whose lists repeat no text and whose texts contain no separator.  Of others two
\* children may have one key: {a: ["1", "1,b=2"], b: ["3", "2,b=3"]} gives a=1,b=2,b=3 twice.
EveryChildLinked ==
    Created =>
        \A r \in Runs : Stored(r) => \E l \in links : l.run = r

\* A settled row of a linked child means that some stored report has shown the child as
\* terminal, whoever executed it and however often (Worker.run refreshes the report before
\* mark_completed, and after mark_failed).  The exceptions: a worker is about to refresh
\* it, or has died before it could, or a cancel took the child off the queue.
SettledIsReported ==
    \A l \in links : rows[l.run] = "settled" =>
        \/ l.run \in reported \cup lost \cup dropped
        \/ \E w \in Workers : job[w] = l.run /\ pc[w] \in PastMark

\* Once everything is quiet the stored report is the one of the final children, and the
\* tournament is over: the last of all overlapping refreshes wins.  It may not be so
\* after an older refresh was stored over a newer one, after a worker died between
\* mark_failed and its refresh, or after a client's cancel or delete, which refresh nothing.
QuietReportCurrent ==
    Quiet /\ links # {} /\ Undisturbed /\ lost = {} /\ ~overtaken =>
        /\ tour.report = build_report(links, [r \in {l.run : l \in links} |-> record[r]])
        /\ tour.status \in {"completed", "canceled"}

\* A child that a cancel has taken off the queue is final once the cancel has visited it:
\* nobody else would ever settle its record (cancel_tournament, cancel_run), also if a
\* worker had died while it executed the child.
DroppedIsFinal ==
    \A r \in dropped :
        client.run # r => record[r].status \in Terminal \cup {"deleted"}

\* While some worker lives, the tournament is over in the end and stays so, under the same
\* exceptions as above.
TournamentSettles ==
    <>[](\E w \in Workers : pc[w] # "off") /\ <>Created =>
        <>[](links # {} /\ Undisturbed /\ lost = {} /\ ~overtaken => tour.status \in Terminal)

-----------------------------------------------------------------------------
(* The inductive invariants of the theorems.                               *)

Children == UNION {expand_tournament(c) : c \in {d \in Configs : WellFormed(d) /\ Expandable(d)}}
Keys == {s.key : s \in Children}
Link == [key : Keys, run : Runs]
Final == Terminal \cup {"deleted"}
Record == [status : Final \cup {"none", "pending", "running"}, metrics : Metrics \cup {<<>>}]
Readings == UNION {[R -> Record] : R \in SUBSET Runs}
Aggregation == [on : BOOLEAN, links : SUBSET Link, read : Readings,
                older : SUBSET Processes, late : BOOLEAN]
Over == {"done", "mark", "fail", "failed", "leave"}   \* the run of the worker has ended
Refreshing == {"mark", "leave"}
Busy == {"open", "start", "execute"} \cup Over

TournamentTypeOK ==
    /\ rows \in [Runs -> {"absent", "pending", "running", "settled"}]
    /\ record \in [Runs -> Record] /\ links \subseteq Link
    /\ tour = [status |-> tour.status, report |-> tour.report]
    /\ creator \in [point : {"idle", "next", "link", "enqueue", "broken"},
                    todo : SUBSET Children, run : Runs \cup {NoRun}, key : Keys \cup {<<>>}]
    /\ pc \in [Workers -> Busy \cup {"idle", "off"}] /\ job \in [Workers -> Runs \cup {NoRun}]
    /\ agg \in [Processes -> Aggregation]
    /\ client \in [point : {"idle", "cancel", "write"}, todo : SUBSET Runs, run : Runs \cup {NoRun}]
    /\ client.point = "write" => client.run \in Runs
    /\ dropped \subseteq Runs

\* One worker has a run, and its row is running until that worker marks it; a run that has
\* ended, or whose row is settled, has a final record, unless a cancel took it off the
\* queue.
OwnerInv ==
    /\ \A w \in Workers : job[w] # NoRun <=> pc[w] \in Busy
    /\ \A w \in Workers : job[w] # NoRun =>
           rows[job[w]] = IF pc[w] \in PastMark THEN "settled" ELSE "running"
    /\ \A w, v \in Workers : job[w] # NoRun /\ job[w] = job[v] => w = v
    /\ \A w \in Workers : pc[w] \in Over => record[job[w]].status \in Final
    /\ \A r \in Runs : rows[r] = "settled" => r \in dropped \/ record[r].status \in Final
    /\ \A r \in dropped : rows[r] = "settled" /\ \A w \in Workers : job[w] # r

\* A link is made once, before its run is enqueued; an aggregation has its links from there.
LinkInv ==
    /\ tour.status = "none" => creator.point = "idle"
    /\ \A r \in Runs : rows[r] # "absent" => record[r].status # "none"
    /\ creator.point \in {"link", "enqueue"} =>
           /\ creator.run \in Runs /\ creator.key \in Keys
           /\ rows[creator.run] = "absent" /\ record[creator.run].status # "none"
    /\ \A l \in links \cup UNION {agg[p].links : p \in Processes} :
           /\ record[l.run].status # "none"
           /\ creator.point = "link" => l.run # creator.run
    /\ \A l \in links : rows[l.run] = "absent" =>
           creator.point = "enqueue" /\ creator.run = l.run
    /\ \A p \in Processes : ~Active(p) => agg[p] = NoAgg
    /\ \A w \in Workers : Active(w) => pc[w] \in Refreshing

\* A worker that refreshes the report has its run among the links, reads it as terminal,
\* and is through only when the report shows it.
ReportInv ==
    /\ SettledIsReported
    /\ \A w \in Workers : pc[w] \in Refreshing /\ ~Active(w) =>
           \A l \in links : l.run = job[w] => job[w] \in reported
    /\ \A w \in Workers : Active(w) =>
           /\ \E l \in agg[w].links : l.run = job[w]
           /\ job[w] \in DOMAIN agg[w].read => agg[w].read[job[w]].status \in Terminal

TournamentInv == TournamentTypeOK /\ OwnerInv /\ LinkInv /\ ReportInv

\* The client visits one child at a time.
DropInv == DroppedIsFinal /\ (client.point = "idle" => client.run = NoRun)

\* Children are created before they are linked, one per key.
KeyInv ==
    /\ creator.point = "idle" => \A r \in Runs : record[r].status = "none"
    /\ creator.point \in {"next", "link", "enqueue"} =>
           \A r \in Runs : Stored(r) =>
               \/ creator.point = "link" /\ r = creator.run
               \/ \E l \in links : l.run = r
    /\ \A s, t \in creator.todo : s.key = t.key => s = t
    /\ \A s \in creator.todo : \A l \in links : l.key # s.key
    /\ creator.point = "link" =>
           /\ \A l \in links : l.key # creator.key
           /\ \A s \in creator.todo : s.key # creator.key

\* The refresh that a worker owes to the report for its run r is over.
Refreshed(r) ==
    \/ rows[r] = "settled" /\ r \notin dropped /\ \A w \in Workers : job[w] # r
    \/ \E w \in Workers : job[w] = r /\ pc[w] \in Refreshing /\ ~Active(w)

\* The report has to show the record of l; the refresh of w is going to show it.
Due(l) == Refreshed(l.run) /\ record[l.run].status # "canceled"
Coming(w, l) == job[w] = l.run /\ Active(w) /\ record[l.run].status # "canceled"

\* An aggregation that is not going to show the present record of l.
Behind(p, l) ==
    /\ Active(p)
    /\ \/ l \notin agg[p].links
       \/ l.run \in DOMAIN agg[p].read /\ agg[p].read[l.run] # record[l.run]

\* A set of links that was read at some time: the present one, or one that lacks a child.
Snapshot(L) ==
    /\ L = links \/ \E l \in links : l \notin L
    /\ \A l \in L : record[l.run].status # "none" /\ (creator.point = "link" => l.run # creator.run)

\* Without deletions, lost refreshes and overtaken ones: the report shows the record of
\* every child whose refresh is over, what would put an older record there is late already,
\* and what would put one over a refresh under way is known to that refresh.
Shows(L, read) ==
    /\ Snapshot(L) /\ DOMAIN read = {l.run : l \in L}
    /\ \A l \in links : Due(l) => l \in L /\ read[l.run] = record[l.run]
Shown ==
    \/ tour.report = NoReport /\ \A l \in links : ~Due(l)
    \/ \E L \in SUBSET Link, read \in Readings : tour.report = build_report(L, read) /\ Shows(L, read)
StatusShown ==
    /\ tour.report = NoReport \/ tour.status \in {tour.report.status, "canceled"}
    /\ tour.status = "none" => tour.report = NoReport
Readable ==
    \A p \in Processes : Active(p) =>
        Snapshot(agg[p].links) /\ DOMAIN agg[p].read \subseteq {l.run : l \in agg[p].links}
LateIfDue == \A l \in links : Due(l) => \A p \in Processes : Behind(p, l) => agg[p].late
KnownIfComing ==
    \A l \in links, w \in Workers : Coming(w, l) =>
        \A p \in Processes : Behind(p, l) => agg[p].late \/ p \in agg[w].older \ {w}

Disturbed == lost # {} \/ overtaken \/ \E r \in Runs : record[r].status = "deleted"
CurrentInv == Disturbed \/ (Shown /\ StatusShown /\ Readable /\ LateIfDue /\ KnownIfComing)
=============================================================================
