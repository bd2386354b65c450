# Verification of the TES exchange

TES is a deterministic exchange simulation: a matching engine in C++ (`engine/`), a Python
layer that drives it in sessions and backtests and serves them through an HTTP API with a
durable queue and worker processes (`sim/`), and a dashboard (`web/`).  This directory holds
TLA+ specifications of the matching engine, of queued execution, and of what is built on both
(tournaments, live streams, stored results and their replay), the TLC configurations that check
them, and TLAPS proofs.

Paths below are relative to the repository.  `PROJECT.json` maps every definition to the lines
it models, lists the hazards of the code with the properties that cover them, and gives for
every checked property a mutant of the model that violates it.

## 1. Inventory

| Part | State | Operations | Hard about it | What makes it correct |
|---|---|---|---|---|
| Order book (`order_book.hpp`) | price levels of queues, id index | add, cancel, fill the front, best prices, depth, executable quantity | icebergs leave and rejoin queues; hidden orders rank behind displayed ones of their price; aggregates and index are kept apart from the queues | price-time order; every order in exactly one place; a fill takes something |
| Matching engine (`matching_engine.cpp`) | books, ownership table, accounts, reserves per account and per order, pending stops, marks, phases, bands, ledger | place (limit, hidden, iceberg, market, stop, stop-limit), cancel, replace, uncross, halt, resume, phases, bands, fees, risk, balances | one call runs nested loops: fills, then triggered stops, which place orders, which fill; early exits in the middle of a settlement; three tables describe each resting order | the tables agree; nobody spends cash or units twice; the book is not crossed; calls return |
| Fees and risk (same file) | fee model, risk configuration per account | fee, reserve, pre-trade check, margin snapshot | integer rounding per fill against reserves per order | an accepted order can be settled |
| Market data, replay log, formatting | bounded histories, text | record, query, format | bounds | history is the last n updates |
| Bindings, adapter, event models | none | convert, parse, serialize | keys that may or must be there; the default symbol is left out | what was stored can be read |
| Sessions, backtests, strategies | step counter, positions, cash, generator, participants | one step: generate, submit, record | order of participants, two ways to count trades, marks without a book | same seed, same events; the report is that of the events |
| Run queue (`sim/api/execution/queue.py`) | tables `run_queue`, `run_leases`, `workers` | enqueue, claim, heartbeat, mark, cancel, drain, shut down, requeue stale | several processes on one database; locks that age; two-transaction sweeps; no owner check on heartbeats and marks | one owner per run, every run settled, also after a crash |
| Worker, executor (`worker.py`, `executor.py`) | the claimed run | register, poll, claim, execute, mark | a death between any two transactions; requests read before the claim | settles what it claims; stops when told to |
| Run store, run service (`storage/`, `services/run_service.py`) | table `runs`, results | create, update, store result, delete; execute, cancel | status is read, then written; no compare-and-set | a completed run has its results; record and queue row agree |
| Stream service (`stream_service.py`, `GET /runs/{id}/stream`) | recent messages, subscribers, closed runs, per process; logs in the store | publish, subscribe, replay, close | delivery outside the lock; replay and subscription are two steps; one instance per process | order per publisher, nobody waits for ever, every reader learns the end |
| Tournaments (`tournament_service.py`, `tournaments.py`) | table of tournaments with reports, links to children | expand, create children, aggregate, cancel | children run while others are still created; the aggregate is read-then-write from several workers and the route; a cancel is one step per child | every child is linked, the last report is that of the final children, the tournament ends |
| Stored results (`sqlite.py`, `in_memory.py`) | report, events, snapshots, accounts, logs, verification | store, append, query with filters and pages | two implementations, one by columns and one by payload | both answer alike |
| Replay and verification (`replay_service.py`, `tes_replay/`) | the stored verification | load, timeline, frames, ranges, playback, summary, hashes, verify, diff | a load is six reads, a client's paging several loads, while attempts store and replace results | a verdict is about one result; paging misses nothing; totals agree |
| Benchmarks, CLI, analytics, routes, dashboard | none of their own | forward, format, render | none | |

Interactions: routes call services; a queued request creates a record and then enqueues its id;
workers in other processes claim ids from the queue, execute through the services and write
records, results and rows; after each child they refresh its tournament; the scheduler routes
change the queue only.  A run executes the Python loop, which calls the engine object from one
thread.  Stream services exchange nothing between processes but the logs in the store.

## 2. Modules

| Module | Models | Uses |
|---|---|---|
| `PriceTimeBook` | `order_book.hpp` as operators on a set of resting orders; auction prices | |
| `RiskRules` | fees, reserves, cash-only and margin checks | |
| `MatchingEngine` | every call of the engine that changes state | `PriceTimeBook`, `RiskRules` |
| `EngineProperties`, `MCEngine` | its properties and invariants, its instances | |
| `EngineProofs`, `MatchingProofs` | its theorems: tables and shapes; trading, ledger, stops, ownership, reserves and what covers them | `SetFacts` |
| `RunBoard` | abstract: what distributed execution promises | |
| `RunQueue` | `SQLiteRunQueue`, one operator per transaction | |
| `RunLifecycle` | workers, services, store and requests around it | `RunQueue` |
| `RunProperties`, `MCRuns`, `RunProofs` | its properties and the mapping to `RunBoard`, its instances, its theorems | `RunBoard` |
| `TournamentPlan` | `tournaments.py` as operators: expansion of a request, report of the children | |
| `Tournament` | `TournamentService`, the worker around it, the store and the requests of a client | `TournamentPlan` |
| `TournamentProperties`, `MCTournament`, `TournamentProofs` | its properties, its instance, its theorems | |
| `RunStream` | `StreamService` in two processes, the run service that publishes, the route and its reader | |
| `StreamProperties`, `StreamProofs` | its properties, its theorems | `ListFacts` |
| `EventModels` | `tes_models/events.py`, `tes_serialization/events.py`, the events of the binding | |
| `MarketRuns` | the loops of sessions and backtests: what a run stores, given the answers of the engine | `EventModels`, `Selections` |
| `ArtifactStores` | the artifact queries of the two stores | `MarketRuns` |
| `ReplayViews` | `replay_service.py` and `playback.py` as operators on loaded artifacts | `ArtifactStores` |
| `ReplayVerifier` | `verification.py` as operators | `ReplayViews` |
| `RunReplay` | attempts that write a run and clients that read it, one access to the store per step | `ReplayVerifier` |
| `ReplayProperties`, `MCReplay`, `ReplayProofs` | its properties and inductive invariants, its instance, its theorems | `ListFacts` |
| `Selections` | filtering and sorting, by ranks | |
| `SetFacts`, `ListFacts` | facts about finite sets, sums and sequences | |

### The engine

The engine is called by one thread, so calls do not interleave.  What interleaves is inside a
call: `pc` is `idle` between calls and otherwise says which loop the call is in.  A client's
order is one step that checks and numbers it (`SubmitOrder`, `SubmitMarket`, `SubmitStop`,
`Replace`), one that refuses or admits it (`RefuseOrder`, `AdmitOrder`), one step per fill
(`ExecuteFill`), one for the remainder (`FinishOrder`), then the passes over pending stops
(`ScanStops`, `TriggerStop`, `EndPass`), whose orders go through the same steps with
`caller = "stops"`.  An uncross is `StartUncross`, one `AuctionTrade` per trade and `EndUncross`.

The book is a set of orders with their place in the queue; `Front` and `Ahead` recover the
order in which the levels, maps and lists of the code are walked.  The ownership table, the
reserves per order (`held`) and per account (`reserved`) are separate variables as in the code,
because their agreement is what can break.  Halves, which the code computes with `double` or by
integer division, are kept by doubling (`Mark2`, `Equity2`); margins are ratios over `RiskUnit`,
fees over `FeeUnit`, and rounding is that of the code.  Integers are unbounded.  Left out:
sequence numbers and the emitted events, average cost and realized profit, the reserve columns
of the ledger, per-symbol margin overrides, performance reports.

### Queued execution

`RunQueue` has one operator per SQLite transaction; `requeue_stale` is two, because its SELECT
is outside the transaction of its UPDATE.  Time is abstract: a lock is `fresh` when it is taken
or refreshed and `expired` at some later moment.  `Overruns` says whether an execution may
outlast the stale window; when it may not, `Expire` waits until nobody executes the run.  The
stale window is the shortest one in use: `POST /scheduler/requeue-stale` may name a shorter one
than the queue's.

`RunLifecycle` is the worker loop, one step per transaction, a crash before any of them, and the
requests of clients and operators, each cut at its transactions: create and enqueue are two, a
cancel is three (queue, read of the record, write of the record).  `Accepted` is what the two
services check before they execute.  A step of the store on a deleted run changes nothing, as
UPDATE does.  Left out here: columns no decision reads, `--once` and `--max-jobs`, several cancels
of one run at the same time, database errors; logs, messages, tournaments and synchronous
execution are in the modules below.

### Tournaments

`Tournament` starts with one request from `Configs`.  `CreateTournament`, then per child
`CreateChild`, `LinkChild` and `EnqueueChild` are the loop of `run_tournament`; a child may be
executed before the next one exists.  A refresh is `ListChildren`, one `ReadChild` per child and
`WriteReport`; a worker (`aggregate_for_child`) and the report route (`GetReport`) run it alike,
each with its own view in `agg`.  The worker is that of `worker.py` reduced to the steps that
matter to a tournament: claim, open, start, fail or complete, refresh, mark; the queue row is
`absent`, `pending`, `running` or `settled`, and the row of a dead worker becomes claimable.  A cancel is
per child `CancelInQueue`, `CancelRead`, `CancelWrite`, then `EndCancel`.  A child's key is the text
`_key` renders: texts are sequences of character codes (`TournamentPlan`), joined by `|`, `,`, `+`
and `=` with nothing escaped, and only the spelling of the code's own words is a constant
(`Spelling`).  What `_metrics` computes is one abstract value.
`reported`, `lost`, `dropped` and `overtaken` are history variables for the properties.

### Streams

`RunStream` has one run, in mode `sync` (executed by the request, in the API process) or `queued`
(by a worker with a stream service of its own).  A thread's call is cut where the code takes and
leaves the lock: `Publish` (append to recent, copy the subscribers), one `Deliver` per subscriber,
`LogMessage`; `Close`, then `PutSentinel`.  A reader is the route: `Connect` reads the record,
`Replay`, `CheckEnd`, `Subscribe`, `Receive`; it reconnects after the connection ended without a
`completed` or `error` message, the categories named at `useRunStream.ts:19`.  `Drop` breaks a connection,
`Restart` empties the memory of the API process.  Messages are their publisher, their number and
their category.  Left out: the worker's own log of a failed execution (`worker.py:111`).

### Results and their replay

A dict is a function from its keys, an event keeps its type, symbol, price and quantity.  The
engine is an input: `MCReplay` gives for every scenario a tape of answers per build, and
`MarketRuns` computes the events, snapshots, accounts, report and progress messages both runners
store.  `ReplayViews` and `ReplayVerifier` are operators on loaded artifacts; a hash is the
normalised value it is computed from (equal hashes mean equal values).  Left out are
`combined_hash`, `sequence_count` and the `final_account_hash` of a diff, which enter no
comparison, and the recursion of `_normalize` into nested values, whose timestamps are not
modelled.  Sorting and filtering are
`Ordered` and `Where` of `Selections`, which say at which place an element comes by how many come
before it: that is what a page is cut by, and the provers can expand it, which they cannot do with
`SortSeq` and `SelectSeq`.  `RunReplay` puts them in
motion: two attempts of one run (the second after the lease of the first expired), a cancel, a
delete, a crash, a deployment that restarts every process with the next build, and readers whose
`load_run` is one `Query` per read.  A reader pages through the timeline, takes ranges, plays
frames forwards or backwards, summarizes or verifies.

## 3. Runs

All counts are distinct states; every run ends within three minutes on two cores.

| Run | Instance | Checks |
|---|---|---|
| `EngineContinuous` (330 000) | one symbol, two traders and the default account, two prices, displayed, hidden and iceberg orders, IOC and FOK, market orders, cancels, replaces at three prices, a taker fee; five order ids | ownership is exact (`OwnersRest`), reserves of accounts are those of their orders (`ReservesBacked`), what rests is covered (`RestCovered`), `Solvent`, `NoNakedShort`, `LedgerReconciles`, `Uncrossed`, `FokAllOrNothing`, `ReplaceSafe`, `NeverRests`; with fairness, `CallsReturn` |
| `EngineStops` (183 000) | stops above and below the market, stop-limits, replacement and cancel of stops, halts, a band that cuts off a price; six ids | no stop is left behind by the last trade (`StopsCurrent`); no units move in a halted symbol (`NoTradeWhileHalted`) |
| `EngineAuction` (587 000) | displayed orders on three prices collected in an opening auction, an account that becomes a short seller while its orders rest; four ids | an uncross trades what it announced (`UncrossComplete`) and keeps the reserves (`ReservesBacked`) |
| `EngineAll` (2 300 000) | every call, an invalid order, the default account as a trader, changed fees, risk rules and balances; three ids | the parts of the inductive invariant: `TypeOK`, `WellShaped`, `BookOwned` (`IdsFresh`, its fourth part, is proved only) |
| `RunsSteady` (356 000) | a benchmark and a session of different priority, two workers, one crash anywhere, a cancel anywhere, sweeps; executions within the window | `OwnerExecutes`, `LeaseIsLock`, `OutcomesAgree`, the refinement `BoardSpec`; with fairness, `EveryRunSettles` |
| `RunsOverrun` (239 000) | one run that may outlast the window and may be deleted, two workers of which one is drained or shut down, one crash | `RunTypeOK`, `CompletedHasResult`, `StopsClaiming`; with fairness, `ShutdownStops` |
| `Tournaments` (364 000) | six requests: all four types, one that is refused and one that expands to nothing; a sweep of two parameters with two children, the others with one, two workers, one crash anywhere, one request of a client (report, cancel, delete of a child) anywhere | `EveryChildLinked`, `SettledIsReported`, `QuietReportCurrent`, `DroppedIsFinal`; with fairness, `TournamentSettles` |
| `Stream` (679 000) | a synchronous or queued run with one progress message, a cancel, a delete, one reader, one broken connection or restart; two recent messages, nine replayed logs | `PublisherOrder`, `NobodyStranded`, `EndIsReplayed`; with fairness, `ReadersLearnTheEnd` |
| `Replay` (501 000) | five scenarios (sessions and backtests of one and of two symbols, the default symbol among them, an auction, a halt), two builds that agree or differ in events or in prices, two attempts, one reader, one fault; ranges of one step, pages of eight entries, six artifact queries | `VerdictHolds`, `PagesMissNothing`, `SummaryRecounts`, `StoresAgree` |

Why these bounds are enough to be interesting.  Four or five orders are two makers, a taker that
sweeps both and a rest, or a maker, its replacement and two takers; quantities up to three let an
order be filled in two parts with a remainder, and an iceberg show three clips.  `EngineAll`
trades depth for breadth: every call, three orders.  One symbol keeps the runs small; symbols
share only cash, short margin and risk rules, and what is proved is proved for any number of
them.  In queued execution two workers and one crash give
every pair of a holder and a taker of one run, with the crash at every point of the holder's
loop; the second run is there for the claim order and for a worker that moves on.  Two children
are enough for a refresh that reads one child before and one after another worker changed them,
and for a creation that overlaps an execution; their keys differ only in the value of the
second parameter.  In `Stream` a bound of two recent messages is less
than any run publishes, so the queue overflows; the nine replayed logs are all of them, because
`get_logs(limit)` returns the first ones (see below).  In `Replay` a range of one step makes
every paging several requests, with a result stored or replaced between any two; the second
attempt may replace what the first stored.  The session of two steps is paged, the others are also
summarized and verified.  Attempts are symmetric there.

Deadlock is checked everywhere but in the runs of `RunStream`, where everybody may be done: the
engine can always be asked something (`Inspect`, a query), workers poll for ever, and `Ended`
is the step of a run nobody executes any more.

Fairness.  `FairSpec` of the engine assumes that a started call goes on (weak fairness of
`Internal`): it is a sequential program with no waits.  `FairSpec` of queued execution assumes
that a live worker's loop goes on, executions included (a session has a fixed number of steps),
and that time passes (`Expire`); it assumes nothing of restarts, clients or the scheduler.
`FairSpec` of tournaments assumes that the creating request, a started request of the client and
the loop of a live worker go on, that of streams that threads and a connected or reconnecting
reader go on; neither assumes a restart, a crash or a new request.
`EveryRunSettles` holds without anyone calling `requeue_stale`, and has the explicit premise
that from some time on some worker is alive and was not told to stop.

### Disagreements with the documentation

Three runs of `PROJECT.json` expect a violation; each states what a document says.

* `IcebergRemainder`: an iceberg that trades on arrival and keeps less than its clip is silently
  refused by `add_order`, while its ownership and reserve are recorded; a cancel cannot release
  them.
* `LongRunTwice`: no heartbeat is sent while a run executes, so a run longer than the stale
  window is executed twice at once.
* `QueuedStream`: `replay_recent` prefers the messages of its own process; of a queued run the API
  process has its `run_queued` message, so a reader of a finished queued run is never given the
  stored messages, nor its end.

Met while modelling, and outside the premises of the passing runs:

* An ask that is covered partly by units and partly by short margin releases its units first and
  its margin in proportion, so what is left may be covered by less margin than its size needs
  (`RestCovered` is checked without short sales).
* The fill that trips the circuit breaker changes balances but is not entered in the ledger
  (`LedgerReconciles` is checked without bands).
* `evaluate_stop_orders` looks at the halt once per pass: after a triggered stop has tripped the
  circuit breaker, the other triggered stops of the pass are removed and turned into orders that
  are refused.  They trade nothing (`NoTradeWhileHalted`), but they are gone.
* In an auction phase IOC and FOK orders rest like the others (`NeverRests` is checked in
  continuous trading).
* The uncross measures displayed quantities only: with icebergs the book may be left crossed, and
  with hidden orders in front of the displayed ones the trade is settled with the size of the
  displayed front and the order a fill really takes (`EngineAuction` has displayed orders only).
  The announced quantity is traded all the same (`UncrossComplete`); the reserves no longer agree.
* `resume_symbol` and `set_trading_phase` make a crossed auction book continuous without an
  uncross; the documentation says so, hence the runs that check `Uncrossed` do not make them.
* `BenchmarkService.execute_pending_run` executes a canceled benchmark; a cancel between the
  check and the start of any run is overwritten by `running`; a cancel of an executing run by
  `completed`.  The last is documented as best effort, and `OutcomesAgree` allows all three.
* A request that stops between `create_run` and `enqueue` leaves a pending run nobody executes.
* The fixed fee is reserved once per order and charged per fill, so a cash-only account may owe
  more than it has (`matching_engine.cpp:866`; `Solvent` is checked with a proportional fee).
* A fill outside the price band leaves the loop before the ownership of the maker is updated; later
  releases divide by a quantity that is too large (`matching_engine.cpp:789`; `ReservesBacked` is
  checked without bands).
* In margin mode the check before the cancel of a replace accepts replacements which the check
  after it refuses, and the old order is lost (`matching_engine.cpp:1200`; `ReplaceSafe` is checked
  with cash-only accounts).
* A crash between the completion of the record and that of the row ends in a failed row and a
  completed run (`run_service.py:36`); an error inside the refresh of a tournament does the same.

Tournaments:

* A refresh that read earlier may be written later: the report is then older than the children
  (`overtaken`), and a refresh after a cancel replaces `canceled`.
* A report may say `completed` while children are still being created.
* A cancel and a delete refresh nothing; a worker that dies after `mark_failed` loses its refresh
  (`lost`).  The report stays as it was until somebody asks for it.
* Two children may have one key (`tournaments.py:303`); the second replaces the first's link, and the
  first is executed but never reported or canceled.  It happens when a list repeats a text (`1` and
  `"1"` have the same one) and when texts contain separators: `{"a": ["1", "1,b=2"], "b": ["3",
  "2,b=3"]}` repeats nothing and gives `a=1,b=2,b=3` twice.  `KeysCollide` in `MCTournament` shows
  both; `EveryChildLinked` is about requests with neither (`RepeatFree`, `Separated`).
* An empty list in `strategy_parameters` gives a tournament without children, reported `failed`.

Streams and logs:

* What is published between a reader's replay and its subscription is lost to that connection; the
  reader learns it when it reconnects (`ReadersLearnTheEnd`).
* The end of a canceled run is a `status` message, which the dashboard does not take for an end: it
  reconnects until it is closed.
* `get_logs(limit)` returns the first logs, not the last: after a restart a run with more logs than
  `replay_limit` replays its beginning, without its end (`Stream` replays all of them).
* `append_log` counts the sequence and inserts under a lock of the process: two processes may
  choose the same number.

Results and replay:

* Events and accounts carry no `step`, so frames of a replay never contain events, trades or
  accounts; snapshots of sessions count steps from 0, progress messages from 1.
* `first_divergence_step` replaces a step 0 by the position of the item.
* Snapshots hold `bids` and `asks` only, so the final prices of a summary and the best prices of a
  frame are always empty.
* `CancelRejected` is counted as a rejection when the report counts none, else not
  (`SummaryRecounts` states both bounds).
* `serialize_event` leaves out the default symbol also where `parse_event` requires one: stored
  market events of `DEFAULT` cannot be read back.
* The in-memory store compares `str(payload.get("account_id"))` with the account asked for
  (`in_memory.py:344`) and no stored account has that field: the account `None` matches all of them
  there and none in SQLite (`StoresAgree` excepts this query; `NoneMatches` in `MCReplay` shows it).
* An artifact of several symbols has no symbol column: SQLite finds it under none of them, the
  in-memory store under each (`StoresAgree` is about artifacts of one symbol).
* A second execution by another build replaces the result between the reads of a load: the summary
  of a run that is not completed may mix the two, and paging may skip (`SummaryRecounts` and
  `PagesMissNothing` except it).  `verify_run` does not store a mixed verdict as final, but two of
  them at once may overwrite `verified` by an older `partial`, and a new execution keeps the old
  verification.

## 4. Theorems

All are proved for every value of the constants that satisfies the assumptions of the modules
(values of the declared types, the default account exists, durations and limits are positive);
premises beyond these are named in the statement.  A theorem is `ASSUME premise PROVE Spec =>
[]Property`, its inductive invariant is a conjunction of named parts, and each invariant was
checked by TLC before it was proved.  `SetFacts` (finite sets, sums) and `ListFacts` (sequences,
prefixes, concatenations, sets in an order and the places of their
elements, what a filter leaves) hold the facts about data the proofs share.

### Engine (`EngineProofs`, `MatchingProofs`)

For every set of accounts and symbols, every number of orders, every start, fee and risk
configuration and every set of requests:

* `EngineInvariant`: `EngineInv = TypeOK /\ WellShaped /\ BookOwned /\ IdsFresh /\ IsFiniteSet(stops)`
  is inductive.  `BookOwned` alone is not: that a fill leaves the right record needs that no id
  rests twice, which needs that ids are fresh and that the order being placed, a replacement
  under its old id included, is not in the book (`IdsFresh`); that a partly filled iceberg still
  has a clip needs `WellShaped`; the order numbers of triggered stops need finitely many stops.
  `TypesHold`, `OrdersWellShaped`, `BookAlwaysOwned`, `IdsStayFresh` are its parts.
* `TradeInvariant` (`TradeInv`) adds `Queued` (the places of a queue are 1..n, each taken once) and
  `TakerInv`, what a fill-or-kill order being matched can still execute.  Without places nothing
  says that a side with orders has a front, and then every loop of the engine could stop early.
* `FokAlwaysFilled` (`FokAllOrNothing`): `executable_quantity` counts what matching then finds, clip
  after clip, hidden orders included.  A count over the levels is compared with the fills one by
  one: each fill takes from the count exactly what it takes from the order.
* `UncrossAlwaysComplete` (`UncrossComplete`): what is left of an uncross is always on display on
  both sides at its price (`UncrossInv`), whatever kinds of orders rest there.
* `ContinuousInvariant`, `NeverCrossed` (`Uncrossed`), `OnlyGtcRests` (`NeverRests`), without auction
  phases and price bands: during matching the best opposite price may cross the taker only while
  there is something left to match, and an order rests only after that.  An auction phase exists to
  collect crossing orders; a fill outside the band leaves the loop with a crossing remainder, which
  then rests.
* `LedgerAlwaysReconciles` (`LedgerReconciles`), without bands and overwritten accounts: both parties
  of a fill get entries with the fees charged to them, also when they are one account.  The fill
  that trips the breaker gets none, and `set_account_state` writes none.
* `HaltStopsTrade` (`NoTradeWhileHalted`), without uncrosses and overwritten accounts: an order being
  matched is one of a symbol that is not halted, and a halt ends it.  An uncross does not look at
  halts.
* `StopsNeverLeftBehind` (`StopsCurrent`), where nothing trades without a look at the stops: while a
  call runs, the symbols whose stops may be behind the mark are those it still has to evaluate.
  `replace_order`, `uncross` and `resume_symbol` do not evaluate stops.
* `OwnersInvariant` (`OwnersInv`) and `OwnersAlwaysRest` (`OwnersRest`), without bands, with hidden
  orders and uncrosses not both in use (`PlainAuctions`), the latter with clips of one unit
  (`SmallClips`).  `BookOwned` says that a record claims at least what is open; that it claims
  exactly this needs that every fill comes to `AuctionOwner` or `FillOwner` with the quantity it took:
  the breach of a band leaves the loop before, and an uncross with a hidden order in front settles
  the size of the displayed front.  The remainder of an iceberg that is smaller than its clip is
  refused by the book after it was recorded (`IcebergRemainder`).
* `ReservesAlwaysBacked` (`ReservesBacked`), under the premises of `OwnersInvariant`.  `ReserveInv` adds
  to the sums that a bid holds cash only and an ask no more units than are left of it, and it needs
  `OwnersInv`: a release is a share `held * n / quantity` of what the order holds, which is between
  nothing and all of it only if `n` is at most the recorded quantity, and all of it at the last
  unit only if the record is exact.  The sums over an account's orders are then carried through
  every step by one lemma, which changes one order at a time (`ShiftBacked`); an auction trade is
  two such changes.
* What is blocked is there.  The next four rest on the invariants above.  Where a premise keeps
  rules, fees or balances as they are, it is because the code does not check a change of them
  against what rests:
  * `NeverNakedShort` (`NoNakedShort`), for any fees, prices and limits: the inductive `AsksInv` says
    that each unit an account without short sales offers is blocked for that ask alone (`UnitsHeld`),
    and that as many free units stand behind an ask while it is matched.  A fill frees exactly what
    it sells, so equality of blocked and open units, not an inequality, is what survives.
  * `AlwaysRestCovered` (`RestCovered`), without short sales: for a bid `ShareCovers` shows that a
    release rounded up by `ceil(held * n / quantity)` still leaves `u * rest` if `held >= u * quantity`,
    for every `u`; a cash reserve covers its price times what is left although the fee in it is
    released by rounded shares.  With short sales the reserve of an ask is split in two roundings
    and the statement is false (see above).
  * `ReplaceAlwaysSafe` (`ReplaceSafe`), for accounts without margin: the check is made before and
    after the withdrawal of the old order.  What the second check sees is the first one's balances
    less this order's reserve, up to top-ups that only add (`Relieved`), and each rule then still
    allows the order (`StillAllowed`).  With margin the second check values the account anew.
  * `AlwaysSolvent` (`Solvent`), where fees come out whole: `UnitCost` is what a unit costs at a
    price with the higher of the two rates.  Blocked cash is `UnitCost` times the open quantity
    (`BidsPaid`), a bid being matched has that much free (`BidPaid`), and no fill costs more than
    `UnitCost` times its quantity, because it trades at the price of the bid or better; a seller's
    fee is at most what the seller is paid.  With rounding or a fixed fee, several fills cost more
    than the one fee that was blocked.

### Queued execution (`RunProofs`)

For every finite set of runs and every set of workers, any crashes and requests:

* `RunInvariant`, hence `RunTypesHold` and `CompletedAlwaysHasResult`: `RunInv` adds to the goal
  that a worker about to complete a run has saved its results unless the run is deleted (a second
  executor may have done anything in between), and that a claimed run has a row and a record.
* `StoppedWorkerStopsClaiming` (`StopsClaiming`), with overruns as well: the request a worker has
  overrun once still stands and the worker is past that claim (`StopInv`), so it reads the request
  before it claims again.
* Under `~Overruns`: `LockInvariant`, hence `OwnerAlwaysExecutes`, `LeasesFollowLocks` and
  `NoRunTwice`.  `LockInv` adds that the lock of an executed run is fresh, so that neither a claim
  nor a sweep can take it, and that the rows a sweep will reset are among those it selected and
  still have the expired lock it saw: this is what makes its two transactions safe.
* Under `~Overruns`: `OutcomesAlwaysAgree` (`OutcomesAgree`): a worker about to settle a row finds the
  record already final, as the row is going to say (`OutcomeInv`).  With two executors one may
  complete the record after the other failed the row.
* Under `~Overruns`: `QueueImplementsBoard`, the refinement of `RunBoard` (initial states and every
  step, safety only): claims are `Take`, marks `Settle`, crashes `GiveBack`, cancels of pending
  rows `Drop`, everything else is a stutter.

### Streams (`StreamProofs`)

For every number of readers and messages, every limit, any broken connections and restarts:
`StreamInvariant`, hence `NobodyIsStranded` (`NobodyStranded`) and `PublishersInOrder`
(`PublisherOrder`).  `OrderInv` says where a message may be: deque, store, queue and what a reader
got hold the messages of one publisher in increasing order, what waits is newer than what was
read, and what a thread still has to deliver or to store is newer than what is there already; so
the replay a reader starts with and what it is sent afterwards cannot overlap.  That nobody is
stranded needs that the waiting readers of an open stream are its subscribers, and that a thread
only serves readers that wait (`SubscriberInv`).

`EndAlwaysReplayed` (`EndIsReplayed`), for runs of the API process of any length: the last message
is remembered before it is stored, and nothing but the message of one cancel is remembered after
it (`EndInv`); so it is among the last two of the deque, which must have room for two (it has 100),
as must a replay.  After a restart nothing is remembered and the logs are replayed from their
beginning: if there may be one, a replay must have room for all a run stores, which `LogCount`
bounds by the messages published and the entry of the cancel, and `PathInv` by the points the
threads have reached.  Without that premise the property is false (see above).

### Tournaments (`TournamentProofs`)

For any requests, workers and children: `TournamentInvariant`, hence `SettledAlwaysReported`
(`SettledIsReported`), `DroppedAlwaysFinal` (`DroppedIsFinal`) and `QuietReportAlwaysCurrent`
(`QuietReportCurrent`, with the exceptions it names: lost refreshes, overtaken reports, cancels and
deletes).  `TournamentInv` says which worker owns which child, that a link is made before its run
is enqueued (so the refresh of a worker finds it), and that a worker through with its refresh has
been reported.  That the report is current at the end needs `CurrentInv`: it shows every child
whose refresh is over; an aggregation that would put an older record there is late already, and
one that would put it over a refresh under way is known to that refresh.
`EveryChildAlwaysLinked` (`EveryChildLinked`) has the premises that no list of a request repeats a
text (`RepeatFree`) and that no text contains a separator (`Separated`: a bar anywhere, a comma in
names and values of parameters, a plus in symbols), without which two children may have one key.
`ChildKeysDistinct` shows that they are enough, in all four types, for texts and lists of any
length and any spelling of the code's words without a bar.  Its argument follows the rendered text: a
text divides in one way at the last separator when the part after it contains none
(`LastSeparator`), so as many joined texts without the separator determine their parts
(`JoinedSame`), the parts of a key at its bars (`KeySame`) and the values of the parameters at
their commas (`CombinationSame`); an `=` inside a value does no harm, because all children of a
request render the same names.  Of the sets of symbols only the last contains a plus.

### Replay (`ReplayProofs`)

For any scenarios, results of any length, any number of attempts, readers and faults:

* `VerdictInvariant`, hence `VerdictAlwaysHolds` (`VerdictHolds`).  A completed run has the whole
  result of one build, and of an earlier one only as long as nobody is going to write (`ResultInv`);
  so what a reader reads after it found the run completed is of one result (`ReaderInv`), because
  the record is the first of its six reads.  Of `diff_runs` it shows that there is a first
  divergence step exactly if a stream differs.
* `ResultsAreWhole` (`WholeInv`): the run has nothing of a result or all of one build's, whatever
  stops in between, because `store_result` is one transaction.  The next three rest on it.
* `StoresAlwaysAgree` (`StoresAgree`), for every query, negative limits and offsets included, but the
  one for the accounts of `None` (see above), with the premise of the property that no artifact
  names several symbols; at every moment (`SameAnswers`),
  where the run compares the stores after every write of artifacts.  The shape of what the runners
  store is shown first (`Shaped`): every event has a type and data, steps do not decrease along the
  list, and the books and positions are dicts of finitely many symbols.  Then the column of a row is
  the symbol the payload matches, SQL's order by step and sequence is the order of the list, and
  both cut the same places out of it (`SamePage`).
* `SummaryAlwaysRecounts` (`SummaryRecounts`), of a completed run or while there is one build.
  `SummaryInv` says what a reader holds between its reads: the report is read before the events, so a
  report of a result means that the events are there; a report that is not there yet leaves the
  totals to the events.  That a runner's report counts what the stored events show is `ReportCounts`
  and `SameCounts`: serialization drops a key but neither an event nor an amount.
* `PagingMissesNothing` (`PagesMissNothing`), for pages and windows of any size.  `PagingInv` relates
  a reader to what is stored *now*.  As long as what was there when it began still is (`Intact`),
  each list it began with is the beginning of what it has read, and that of what is stored
  (`Follows`): logs only grow, and a result is stored once, or again by the same build.  What it was
  not given lies ahead of its cursor (`Covered`).  For ranges and frames the cursor is a step, and
  later snapshots do not change which steps lie ahead.  A timeline is paged by offset, while entries
  stored in between are sorted in anywhere: the invariant counts the entries before one that is
  missing (`Preceding`), and `TimelineGrows` shows that the count never falls, so an entry can move
  to a later page but not to one that was given already.  `DatedInv` (steps are numbers, those of
  snapshots count from zero) is what makes the sort an order, and is proved of the runners.  The
  exception of the property is needed: another build's result, or a delete, puts something else in
  the place of what is paged through.

`WholeInv`, `SummaryInv` and `PagingInv` are stated in `ReplayProperties` and were checked by TLC on the
`Replay` instance before they were proved.  The assumptions on the constants say that windows and
pages are positive, that steps and the answers of the engine are what the runners take
(`ScenariosAssumption`), and that limits and offsets are integers (`QueriesAssumption`).

### Model-checked only

The liveness properties `CallsReturn`, `EveryRunSettles`, `ShutdownStops`, `TournamentSettles` and
`ReadersLearnTheEnd`: fairness and `ENABLED` are not handled by the provers.  Every other property
of the passing runs is stated by a theorem.

The provers cannot instantiate the library's induction theorems, which have an operator as a
parameter.  Where a proof needs a fact about a recursive function (sums, concatenations) it is
proved by a least counterexample, in `SetFacts` and `ListFacts`.

## 5. Plan

1. Theorems: `Solvent` with rounded fees, with the bound per fill that the rounding allows.
2. `OrderBookLevels`: levels, aggregates and the id index of `order_book.hpp`, refining
   `PriceTimeBook`; aggregates equal to sums, every order indexed at its level.
3. Market data histories (`market_data.cpp`) with their bounds.

### Not modelled

* Formatting, the replay log, the command line, analytics, rendering and the routes that forward to
  one service: no state and no control of their own.
* Orders of participants and strategies: the engine and the runners are checked with arbitrary
  commands and answers instead.
* Benchmark measurements and their tables, listing and filtering of runs, schema migration, artifact
  files of the older runner (`tes_simulation`, `tes_persistence`): one sequential pass each.
* Order and account timelines of the replay service: the same filters over the same entries.
* Database errors and the sharing of one SQLite connection by the threads of the API process.
