---------------------------- MODULE ReplayProofs ----------------------------
(***************************************************************************)
(* What is proved of a run and its replay, for any runs, builds of the     *)
(* engine, numbers of attempts, readers and faults: what a stored verdict  *)
(* of verify_run is about, that the two stores answer alike, that a        *)
(* summary recounts the events, and that paging misses nothing.            *)
(***************************************************************************)
EXTENDS ReplayProperties, ListFacts

-----------------------------------------------------------------------------
(* Results are made of lists.                                              *)

\* The events of a visit.
LEMMA VisitList ==
    ASSUME NEW answer, NEW symbol, IsList(answer.halt), IsList(answer.commands), IsList(answer.uncross),
           \A c \in DOMAIN answer.commands : IsList(answer.commands[c].events)
    PROVE  IsList(VisitEvents(answer, symbol))
<1>. USE DEF IsList
<1>. DEFINE parts == [c \in DOMAIN answer.commands |-> answer.commands[c].events]
<1>1. parts \in Seq(Range(parts)) /\ \A c \in DOMAIN parts : parts[c] \in Seq(Range(parts[c]))
  BY MappedList
<1>2. FlattenSeq(parts) \in Seq(Range(FlattenSeq(parts)))
  BY <1>1, FlattenedList
<1>. DEFINE answers == answer.halt \o FlattenSeq(parts) \o answer.uncross
<1>3. answers \in Seq(Range(answers))
  BY <1>2, ConcatList
<1>. HIDE DEF answers
<1>4. execute_command(answers, symbol) \in Seq(Range(execute_command(answers, symbol)))
  BY <1>3, MappedList DEF execute_command
<1>. QED  BY <1>4 DEF answers, VisitEvents

\* The streams of a session.
LEMMA SessionLists ==
    ASSUME NEW cfg, NEW tape, cfg.run_type = "session", cfg.steps \in Nat, IsList(cfg.symbols),
           IsTape(cfg, tape)
    PROVE  \A k \in {"events", "snapshots", "accounts"} : IsList(run_session(cfg, tape)[k])
<1>. USE DEF IsList
<1>. DEFINE n == Len(cfg.symbols)
            visits == Visits(cfg)
            answers == [i \in DOMAIN visits |->
                           LET events == VisitEvents(tape[i], visits[i].symbol)
                           IN  [j \in DOMAIN events |-> serialize_event(events[j])]]
            snapshots == [i \in DOMAIN visits |->
                             [step |-> visits[i].step, symbol |-> visits[i].symbol, snapshot |-> tape[i].book]]
<1>1. cfg.steps * n \in Nat
  BY ListShape
<1>2. DOMAIN visits = 1..(cfg.steps * n)
  BY DEF Visits
<1>3. DOMAIN visits = DOMAIN tape
  BY <1>2, ListShape DEF IsTape
<1>. HIDE DEF visits, n
<1>4. ASSUME NEW i \in DOMAIN answers
      PROVE  answers[i] \in Seq(Range(answers[i]))
  <2>. DEFINE events == VisitEvents(tape[i], visits[i].symbol)
  <2>1. events \in Seq(Range(events))
    BY <1>3, VisitList DEF IsTape
  <2>. HIDE DEF events
  <2>2. answers[i] = [j \in DOMAIN events |-> serialize_event(events[j])]
    BY DEF events
  <2>. QED  BY <2>1, <2>2, MappedList
<1>5. answers \in Seq(Range(answers)) /\ snapshots \in Seq(Range(snapshots))
  BY <1>1, <1>2, FunctionList
<1>6. FlattenSeq(answers) \in Seq(Range(FlattenSeq(answers)))
  BY <1>4, <1>5, FlattenedList
<1>7. run_session(cfg, tape).events = FlattenSeq(answers)
  BY DEF run_session, visits
<1>8. run_session(cfg, tape).snapshots = snapshots
  BY DEF run_session, visits
<1>9. run_session(cfg, tape).accounts \in Seq(Range(run_session(cfg, tape).accounts))
  <2>1. \A x : <<x>> \in Seq(Range(<<x>>))
    BY DEF Range
  <2>. QED  BY <2>1 DEF run_session
<1>. QED  BY <1>5, <1>6, <1>7, <1>8, <1>9

\* The streams of a backtest.
LEMMA BacktestLists ==
    ASSUME NEW cfg, NEW tape, cfg.run_type # "session", IsTape(cfg, tape)
    PROVE  \A k \in {"events", "snapshots", "accounts"} : IsList(run_backtest(cfg, tape)[k])
<1>. USE DEF IsList
<1>. DEFINE answers == [i \in DOMAIN tape |-> execute_command(tape[i].commands[1].events, DEFAULT_SYMBOL)]
            events == FlattenSeq(answers)
            stored == [i \in DOMAIN events |-> serialize_event(events[i])]
            snapshots == [i \in DOMAIN tape |->
                [step |-> i, symbols |-> [s \in Range(cfg.symbols) |-> BacktestBook(tape[i], s)]]]
            accounts == [i \in DOMAIN tape |-> BacktestAccount(cfg, tape, i)]
<1>1. tape \in Seq(Range(tape))
  BY DEF IsTape
<1>2. /\ answers \in Seq(Range(answers)) /\ snapshots \in Seq(Range(snapshots))
      /\ accounts \in Seq(Range(accounts))
  BY <1>1, MappedList
<1>3. ASSUME NEW i \in DOMAIN answers
      PROVE  answers[i] \in Seq(Range(answers[i]))
  <2>1. 1 \in DOMAIN tape[i].commands
    BY ListShape DEF IsTape
  <2>2. tape[i].commands[1].events \in Seq(Range(tape[i].commands[1].events))
    BY <2>1 DEF IsTape
  <2>. QED  BY <2>2, MappedList DEF execute_command
<1>4. events \in Seq(Range(events))
  BY <1>2, <1>3, FlattenedList
<1>5. stored \in Seq(Range(stored))
  <2>. HIDE DEF events
  <2>. QED  BY <1>4, MappedList
<1>6. /\ run_backtest(cfg, tape).events = stored
      /\ run_backtest(cfg, tape).snapshots = snapshots
      /\ run_backtest(cfg, tape).accounts = accounts
  BY DEF run_backtest
<1>. QED  BY <1>2, <1>5, <1>6

\* The result of every build.
LEMMA ResultLists ==
    ASSUME scenario \in Scenarios, NEW b \in 1..Len(scenario.tapes)
    PROVE  \A k \in {"events", "snapshots", "accounts"} : IsList(Run(b)[k])
<1>1. /\ config.steps \in Nat /\ IsList(config.symbols) /\ IsTape(config, scenario.tapes[b])
  BY ScenariosAssumption, ListShape DEF config, IsList
<1>. QED  BY <1>1, SessionLists, BacktestLists DEF Run, Artifacts

-----------------------------------------------------------------------------
(* Verdicts.                                                               *)

\* A pair of streams has a divergence step exactly if their hashes differ: a position at which
\* they differ is a number, also where an item says no step or step 0.
LEMMA DivergenceStep ==
    ASSUME NEW l, IsList(l), NEW r, IsList(r)
    PROVE  (_stream_divergence_step(l, r) # None) <=> (hash_stream(l) # hash_stream(r))
<1>. DEFINE top == Max({Len(l), Len(r)})
            here == {i \in 1..top : i > Len(l) \/ i > Len(r) \/ _normalize(l[i]) # _normalize(r[i])}
<1>1. /\ Len(l) \in Nat /\ DOMAIN l = 1..Len(l)
      /\ Len(r) \in Nat /\ DOMAIN r = 1..Len(r)
  BY ListShape DEF IsList
<1>2. top \in {Len(l), Len(r)} /\ top >= Len(l) /\ top >= Len(r)
  <2>1. \E x \in {Len(l), Len(r)} : \A y \in {Len(l), Len(r)} : x >= y
    BY <1>1
  <2>. QED  BY <2>1 DEF Max
<1>. HIDE DEF top
<1>3. (here = {}) <=> (hash_stream(l) = hash_stream(r))
  <2>1. ASSUME here = {} PROVE hash_stream(l) = hash_stream(r)
    <3>1. Len(l) = Len(r)
      <4>1. PICK m \in Nat, n \in Nat : m = Len(l) /\ n = Len(r)
        BY <1>1
      <4>2. top \in Nat /\ top >= m /\ top >= n
        BY <1>2, <4>1
      <4>3. \A i \in 1..top : ~(i > m) /\ ~(i > n)
        BY <2>1, <4>1
      <4>4. m = n
        BY <4>2, <4>3
      <4>. QED  BY <4>1, <4>4
    <3>2. \A i \in 1..Len(l) : _normalize(l[i]) = _normalize(r[i])
      BY <1>1, <1>2, <2>1, <3>1
    <3>. QED  BY <1>1, <3>1, <3>2 DEF hash_stream
  <2>2. ASSUME hash_stream(l) = hash_stream(r) PROVE here = {}
    <3>1. DOMAIN hash_stream(l) = DOMAIN l /\ DOMAIN hash_stream(r) = DOMAIN r
      BY DEF hash_stream
    <3>2. Len(l) = Len(r)
      <4>1. 1..Len(l) = 1..Len(r)
        BY <1>1, <2>2, <3>1
      <4>. QED  BY <1>1, <4>1, SameLength
    <3>3. \A i \in 1..Len(l) : _normalize(l[i]) = _normalize(r[i])
      <4>. TAKE i \in 1..Len(l)
      <4>1. hash_stream(l)[i] = _normalize(l[i]) /\ hash_stream(r)[i] = _normalize(r[i])
        BY <1>1, <3>2 DEF hash_stream
      <4>. QED  BY <2>2, <4>1
    <3>. QED  BY <1>1, <1>2, <3>2, <3>3
  <2>. QED  BY <2>1, <2>2
<1>4. here # {} => Min(here) \in Int
  <2>1. here \in SUBSET Nat
    BY <1>1, <1>2
  <2>. HIDE DEF here
  <2>. SUFFICES ASSUME here # {} PROVE Min(here) \in Int
    OBVIOUS
  <2>2. Min(here) \in here
    BY <2>1, MinElement
  <2>3. Min(here) \in Nat
    BY <2>1, <2>2, Zenon
  <2>. HIDE DEF Min
  <2>. QED  BY <2>3
<1>5. (_stream_divergence_step(l, r) = None) <=> (here = {})
  <2>. DEFINE i == Min(here)
              StepOf(items) == IF i > Len(items) THEN None ELSE _step(items[i])
  <2>1. _stream_divergence_step(l, r) = IF here = {} THEN None ELSE Or(Or(StepOf(l), StepOf(r)), i)
    BY DEF _stream_divergence_step, top
  <2>2. here # {} => i # None
    BY <1>4, NoneAssumption
  <2>. HIDE DEF here, i, StepOf
  <2>. QED  BY <2>1, <2>2 DEF Or
<1>. QED  BY <1>3, <1>5

\* The first divergence of two results is none exactly if no stream differs.
LEMMA FirstDivergence ==
    ASSUME NEW l, NEW r, \A k \in {"events", "snapshots", "accounts"} : IsList(l[k]) /\ IsList(r[k])
    PROVE  (first_divergence_step(l, r) # None) <=>
              (_comparisons(hash_summary(l), hash_summary(r))
                  \cap {"event_hash", "snapshot_hash", "account_hash"} # {})
<1>. DEFINE D(k) == _stream_divergence_step(l[_STREAM_NAMES[k]], r[_STREAM_NAMES[k]])
            diverging == {k \in DOMAIN _STREAM_NAMES : D(k) # None}
<1>1. first_divergence_step(l, r) = IF diverging = {} THEN None ELSE D(Min(diverging))
  BY DEF first_divergence_step
<1>2. diverging # {} => D(Min(diverging)) # None
  <2>1. diverging \in SUBSET Nat
    BY DEF _STREAM_NAMES
  <2>2. diverging # {} => Min(diverging) \in diverging
    <3>. HIDE DEF diverging
    <3>. QED  BY <2>1, MinElement
  <2>. HIDE DEF D
  <2>. QED  BY <2>2
<1>3. (D(1) # None) <=> (hash_stream(l.events) # hash_stream(r.events))
  BY DivergenceStep DEF _STREAM_NAMES
<1>4. (D(2) # None) <=> (hash_stream(l.snapshots) # hash_stream(r.snapshots))
  BY DivergenceStep DEF _STREAM_NAMES
<1>5. (D(3) # None) <=> (hash_stream(l.accounts) # hash_stream(r.accounts))
  BY DivergenceStep DEF _STREAM_NAMES
<1>6. diverging # {} <=> D(1) # None \/ D(2) # None \/ D(3) # None
  <2>1. DOMAIN _STREAM_NAMES = {1, 2, 3}
    BY DEF _STREAM_NAMES
  <2>. HIDE DEF D
  <2>. QED  BY <2>1
<1>7. (first_divergence_step(l, r) # None) <=> diverging # {}
  <2>. HIDE DEF D, diverging
  <2>. QED  BY <1>1, <1>2
<1>8. _comparisons(hash_summary(l), hash_summary(r)) \cap {"event_hash", "snapshot_hash", "account_hash"} # {}
      <=> \/ hash_stream(l.events) # hash_stream(r.events)
          \/ hash_stream(l.snapshots) # hash_stream(r.snapshots)
          \/ hash_stream(l.accounts) # hash_stream(r.accounts)
  BY DEF _comparisons, hash_summary
<1>. HIDE DEF D, diverging
<1>. QED  BY <1>3, <1>4, <1>5, <1>6, <1>7, <1>8

\* verify looks at the artifacts of a run and at nothing else of it.
LEMMA VerifyArtifacts ==
    ASSUME NEW a, NEW original, NEW replayed, \A k \in Kinds : a[k] = original[k]
    PROVE  verify(a, replayed) = verify(original, replayed)
<1>1. hash_summary(a) = hash_summary(original)
  <2>1. \A s \in Range(_STREAM_NAMES) : a[s] = original[s]
    BY DEF Kinds, _STREAM_NAMES, Range
  <2>2. _sequence_numbers(a) = _sequence_numbers(original)
    BY <2>1 DEF _sequence_numbers
  <2>. QED  BY <2>2 DEF hash_summary, Kinds
<1>2. first_divergence_step(a, replayed) = first_divergence_step(original, replayed)
  <2>. DEFINE D(k) == _stream_divergence_step(a[_STREAM_NAMES[k]], replayed[_STREAM_NAMES[k]])
              E(k) == _stream_divergence_step(original[_STREAM_NAMES[k]], replayed[_STREAM_NAMES[k]])
              diverging == {k \in DOMAIN _STREAM_NAMES : D(k) # None}
  <2>1. DOMAIN _STREAM_NAMES = {1, 2, 3}
    BY DEF _STREAM_NAMES
  <2>2. \A k \in {1, 2, 3} : D(k) = E(k)
    BY DEF Kinds, _STREAM_NAMES
  <2>3. diverging # {} => Min(diverging) \in {1, 2, 3}
    <3>1. diverging \in SUBSET {1, 2, 3}
      BY <2>1
    <3>. HIDE DEF diverging
    <3>2. diverging # {} => Min(diverging) \in diverging
      BY <3>1, MinElement
    <3>. QED  BY <3>1, <3>2
  <2>4. first_divergence_step(a, replayed) = IF diverging = {} THEN None ELSE D(Min(diverging))
    BY DEF first_divergence_step
  <2>5. first_divergence_step(original, replayed) = IF diverging = {} THEN None ELSE E(Min(diverging))
    <3>1. diverging = {k \in DOMAIN _STREAM_NAMES : E(k) # None}
      BY <2>1, <2>2
    <3>. QED  BY <3>1 DEF first_divergence_step
  <2>. HIDE DEF D, E, diverging
  <2>. QED  BY <2>2, <2>3, <2>4, <2>5
<1>3. metric_deltas(a.report, replayed.report) = metric_deltas(original.report, replayed.report)
  BY DEF Kinds
<1>. QED  BY <1>1, <1>2, <1>3 DEF verify

\* The verdict of AnswerVerify on a whole result is sound.
LEMMA VerdictSound ==
    ASSUME ReplayTypeOK, NEW b \in 1..build, NEW replayed, replayed \in {None, Run(build)}, NEW v,
           v = With(verify(Run(b), replayed), "build", build)
    PROVE  Sound(v)
<1>. SUFFICES ASSUME v.status \in {"verified", "mismatch"}
              PROVE  LET diff == diff_runs(Run(b), Run(v.build))
                     IN  /\ v.original_hashes = hash_summary(Run(b))
                         /\ (v.status = "verified") <=> (diff.status = "matching")
                         /\ v.first_divergence_step = diff.first_divergence_step
                         /\ (v.first_divergence_step # None) <=>
                               (v.mismatched_fields \cap {"event_hash", "snapshot_hash", "account_hash"} # {})
  BY DEF Sound
<1>. DEFINE w == verify(Run(b), replayed)
<1>1. DOMAIN w = {"status", "mismatched_fields", "first_divergence_step", "original_hashes"}
  BY DEF verify
<1>2. /\ v.build = build /\ v.status = w.status /\ v.mismatched_fields = w.mismatched_fields
      /\ v.first_divergence_step = w.first_divergence_step /\ v.original_hashes = w.original_hashes
  <2>. HIDE DEF w
  <2>1. v = With(w, "build", build)
    BY DEF w
  <2>2. /\ DOMAIN v = DOMAIN w \cup {"build"} /\ v["build"] = build
        /\ \A k \in DOMAIN w : k # "build" => v[k] = w[k]
    BY <2>1 DEF With
  <2>. QED  BY <1>1, <2>2
<1>3. replayed # None /\ replayed = Run(build)
  BY <1>2 DEF verify
<1>. DEFINE mismatched ==
         _comparisons(hash_summary(Run(b)), hash_summary(Run(build)))
             \cup {m \in {"report_metrics"} : DOMAIN metric_deltas(Run(b).report, Run(build).report) # {}}
<1>4. w = [status |-> IF mismatched = {} THEN "verified" ELSE "mismatch",
           mismatched_fields |-> mismatched,
           first_divergence_step |-> first_divergence_step(Run(b), Run(build)),
           original_hashes |-> hash_summary(Run(b))]
  BY <1>3 DEF verify
<1>5. /\ diff_runs(Run(b), Run(build)).status = IF mismatched = {} THEN "matching" ELSE "mismatch"
      /\ diff_runs(Run(b), Run(build)).first_divergence_step = first_divergence_step(Run(b), Run(build))
  BY DEF diff_runs
<1>6. (first_divergence_step(Run(b), Run(build)) # None) <=>
          (mismatched \cap {"event_hash", "snapshot_hash", "account_hash"} # {})
  <2>1. b \in 1..Len(scenario.tapes) /\ build \in 1..Len(scenario.tapes) /\ scenario \in Scenarios
    BY ScenariosAssumption, ListShape DEF ReplayTypeOK, IsList
  <2>. QED  BY <2>1, ResultLists, FirstDivergence
<1>. HIDE DEF mismatched, w
<1>. QED  BY <1>2, <1>4, <1>5, <1>6

-----------------------------------------------------------------------------
(* The types.                                                              *)

LEMMA ReplayTypeInit == Init => ReplayTypeOK
<1>. SUFFICES ASSUME Init PROVE ReplayTypeOK
  OBVIOUS
<1>1. 1 \in 1..Len(scenario.tapes)
  <2>1. scenario.tapes \in Seq(Range(scenario.tapes)) /\ scenario.tapes # <<>>
    BY ScenariosAssumption DEF Init, IsList
  <2>. QED  BY <2>1, EmptySeq
<1>. QED  BY <1>1 DEF Init, ReplayTypeOK, NewRun, Kinds, Waiting

LEMMA ReplayTypeNext ==
    ASSUME ReplayTypeOK, [Next]_vars
    PROVE  ReplayTypeOK'
<1>. USE DEF ReplayTypeOK, SetStatus, AppendLog
<1>1. CASE UNCHANGED vars
  BY <1>1 DEF vars
<1>2. ASSUME NEW t \in DOMAIN thread, Open(t) \/ Start(t) \/ Publish(t) \/ Fail(t)
      PROVE  ReplayTypeOK'
  BY <1>2 DEF Open, Start, Publish, Fail, Over
<1>3. ASSUME NEW t \in DOMAIN thread, StoreResult(t) \/ Complete(t) \/ Crash(t)
      PROVE  ReplayTypeOK'
  BY <1>3 DEF StoreResult, StoreArtifacts, Complete, Crash, Over
<1>4. CASE CancelRead \/ CancelWrite
  BY <1>4 DEF CancelRead, CancelWrite, Over
<1>5. CASE DeleteRun
  BY <1>5 DEF DeleteRun, NewRun, Kinds
<1>6. CASE Deploy
  <2>1. build' \in 1..Len(scenario'.tapes)
    <3>1. Len(scenario.tapes) \in Nat
      BY ScenariosAssumption, ListShape DEF IsList
    <3>. QED  BY <1>6, <3>1 DEF Deploy
  <2>2. DOMAIN Waiting = {"point", "todo"} /\ DOMAIN Over = {"point", "todo"}
    BY DEF Waiting, Over
  <2>3. DOMAIN Gone = DOMAIN Idle
    BY DEF Gone
  <2>. QED  BY <1>6, <2>1, <2>2, <2>3 DEF Deploy
<1>7. ASSUME NEW r \in Readers, NEW x, DOMAIN x = DOMAIN Idle, reader' = [reader EXCEPT ![r] = x],
             UNCHANGED <<scenario, build, thread>>, DOMAIN run' = DOMAIN run
      PROVE  ReplayTypeOK'
  BY <1>7
<1>8. DOMAIN Gone = DOMAIN Idle
  BY DEF Gone
<1>9. ASSUME NEW r \in Readers, NEW items, NEW more, NEW cursor, Deliver(r, items, more, cursor)
      PROVE  ReplayTypeOK'
  BY <1>9 DEF Deliver, Idle
<1>10. ASSUME NEW r \in Readers, \E purpose \in scenario.requests : Request(r, purpose)
       PROVE  ReplayTypeOK'
  BY <1>10 DEF Request, Idle
<1>11. ASSUME NEW r \in Readers, Query(r) \/ StoreVerification(r)
       PROVE  ReplayTypeOK'
  BY <1>8, <1>11 DEF Query, StoreVerification
<1>12. ASSUME NEW r \in Readers, AnswerRange(r) \/ AnswerTimeline(r)
       PROVE  ReplayTypeOK'
  BY <1>9, <1>12 DEF AnswerRange, AnswerTimeline
<1>13. ASSUME NEW r \in Readers, AnswerSession(r)
       PROVE  ReplayTypeOK'
  BY <1>9, <1>13 DEF AnswerSession
<1>14. ASSUME NEW r \in Readers, AnswerFrame(r)
       PROVE  ReplayTypeOK'
  BY <1>9, <1>14 DEF AnswerFrame
<1>15. ASSUME NEW r \in Readers, AnswerSummary(r) \/ AnswerVerify(r)
       PROVE  ReplayTypeOK'
  BY <1>15 DEF AnswerSummary, AnswerVerify, Idle
<1>16. CASE Ended
  BY <1>16 DEF Ended, vars
<1>. QED
  BY <1>1, <1>2, <1>3, <1>4, <1>5, <1>6, <1>10, <1>11, <1>12, <1>13, <1>14, <1>15, <1>16, Zenon DEF Next

-----------------------------------------------------------------------------
(* The writers.                                                            *)

\* A verdict stays sound, also of a later build.
LEMMA SoundStays ==
    ASSUME ReplayTypeOK, ReplayTypeOK', NEW v, Sound(v), scenario' = scenario, build' >= build
    PROVE  Sound(v)'
<1>1. 1..build \subseteq 1..(build')
  <2>1. Len(scenario.tapes) \in Nat
    BY ScenariosAssumption, ListShape DEF ReplayTypeOK, IsList
  <2>2. build \in Nat /\ build' \in Nat
    BY <2>1 DEF ReplayTypeOK
  <2>. QED  BY <2>2
<1>2. \A b : Run(b)' = Run(b)
  BY DEF Run, config
<1>. QED  BY <1>1, <1>2 DEF Sound

\* The result that is stored stays.
Keeps == \A k \in Kinds : run'[k] = run[k]

\* What every step of an attempt and of the requests that cancel and delete has in common.
LEMMA WriterKeeps ==
    ASSUME VerdictInv, ReplayTypeOK', UNCHANGED <<scenario, build, reader>>,
           run'.verification = run.verification \/ DOMAIN run'.verification = {},
           Stored' => Stored,
           Stored' => Keeps \/ Holds(build)',
           Stored' /\ run'.status = "completed" => run.status = "completed" \/ Holds(build)',
           \A t \in DOMAIN thread : Stored' /\ thread'[t].point = "stored" =>
               thread[t].point = "stored" \/ Holds(build)',
           Stored' /\ Unattended /\ run.status = "completed" =>
               Keeps /\ run'.status = "completed" /\ Unattended'
    PROVE  VerdictInv'
<1>. USE DEF VerdictInv
<1>1. \A b : Run(b)' = Run(b)
  BY DEF Run, config
<1>2. ASSUME NEW b, Holds(b), Keeps PROVE Holds(b)'
  BY <1>1, <1>2 DEF Holds, Keeps
<1>3. Stored' /\ Holds(build) => Holds(build)'
  BY <1>1 DEF Holds, Keeps
<1>4. ResultInv'
  <2>. SUFFICES ASSUME Stored'
                PROVE  /\ \A t \in DOMAIN thread' : thread'[t].point = "stored" => Holds(build)'
                       /\ run'.status = "completed" =>
                              Holds(build)' \/ ((\E b \in 1..(build') : Holds(b)') /\ Unattended')
    BY DEF ResultInv
  <2>1. ASSUME NEW t \in DOMAIN thread', thread'[t].point = "stored" PROVE Holds(build)'
    <3>1. t \in DOMAIN thread
      BY DEF ReplayTypeOK
    <3>. QED  BY <1>3, <2>1, <3>1 DEF ResultInv
  <2>2. ASSUME run'.status = "completed", ~Holds(build)'
        PROVE  (\E b \in 1..(build') : Holds(b)') /\ Unattended'
    <3>1. run.status = "completed" /\ ~Holds(build)
      BY <1>3, <2>2
    <3>2. (\E b \in 1..build : Holds(b)) /\ Unattended
      BY <3>1 DEF ResultInv
    <3>. QED  BY <1>2, <3>1, <3>2
  <2>. QED  BY <2>1, <2>2
<1>5. ReaderInv'
  <2>1. \A r \in Readers : reader'[r] = reader[r]
    OBVIOUS
  <2>2. ASSUME NEW x, ReaderOK(x) PROVE ReaderOK(x)'
    <3>1. Reading(x) => DOMAIN x.got = Made(x.point)'
      BY <2>2 DEF ReaderOK, Made
    <3>2. ASSUME Reading(x), "record" \in DOMAIN x.got, x.got.record.status = "completed"
          PROVE  \E b \in 1..build :
                     /\ \A k \in Kinds \cap DOMAIN x.got : x.got[k] = Run(b)[k]
                     /\ Stored' => Holds(b)' /\ (b = build \/ (run'.status = "completed" /\ Unattended'))
      <4>1. PICK b \in 1..build :
                /\ \A k \in Kinds \cap DOMAIN x.got : x.got[k] = Run(b)[k]
                /\ Stored => Holds(b) /\ (b = build \/ (run.status = "completed" /\ Unattended))
        BY <2>2, <3>2 DEF ReaderOK
      <4>2. ASSUME Stored', b = build PROVE Holds(b)'
        BY <1>3, <4>1, <4>2 DEF Holds
      <4>3. ASSUME Stored', run.status = "completed", Unattended
            PROVE  Holds(b)' /\ run'.status = "completed" /\ Unattended'
        BY <1>2, <4>1, <4>3
      <4>. QED  BY <4>1, <4>2, <4>3
    <3>3. x.point = "store" => Sound(x.answer)'
      <4>1. PICK v : v = x.answer
        OBVIOUS
      <4>2. x.point = "store" => Sound(v)'
        <5>1. build' >= build
          BY ScenariosAssumption, ListShape DEF ReplayTypeOK, IsList
        <5>. QED  BY <2>2, <4>1, <5>1, SoundStays DEF ReaderOK
      <4>. QED  BY <4>1, <4>2
    <3>. QED  BY <1>1, <3>1, <3>2, <3>3 DEF ReaderOK, Reading
  <2>3. ASSUME NEW r \in Readers PROVE ReaderOK(reader[r])'
    <3>1. PICK x : x = reader[r] /\ x = reader'[r]
      BY <2>1
    <3>2. ReaderOK(x)'
      BY <2>2, <3>1 DEF ReaderInv
    <3>. QED  BY <3>1, <3>2 DEF ReaderOK, Reading
  <2>. QED  BY <2>3 DEF ReaderInv
<1>6. VerdictHolds'
  <2>1. CASE run'.verification = run.verification
    <3>1. PICK v : v = run.verification
      OBVIOUS
    <3>2. build' >= build
      BY ScenariosAssumption, ListShape DEF ReplayTypeOK, IsList
    <3>3. Sound(v)'
      BY <3>1, <3>2, SoundStays DEF VerdictHolds
    <3>. QED  BY <2>1, <3>1, <3>3 DEF VerdictHolds, Sound
  <2>2. CASE DOMAIN run'.verification = {}
    BY <2>2 DEF VerdictHolds, Sound
  <2>. QED  BY <2>1, <2>2
<1>. QED  BY <1>4, <1>5, <1>6

\* The steps of the attempts and of the requests that cancel and delete.
LEMMA WriterNext ==
    ASSUME VerdictInv, ReplayTypeOK',
           \/ \E t \in DOMAIN thread :
                 Open(t) \/ Start(t) \/ Publish(t) \/ Fail(t) \/ StoreResult(t) \/ Complete(t) \/ Crash(t)
           \/ CancelRead \/ CancelWrite \/ DeleteRun
    PROVE  VerdictInv'
<1>. USE DEF VerdictInv, ReplayTypeOK, Kinds, Working
<1>1. CASE \E t \in DOMAIN thread : Open(t)
  BY <1>1, WriterKeeps DEF Open, Stored, Keeps, Unattended
<1>2. CASE \E t \in DOMAIN thread : Start(t)
  BY <1>2, WriterKeeps DEF Start, SetStatus, Stored, Keeps, Unattended
<1>3. CASE \E t \in DOMAIN thread : Publish(t)
  BY <1>3, WriterKeeps DEF Publish, AppendLog, Stored, Keeps, Unattended, Over
<1>4. CASE \E t \in DOMAIN thread : Fail(t)
  BY <1>4, WriterKeeps DEF Fail, SetStatus, Stored, Keeps, Unattended
<1>. HIDE DEF VerdictInv
<1>5. ASSUME NEW t \in DOMAIN thread, StoreResult(t)
      PROVE  VerdictInv'
  <2>1. Run(build)' = Run(build)
    BY <1>5 DEF StoreResult, StoreArtifacts, Run, config
  <2>2. Stored' => Stored /\ Holds(build)' /\ run'.status = run.status
    BY <1>5, <2>1 DEF StoreResult, StoreArtifacts, Stored, Holds, VerdictInv
  <2>3. thread[t].point \in Working
    BY <1>5 DEF StoreResult
  <2>4. UNCHANGED <<scenario, build, reader>> /\ run'.verification = run.verification
    BY <1>5 DEF StoreResult, StoreArtifacts, VerdictInv
  <2>. QED  BY <2>2, <2>3, <2>4, WriterKeeps DEF Unattended
<1>6. ASSUME NEW t \in DOMAIN thread, Complete(t)
      PROVE  VerdictInv'
  <2>1. Stored' => Stored /\ Keeps
    BY <1>6 DEF Complete, SetStatus, Stored, Keeps, VerdictInv
  <2>2. Stored' => Holds(build)'
    <3>1. Run(build)' = Run(build)
      BY <1>6 DEF Complete, Run, config
    <3>2. Stored => Holds(build)
      BY <1>6 DEF Complete, ResultInv, VerdictInv
    <3>. QED  BY <2>1, <3>1, <3>2 DEF Holds, Keeps
  <2>3. thread[t].point \in Working
    BY <1>6 DEF Complete
  <2>4. UNCHANGED <<scenario, build, reader>> /\ run'.verification = run.verification
    BY <1>6 DEF Complete, SetStatus, VerdictInv
  <2>. QED  BY <2>1, <2>2, <2>3, <2>4, WriterKeeps DEF Unattended
<1>. USE DEF VerdictInv
<1>7. CASE \E t \in DOMAIN thread : Crash(t)
  BY <1>7, WriterKeeps DEF Crash, Stored, Keeps, Unattended, Over
<1>8. CASE CancelRead
  BY <1>8, WriterKeeps DEF CancelRead, Stored, Keeps, Unattended
<1>9. CASE CancelWrite
  BY <1>9, WriterKeeps DEF CancelWrite, SetStatus, Stored, Keeps, Unattended, Over
<1>10. CASE DeleteRun
  BY <1>10, WriterKeeps DEF DeleteRun, Stored, NewRun, Over
<1>. QED
  BY <1>1, <1>2, <1>3, <1>4, <1>5, <1>6, <1>7, <1>8, <1>9, <1>10

-----------------------------------------------------------------------------
(* The readers.                                                            *)

\* The queries and their order.
LEMMA Queried ==
    /\ Range(LoadOrder) = {"record", "report", "events", "snapshots", "accounts", "logs"}
    /\ Head(LoadOrder) = "record" /\ Made("record") = {}
    /\ Made("loaded") = Range(LoadOrder)
    /\ \A name \in Range(LoadOrder) :
           /\ After(name) \in Range(LoadOrder) \cup {"loaded"}
           /\ Made(After(name)) = Made(name) \cup {name}
<1>1. LoadOrder = <<"record", "report", "events", "snapshots", "accounts", "logs">> /\ DOMAIN LoadOrder = 1..6
  BY DEF LoadOrder
<1>2. Range(LoadOrder) = {"record", "report", "events", "snapshots", "accounts", "logs"}
  BY <1>1 DEF Range
<1>3. ASSUME NEW n \in 1..6
      PROVE  Made(LoadOrder[n]) = {LoadOrder[i] : i \in 1..(n - 1)}
  <2>1. \A k \in 1..6 : LoadOrder[k] = LoadOrder[n] => k = n
    BY <1>1
  <2>2. {j \in 1..6 : \A k \in 1..6 : LoadOrder[k] = LoadOrder[n] => j < k} = 1..(n - 1)
    BY <2>1
  <2>. QED  BY <1>1, <2>2 DEF Made
<1>4. Made("loaded") = Range(LoadOrder)
  <2>1. \A k \in 1..6 : LoadOrder[k] # "loaded"
    BY <1>1
  <2>2. {j \in 1..6 : \A k \in 1..6 : LoadOrder[k] = "loaded" => j < k} = 1..6
    BY <2>1
  <2>. QED  BY <1>1, <2>2 DEF Made, Range
<1>5. ASSUME NEW n \in 1..6
      PROVE  After(LoadOrder[n]) = IF n = 6 THEN "loaded" ELSE LoadOrder[n + 1]
  <2>1. (CHOOSE i \in DOMAIN LoadOrder : LoadOrder[i] = LoadOrder[n]) = n
    BY <1>1
  <2>2. Tail(LoadOrder) = <<"report", "events", "snapshots", "accounts", "logs">>
    BY <1>1
  <2>3. (Tail(LoadOrder) \o <<"loaded">>)[n] = IF n = 6 THEN "loaded" ELSE LoadOrder[n + 1]
    BY <1>1, <2>2
  <2>. QED  BY <2>1, <2>3 DEF After
<1>6. ASSUME NEW name \in Range(LoadOrder)
      PROVE  After(name) \in Range(LoadOrder) \cup {"loaded"} /\ Made(After(name)) = Made(name) \cup {name}
  <2>1. PICK n \in 1..6 : name = LoadOrder[n]
    BY <1>1 DEF Range
  <2>2. CASE n = 6
    <3>1. Range(LoadOrder) = {LoadOrder[i] : i \in 1..6}
      BY <1>1 DEF Range
    <3>. QED  BY <1>3, <1>4, <1>5, <2>1, <2>2, <3>1
  <2>3. CASE n # 6
    <3>1. LoadOrder[n + 1] \in Range(LoadOrder) /\ n + 1 \in 1..6
      BY <1>1, <2>3 DEF Range
    <3>2. After(name) = LoadOrder[n + 1]
      BY <1>5, <2>1, <2>3
    <3>3. Made(After(name)) = {LoadOrder[i] : i \in 1..((n + 1) - 1)}
      BY <1>3, <3>1, <3>2
    <3>. QED  BY <1>3, <2>1, <3>1, <3>2, <3>3
  <2>. QED  BY <2>2, <2>3
<1>7. Head(LoadOrder) = "record" /\ Made("record") = {}
  BY <1>1, <1>3
<1>. QED  BY <1>2, <1>4, <1>6, <1>7

\* A step of a reader: what it has now is as it should be.
LEMMA ReaderStep ==
    ASSUME VerdictInv, ReplayTypeOK', UNCHANGED <<scenario, build, thread>>,
           \A k \in Kinds \cup {"status"} : run'[k] = run[k], VerdictHolds',
           NEW r \in Readers, NEW x, ReaderOK(x), reader' = [reader EXCEPT ![r] = x]
    PROVE  VerdictInv'
<1>1. \A b : Run(b)' = Run(b)
  BY DEF Run, config
<1>2. \A b : Holds(b)' <=> Holds(b)
  BY <1>1 DEF Holds
<1>3. (Stored' <=> Stored) /\ run'.status = run.status /\ (Unattended' <=> Unattended)
  BY DEF Stored, Unattended
<1>4. ResultInv'
  BY <1>2, <1>3 DEF VerdictInv, ResultInv
<1>5. ASSUME NEW y, ReaderOK(y) PROVE ReaderOK(y)'
  <2>1. y.point = "store" => Sound(y.answer)'
    <3>1. PICK v : v = y.answer
      OBVIOUS
    <3>2. build' >= build
      BY ScenariosAssumption, ListShape DEF VerdictInv, ReplayTypeOK, IsList
    <3>3. y.point = "store" => Sound(v)'
      BY <1>5, <3>1, <3>2, SoundStays DEF ReaderOK, VerdictInv
    <3>. QED  BY <3>1, <3>3
  <2>2. Reading(y)' <=> Reading(y)
    BY DEF Reading
  <2>3. Reading(y) => DOMAIN y.got = Made(y.point)'
    BY <1>5 DEF ReaderOK, Made
  <2>4. ASSUME Reading(y), "record" \in DOMAIN y.got, y.got.record.status = "completed"
        PROVE  \E b \in 1..build :
                   /\ \A k \in Kinds \cap DOMAIN y.got : y.got[k] = Run(b)[k]
                   /\ Stored => Holds(b) /\ (b = build \/ (run.status = "completed" /\ Unattended))
    BY <1>5, <2>4 DEF ReaderOK
  <2>. QED  BY <1>1, <1>2, <1>3, <2>1, <2>2, <2>3, <2>4 DEF ReaderOK
<1>6. ReaderInv'
  <2>. SUFFICES ASSUME NEW q \in Readers PROVE ReaderOK(reader[q])'
    BY DEF ReaderInv
  <2>1. PICK y : y = reader'[q]
    OBVIOUS
  <2>2. ReaderOK(y)
    BY <2>1 DEF VerdictInv, ReaderInv, ReplayTypeOK
  <2>3. ReaderOK(y)'
    BY <1>5, <2>2
  <2>. QED  BY <2>1, <2>3 DEF ReaderOK, Reading
<1>. QED  BY <1>4, <1>6 DEF VerdictInv

\* A reader that writes nothing.
LEMMA RunStays ==
    ASSUME VerdictInv, ReplayTypeOK', UNCHANGED <<scenario, build, run>>
    PROVE  VerdictHolds' /\ \A k \in Kinds \cup {"status"} : run'[k] = run[k]
<1>1. PICK v : v = run.verification
  OBVIOUS
<1>2. build' >= build
  BY ScenariosAssumption, ListShape DEF VerdictInv, ReplayTypeOK, IsList
<1>3. Sound(v)'
  BY <1>1, <1>2, SoundStays DEF VerdictInv, VerdictHolds
<1>. QED  BY <1>1, <1>3 DEF VerdictHolds, Sound

\* A reader that begins to load, or is through, has nothing yet or nothing any more.
LEMMA Unloaded ==
    ASSUME NEW x, \/ x.point = Head(LoadOrder) /\ x.got = Idle.got
                  \/ x.point \in {"idle", "done", "over"}
    PROVE  ReaderOK(x)
<1>1. DOMAIN Idle.got = {}
  BY DEF Idle
<1>. QED  BY <1>1, Queried DEF ReaderOK, Reading

LEMMA QueryStep ==
    ASSUME VerdictInv, ReplayTypeOK', NEW r \in Readers, Query(r)
    PROVE  VerdictInv'
<1>. USE DEF VerdictInv
<1>. DEFINE name == reader[r].point
            value == IF name = "record" THEN [config |-> config, status |-> run.status] ELSE run[name]
<1>1. name \in Range(LoadOrder) /\ UNCHANGED <<scenario, build, run, thread, faults>>
  BY DEF Query
<1>2. PICK x : /\ reader' = [reader EXCEPT ![r] = x]
               /\ x = IF Stored
                      THEN [reader[r] EXCEPT !.point = After(name), !.got = With(reader[r].got, name, value)]
                      ELSE Gone
  BY DEF Query, ReplayTypeOK
<1>3. CASE ~Stored
  <2>1. x.point = "over"
    BY <1>2, <1>3 DEF Gone, Idle
  <2>. QED  BY <2>1, Unloaded, <1>1, <1>2, ReaderStep, RunStays
<1>4. CASE Stored
  <2>1. x.point = After(name) /\ x.got = With(reader[r].got, name, value)
    BY <1>2, <1>4 DEF ReplayTypeOK, Idle
  <2>2. Reading(reader[r]) /\ DOMAIN reader[r].got = Made(name)
    BY <1>1 DEF ReaderInv, ReaderOK, Reading
  <2>3. x.point \in Range(LoadOrder) \cup {"loaded"} /\ DOMAIN x.got = Made(x.point)
    BY <1>1, <2>1, <2>2, Queried DEF With
  <2>4. /\ x.got[name] = value
        /\ \A k \in DOMAIN reader[r].got : k # name => x.got[k] = reader[r].got[k]
        /\ DOMAIN x.got = DOMAIN reader[r].got \cup {name}
    BY <2>1 DEF With
  <2>5. ASSUME "record" \in DOMAIN x.got, x.got.record.status = "completed"
        PROVE  \E b \in 1..build :
                   /\ \A k \in Kinds \cap DOMAIN x.got : x.got[k] = Run(b)[k]
                   /\ Holds(b) /\ (b = build \/ (run.status = "completed" /\ Unattended))
    <3>1. CASE name = "record"
      <4>1. run.status = "completed"
        BY <2>4, <2>5, <3>1
      <4>2. build \in 1..build
        BY ScenariosAssumption, ListShape DEF ReplayTypeOK, IsList
      <4>3. PICK b \in 1..build : Holds(b) /\ (b = build \/ Unattended)
        BY <1>4, <4>1, <4>2 DEF ResultInv
      <4>4. Kinds \cap DOMAIN x.got = {}
        BY <2>2, <2>4, <3>1, Queried DEF Kinds
      <4>. QED  BY <4>1, <4>3, <4>4
    <3>2. CASE name # "record"
      <4>1. "record" \in DOMAIN reader[r].got /\ reader[r].got.record.status = "completed"
        BY <2>4, <2>5, <3>2
      <4>2. PICK b \in 1..build :
                /\ \A k \in Kinds \cap DOMAIN reader[r].got : reader[r].got[k] = Run(b)[k]
                /\ Holds(b) /\ (b = build \/ (run.status = "completed" /\ Unattended))
        BY <1>4, <2>2, <4>1 DEF ReaderInv, ReaderOK
      <4>3. name \in Kinds => x.got[name] = Run(b)[name]
        BY <2>4, <3>2, <4>2 DEF Holds
      <4>4. \A k \in Kinds \cap DOMAIN x.got : x.got[k] = Run(b)[k]
        BY <2>4, <4>2, <4>3
      <4>. QED  BY <4>2, <4>4
    <3>. QED  BY <3>1, <3>2
  <2>6. x.point # "store"
    BY <2>3, Queried
  <2>7. ReaderOK(x)
    BY <2>3, <2>5, <2>6 DEF ReaderOK
  <2>. QED  BY <1>1, <1>2, <2>7, ReaderStep, RunStays
<1>. QED  BY <1>3, <1>4

\* A verification is about a result that was read as a whole.
LEMMA VerifyStep ==
    ASSUME VerdictInv, ReplayTypeOK', NEW r \in Readers, AnswerVerify(r)
    PROVE  VerdictInv'
<1>. USE DEF VerdictInv
<1>. DEFINE a == reader[r].got
            replayed == IF Readable(config, scenario.tapes[build]) THEN Run(build) ELSE None
            verdict == IF a.record.status # "completed"
                       THEN [verify(a, None) EXCEPT !.status = "partial"] ELSE verify(a, replayed)
<1>1. reader[r].point = "loaded" /\ UNCHANGED <<scenario, build, run, thread, faults>>
  BY DEF AnswerVerify, Answers
<1>2. PICK x : /\ reader' = [reader EXCEPT ![r] = x]
               /\ x = [reader[r] EXCEPT !.point = "store", !.got = Idle.got,
                                        !.answer = With(verdict, "build", build)]
  BY DEF AnswerVerify, ReplayTypeOK
<1>3. x.point = "store" /\ x.answer = With(verdict, "build", build)
  BY <1>2 DEF ReplayTypeOK, Idle
<1>4. Sound(x.answer)
  <2>1. CASE a.record.status # "completed"
    <3>1. verdict = [verify(a, None) EXCEPT !.status = "partial"]
      BY <2>1
    <3>2. verdict.status = "partial"
      BY <3>1 DEF verify
    <3>. HIDE DEF verdict
    <3>3. With(verdict, "build", build).status = "partial"
          \/ "status" \notin DOMAIN With(verdict, "build", build)
      BY <3>2 DEF With
    <3>. QED  BY <1>3, <3>3 DEF Sound
  <2>2. CASE a.record.status = "completed"
    <3>1. Reading(reader[r]) /\ DOMAIN a = Range(LoadOrder)
      BY <1>1, Queried DEF ReaderInv, ReaderOK, Reading
    <3>2. PICK b \in 1..build : \A k \in Kinds \cap DOMAIN a : a[k] = Run(b)[k]
      BY <2>2, <3>1, Queried DEF ReaderInv, ReaderOK
    <3>3. \A k \in Kinds : a[k] = Run(b)[k]
      BY <3>1, <3>2, Queried DEF Kinds
    <3>4. verdict = verify(Run(b), replayed)
      <4>. HIDE DEF replayed
      <4>. QED  BY <2>2, <3>3, VerifyArtifacts
    <3>5. replayed \in {None, Run(build)}
      OBVIOUS
    <3>. HIDE DEF replayed, verdict
    <3>6. PICK v : v = x.answer
      OBVIOUS
    <3>7. v = With(verify(Run(b), replayed), "build", build)
      BY <1>3, <3>4, <3>6
    <3>8. Sound(v)
      BY <3>5, <3>7, VerdictSound
    <3>. QED  BY <3>6, <3>8
  <2>. QED  BY <2>1, <2>2
<1>5. ReaderOK(x)
  BY <1>3, <1>4, Queried DEF ReaderOK, Reading
<1>. QED  BY <1>1, <1>2, <1>5, ReaderStep, RunStays

LEMMA StoreStep ==
    ASSUME VerdictInv, ReplayTypeOK', NEW r \in Readers, StoreVerification(r)
    PROVE  VerdictInv'
<1>. USE DEF VerdictInv
<1>1. Sound(reader[r].answer) /\ Sound(run.verification)
  BY DEF StoreVerification, ReaderInv, ReaderOK, VerdictHolds
<1>2. UNCHANGED <<scenario, build, thread>> /\ reader' = [reader EXCEPT ![r] = Gone]
  BY DEF StoreVerification
<1>3. /\ \A k \in Kinds \cup {"status"} : run'[k] = run[k]
      /\ run'.verification \in {reader[r].answer, run.verification}
  BY DEF StoreVerification, ReplayTypeOK, Kinds
<1>4. VerdictHolds'
  <2>1. PICK v : v = run'.verification
    OBVIOUS
  <2>2. Sound(v)
    BY <1>1, <1>3, <2>1
  <2>3. build' >= build
    BY <1>2, ScenariosAssumption, ListShape DEF ReplayTypeOK, IsList
  <2>4. Sound(v)'
    BY <1>2, <2>2, <2>3, SoundStays
  <2>. QED  BY <2>1, <2>4 DEF VerdictHolds, Sound
<1>5. ReaderOK(Gone)
  <2>1. Gone.point = "over"
    BY DEF Gone, Idle
  <2>. QED  BY <2>1, Unloaded
<1>. QED  BY <1>2, <1>3, <1>4, <1>5, ReaderStep

\* The other steps of the readers write nothing and keep nothing of what was loaded.
LEMMA AnswerStep ==
    ASSUME VerdictInv, ReplayTypeOK', NEW r \in Readers,
           \/ \E purpose \in scenario.requests : Request(r, purpose)
           \/ AnswerRange(r) \/ AnswerTimeline(r) \/ AnswerSession(r) \/ AnswerFrame(r) \/ AnswerSummary(r)
    PROVE  VerdictInv'
<1>. USE DEF VerdictInv
<1>1. UNCHANGED <<scenario, build, run, thread>>
  BY DEF Request, AnswerRange, AnswerTimeline, AnswerSession, AnswerFrame, AnswerSummary, Deliver
<1>2. ASSUME reader' = [reader EXCEPT ![r] = reader'[r]],
             \/ reader'[r].point = Head(LoadOrder) /\ reader'[r].got = Idle.got
             \/ reader'[r].point \in {"idle", "done", "over"}
      PROVE  VerdictInv'
  <2>1. PICK x : x = reader'[r]
    OBVIOUS
  <2>2. ReaderOK(x)
    BY <1>2, <2>1, Unloaded
  <2>. QED  BY <1>1, <1>2, <2>1, <2>2, ReaderStep, RunStays
<1>3. ASSUME NEW items, NEW more, NEW cursor, Deliver(r, items, more, cursor)
      PROVE  VerdictInv'
  <2>1. reader' = [reader EXCEPT ![r] = reader'[r]]
    BY <1>3 DEF Deliver, ReplayTypeOK
  <2>2. CASE more
    <3>1. reader'[r].point = Head(LoadOrder) /\ reader'[r].got = Idle.got
      BY <1>3, <2>2 DEF Deliver, ReplayTypeOK, Idle
    <3>. QED  BY <1>2, <2>1, <3>1
  <2>3. CASE ~more
    <3>1. reader'[r].point = "done"
      BY <1>3, <2>3 DEF Deliver, ReplayTypeOK, Idle
    <3>. QED  BY <1>2, <2>1, <3>1
  <2>. QED  BY <2>2, <2>3
<1>4. CASE \E purpose \in scenario.requests : Request(r, purpose)
  <2>1. reader' = [reader EXCEPT ![r] = reader'[r]]
    BY <1>4 DEF Request, ReplayTypeOK
  <2>2. reader'[r].point = Head(LoadOrder) /\ reader'[r].got = Idle.got
    <3>1. PICK purpose \in scenario.requests : Request(r, purpose)
      BY <1>4
    <3>2. PICK began : reader'[r] = [Idle EXCEPT !.point = Head(LoadOrder), !.purpose = purpose, !.began = began]
      BY <3>1 DEF Request, ReplayTypeOK
    <3>3. {"point", "got"} \subseteq DOMAIN Idle
      BY DEF Idle
    <3>. QED  BY <3>2, <3>3
  <2>. QED  BY <1>2, <2>1, <2>2
<1>5. CASE AnswerRange(r) \/ AnswerTimeline(r)
  BY <1>3, <1>5 DEF AnswerRange, AnswerTimeline
<1>6. CASE AnswerFrame(r)
  BY <1>3, <1>6 DEF AnswerFrame
<1>7. CASE AnswerSession(r)
  <2>. DEFINE session == get_replay_session(reader[r].got)
              first == Snapshots({session.frame}, reader[r].got.snapshots)
              cursor == IF reader[r].purpose = "play" THEN next_frame(session.steps, session.cursor)
                        ELSE seek(session.steps, Max(session.steps))
  <2>1. \/ Deliver(r, first, FALSE, cursor)
        \/ reader' = [reader EXCEPT ![r] =
               [@ EXCEPT !.point = Head(LoadOrder), !.got = Idle.got, !.steps = session.steps,
                         !.cursor = cursor, !.seen = first]]
    BY <1>7 DEF AnswerSession
  <2>. HIDE DEF session, first, cursor
  <2>2. CASE Deliver(r, first, FALSE, cursor)
    BY <1>3, <2>2
  <2>3. CASE reader' = [reader EXCEPT ![r] =
               [@ EXCEPT !.point = Head(LoadOrder), !.got = Idle.got, !.steps = session.steps,
                         !.cursor = cursor, !.seen = first]]
    <3>1. reader' = [reader EXCEPT ![r] = reader'[r]]
      BY <2>3 DEF ReplayTypeOK
    <3>2. reader'[r].point = Head(LoadOrder) /\ reader'[r].got = Idle.got
      BY <2>3 DEF ReplayTypeOK, Idle
    <3>. QED  BY <1>2, <3>1, <3>2
  <2>. QED  BY <2>1, <2>2, <2>3
<1>8. CASE AnswerSummary(r)
  <2>1. reader' = [reader EXCEPT ![r] = reader'[r]]
    BY <1>8 DEF AnswerSummary, ReplayTypeOK
  <2>2. reader'[r].point = "done"
    BY <1>8 DEF AnswerSummary, ReplayTypeOK, Idle
  <2>. QED  BY <1>2, <2>1, <2>2
<1>. QED  BY <1>4, <1>5, <1>6, <1>7, <1>8

-----------------------------------------------------------------------------
(* Deployments, and the theorem.                                           *)

\* A deployment stops everyone who reads or writes.
LEMMA DeployStep ==
    ASSUME VerdictInv, ReplayTypeOK', Deploy
    PROVE  VerdictInv'
<1>. USE DEF VerdictInv
<1>1. scenario' = scenario /\ run' = run /\ build \in Nat /\ build' = build + 1
  BY ScenariosAssumption, ListShape DEF Deploy, ReplayTypeOK, IsList
<1>2. \A b : Run(b)' = Run(b)
  BY <1>1 DEF Run, config
<1>3. Unattended' /\ \A t \in DOMAIN thread' : thread'[t].point # "stored"
  BY DEF Deploy, Unattended, Waiting, Over, Working
<1>4. ResultInv'
  <2>1. ASSUME Stored, run.status = "completed" PROVE \E b \in 1..(build') : Holds(b)'
    <3>1. PICK b \in 1..build : Holds(b)
      <4>1. build \in 1..build
        BY <1>1, ScenariosAssumption, ListShape DEF ReplayTypeOK, IsList
      <4>. QED  BY <2>1, <4>1 DEF ResultInv
    <3>2. b \in 1..(build') /\ Holds(b)'
      BY <1>1, <1>2, <3>1 DEF Holds
    <3>. QED  BY <3>2
  <2>. QED  BY <1>1, <1>3, <2>1 DEF ResultInv, Stored
<1>5. ReaderInv'
  <2>. SUFFICES ASSUME NEW r \in Readers PROVE ReaderOK(reader[r])'
    BY DEF ReaderInv
  <2>1. reader'[r].point \in {"idle", "over"}
    BY DEF Deploy, Gone, Idle
  <2>. QED  BY <2>1, Queried DEF ReaderOK, Reading
<1>6. VerdictHolds'
  <2>1. PICK v : v = run.verification
    OBVIOUS
  <2>2. Sound(v)'
    BY <1>1, <2>1, SoundStays DEF VerdictHolds
  <2>. QED  BY <1>1, <2>1, <2>2 DEF VerdictHolds, Sound
<1>. QED  BY <1>4, <1>5, <1>6

LEMMA VerdictInit == Init => VerdictInv
<1>. SUFFICES ASSUME Init PROVE VerdictInv
  OBVIOUS
<1>1. ReplayTypeOK
  BY ReplayTypeInit
<1>2. ResultInv
  BY DEF Init, ResultInv, NewRun, Waiting
<1>3. ReaderInv
  <2>1. Idle.point = "idle"
    BY DEF Idle
  <2>. QED  BY <2>1, Unloaded DEF Init, ReaderInv
<1>4. VerdictHolds
  <2>1. DOMAIN run.verification = {}
    BY DEF Init, NewRun
  <2>. QED  BY <2>1 DEF VerdictHolds, Sound
<1>. QED  BY <1>1, <1>2, <1>3, <1>4 DEF VerdictInv

LEMMA VerdictUnchanged ==
    ASSUME VerdictInv, UNCHANGED vars
    PROVE  VerdictInv'
<1>1. ReplayTypeOK'
  BY ReplayTypeNext DEF VerdictInv
<1>. QED  BY <1>1, WriterKeeps DEF vars, Stored, Keeps, Unattended

LEMMA VerdictNext ==
    ASSUME VerdictInv, [Next]_vars
    PROVE  VerdictInv'
<1>1. ReplayTypeOK'
  BY ReplayTypeNext DEF VerdictInv
<1>2. CASE UNCHANGED vars \/ Ended
  BY <1>2, VerdictUnchanged DEF Ended
<1>3. CASE \/ \E t \in DOMAIN thread :
                 Open(t) \/ Start(t) \/ Publish(t) \/ Fail(t) \/ StoreResult(t) \/ Complete(t) \/ Crash(t)
           \/ CancelRead \/ CancelWrite \/ DeleteRun
  BY <1>1, <1>3, WriterNext
<1>4. CASE Deploy
  BY <1>1, <1>4, DeployStep
<1>5. ASSUME NEW r \in Readers,
             \/ \E purpose \in scenario.requests : Request(r, purpose)
             \/ Query(r) \/ AnswerRange(r) \/ AnswerTimeline(r) \/ AnswerSession(r) \/ AnswerFrame(r)
             \/ AnswerSummary(r) \/ AnswerVerify(r) \/ StoreVerification(r)
      PROVE  VerdictInv'
  BY <1>1, <1>5, QueryStep, VerifyStep, StoreStep, AnswerStep
<1>. QED  BY <1>2, <1>3, <1>4, <1>5, Zenon DEF Next

\* The inductive invariant: a run that is completed has the whole result of one build, which
\* nobody replaces by another build's, and a reader that found it completed has read from it.
THEOREM VerdictInvariant == Spec => []VerdictInv
<1>. QED  BY VerdictInit, VerdictNext, PTL DEF Spec

\* A stored verdict of verify_run is the verdict of diff_runs on a whole result of one build
\* and the result of the verifier's build, however many attempts, readers, cancel and delete
\* requests, crashes and deployments interleave with the queries of load_run.
THEOREM VerdictAlwaysHolds == Spec => []VerdictHolds
<1>1. VerdictInv => VerdictHolds
  BY DEF VerdictInv
<1>. QED  BY <1>1, VerdictInvariant, PTL

-----------------------------------------------------------------------------
(* The two stores.                                                         *)

LEMMA MaxOfTwo == \A a \in Int, b \in Int : Max({a, b}) = IF a >= b THEN a ELSE b
<1>. SUFFICES ASSUME NEW a \in Int, NEW b \in Int PROVE Max({a, b}) = IF a >= b THEN a ELSE b
  OBVIOUS
<1>. DEFINE top == CHOOSE x \in {a, b} : \A y \in {a, b} : x >= y
<1>1. \E x \in {a, b} : \A y \in {a, b} : x >= y
  OBVIOUS
<1>2. top \in {a, b} /\ top >= a /\ top >= b
  BY <1>1
<1>3. Max({a, b}) = top
  BY DEF Max
<1>. HIDE DEF top
<1>. QED  BY <1>2, <1>3

LEMMA MinOfTwo == \A a \in Int, b \in Int : Min({a, b}) = IF a <= b THEN a ELSE b
<1>. SUFFICES ASSUME NEW a \in Int, NEW b \in Int PROVE Min({a, b}) = IF a <= b THEN a ELSE b
  OBVIOUS
<1>. DEFINE low == CHOOSE x \in {a, b} : \A y \in {a, b} : x <= y
<1>1. \E x \in {a, b} : \A y \in {a, b} : x <= y
  OBVIOUS
<1>2. low \in {a, b} /\ low <= a /\ low <= b
  BY <1>1
<1>3. Min({a, b}) = low
  BY DEF Min
<1>. HIDE DEF low
<1>. QED  BY <1>2, <1>3

\* The places of a page, the last of them and how many they are.
PagePlaces(n, skipped, l) == {i \in 1..n : i > skipped /\ i <= l}
Lesser(n, l) == IF n <= l THEN n ELSE l
Extent(skipped, stop) == IF skipped + 1 <= stop THEN stop - (skipped + 1) + 1 ELSE 0

LEMMA WindowSize ==
    ASSUME NEW n \in Nat, NEW skipped \in Nat, NEW l \in Int
    PROVE  Cardinality(PagePlaces(n, skipped, l)) = Extent(skipped, Lesser(n, l))
<1>. DEFINE stop == Lesser(n, l)
            a == skipped + 1
            count == IF a > stop THEN 0 ELSE stop - a + 1
<1>1. stop \in Int /\ a \in Int /\ stop <= n
  BY DEF Lesser
<1>2. PagePlaces(n, skipped, l) = a..stop
  BY DEF PagePlaces, Lesser
<1>3. Extent(skipped, stop) = count
  BY <1>1 DEF Extent
<1>4. Cardinality(a..stop) = count
  <2>. HIDE DEF stop, a
  <2>. QED  BY <1>1, FS_Interval
<1>. HIDE DEF stop, a, count
<1>5. Cardinality(PagePlaces(n, skipped, l)) = Extent(skipped, stop)
  BY <1>2, <1>3, <1>4
<1>. QED  BY <1>5 DEF stop

AfterSkipped(n, skipped, limit) == {i \in 1..n : i > skipped /\ (limit # None => i <= skipped + Max({0, limit}))}
Skipped(limit, offset) == IF limit # None \/ offset > 0 THEN Max({0, offset}) ELSE 0
Cut(s, skipped, stop) == SubSeq(s, skipped + 1, stop)
Part(s, skipped, size) == [i \in 1..size |-> s[skipped + i]]

\* What a part of a list is made of.
LEMMA PartOfList ==
    ASSUME NEW n \in Nat, NEW s, s \in Seq(Range(s)), Len(s) = n, NEW skipped \in Nat, NEW stop \in Int,
           stop <= n
    PROVE  Cut(s, skipped, stop) = Part(s, skipped, Extent(skipped, stop))
<1>. DEFINE size == Extent(skipped, stop)
<1>1. PICK a \in Nat : a = skipped + 1
  OBVIOUS
<1>2. ASSUME NEW i \in a..stop PROVE s[i] \in Range(s)
  <2>1. DOMAIN s = 1..n
    BY ListShape
  <2>2. i \in 1..n
    BY <1>1
  <2>. QED  BY <2>1, <2>2 DEF Range
<1>. DEFINE t == SubSeq(s, a, stop)
<1>3. /\ t \in Seq(Range(s))
      /\ Len(t) = IF a <= stop THEN stop - a + 1 ELSE 0
      /\ \A i \in 1..(stop - a + 1) : t[i] = s[a + i - 1]
  BY <1>2, SubSeqProperties
<1>. HIDE DEF t, size
<1>4. size = IF a <= stop THEN stop - a + 1 ELSE 0
  BY <1>1 DEF Extent, size
<1>5. t = [i \in 1..size |-> t[i]]
  BY <1>3, <1>4, LenProperties
<1>6. ASSUME NEW i \in 1..size PROVE t[i] = s[skipped + i]
  <2>1. i \in 1..(stop - a + 1) /\ a + i - 1 = skipped + i
    BY <1>1, <1>4
  <2>. QED  BY <1>3, <2>1
<1>7. t = [i \in 1..size |-> s[skipped + i]]
  BY <1>5, <1>6
<1>. QED  BY <1>1, <1>7 DEF t, size, Cut, Part

\* A page of a list, cut out of it or picked by the numbers of its places.
LEMMA PageOfList ==
    ASSUME NEW n \in Nat, NEW s, s \in Seq(Range(s)), Len(s) = n, NEW skipped \in Nat, NEW l \in Int
    PROVE  Cut(s, skipped, Lesser(n, l)) = Part(s, skipped, Cardinality(PagePlaces(n, skipped, l)))
<1>1. Lesser(n, l) \in Int /\ Lesser(n, l) <= n
  BY DEF Lesser
<1>. QED  BY <1>1, WindowSize, PartOfList

\* Python's slices and SQL's LIMIT and OFFSET give the same page, of any limit and offset.
LEMMA SamePage ==
    ASSUME NEW n \in Nat, NEW s, s \in Seq(Range(s)), Len(s) = n,
           NEW limit \in Int \cup {None}, NEW offset \in Int
    PROVE  LET skipped == Skipped(limit, offset)
               page == AfterSkipped(n, skipped, limit)
           IN  /\ _page(s, limit, offset) = Part(s, skipped, Cardinality(page))
               /\ \A i \in 1..Cardinality(page) : skipped + i \in 1..n
<1>. PICK skipped, page : skipped = Skipped(limit, offset) /\ page = AfterSkipped(n, skipped, limit)
  OBVIOUS
<1>1. Max({0, offset}) = (IF offset > 0 THEN offset ELSE 0) /\ skipped = Max({0, offset}) /\ skipped \in Nat
  <2>1. Max({0, offset}) = IF 0 >= offset THEN 0 ELSE offset
    BY MaxOfTwo
  <2>. QED  BY <2>1 DEF Skipped
<1>2. PICK k \in Int : limit # None => k = skipped + Max({0, limit})
  <2>1. ASSUME limit # None PROVE skipped + Max({0, limit}) \in Int
    <3>1. limit \in Int
      BY <2>1
    <3>2. Max({0, limit}) \in Int
      BY <3>1, MaxOfTwo
    <3>3. PICK w \in Int : w = Max({0, limit})
      BY <3>2
    <3>4. skipped + w \in Int
      BY <1>1
    <3>. QED  BY <3>3, <3>4
  <2>2. CASE limit = None
    <3>1. 0 \in Int
      OBVIOUS
    <3>. QED  BY <2>2, <3>1
  <2>3. CASE limit # None
    BY <2>1, <2>3
  <2>. QED  BY <2>2, <2>3
<1>3. PICK stop \in Int : stop = IF limit = None THEN n ELSE IF n <= k THEN n ELSE k
  OBVIOUS
<1>4. stop = IF limit = None THEN n ELSE Min({n, skipped + Max({0, limit})})
  <2>1. Min({n, k}) = IF n <= k THEN n ELSE k
    BY MinOfTwo
  <2>. QED  BY <1>2, <1>3, <2>1
<1>5. _page(s, limit, offset) = Cut(s, skipped, stop)
  BY <1>1, <1>4 DEF _page, Cut
<1>6. PICK l \in Int : l = IF limit = None THEN n ELSE k
  OBVIOUS
<1>7. page = PagePlaces(n, skipped, l)
  <2>1. page = {i \in 1..n : i > skipped /\ (limit # None => i <= k)}
    BY <1>2 DEF AfterSkipped
  <2>2. CASE limit = None
    <3>1. l = n
      BY <1>6, <2>2
    <3>2. page = {i \in 1..n : i > skipped}
      BY <2>1, <2>2
    <3>3. \A i \in 1..n : i <= l
      BY <3>1
    <3>. QED  BY <3>2, <3>3 DEF PagePlaces
  <2>3. CASE limit # None
    <3>1. l = k
      BY <1>6, <2>3
    <3>2. page = {i \in 1..n : i > skipped /\ i <= k}
      BY <2>1, <2>3
    <3>. QED  BY <3>1, <3>2 DEF PagePlaces
  <2>. QED  BY <2>2, <2>3
<1>8. stop = Lesser(n, l)
  <2>1. CASE limit = None
    BY <1>3, <1>6, <2>1 DEF Lesser
  <2>2. CASE limit # None
    BY <1>3, <1>6, <2>2 DEF Lesser
  <2>. QED  BY <2>1, <2>2
<1>9. Cut(s, skipped, Lesser(n, l)) = Part(s, skipped, Cardinality(PagePlaces(n, skipped, l)))
  BY <1>1, PageOfList
<1>10. PICK hidden \in Nat : hidden = skipped
  BY <1>1
<1>11. ASSUME NEW i \in 1..Cardinality(page) PROVE hidden + i \in 1..n
  <2>1. Cardinality(PagePlaces(n, hidden, l)) = Extent(hidden, Lesser(n, l))
    BY <1>10, WindowSize
  <2>2. Cardinality(page) = Extent(hidden, Lesser(n, l))
    BY <1>7, <1>10, <2>1
  <2>. QED  BY <2>2 DEF Extent, Lesser
<1>. QED  BY <1>5, <1>7, <1>8, <1>9, <1>10, <1>11

\* Rows that hold the payloads in the order of their numbers.
Rows(rows, items, order_by) ==
    /\ \A i \in DOMAIN items : rows[i].sequence = i /\ rows[i].payload = items[i] /\ rows[i][order_by] \in Int
    /\ \A i \in DOMAIN items, j \in DOMAIN items : i <= j => rows[i][order_by] <= rows[j][order_by]

\* What SQL gives of rows that come in the order of their numbers is a page of the list of
\* their payloads.
LEMMA Fetched ==
    ASSUME NEW n \in Nat, NEW items, DOMAIN items = 1..n, NEW rows, NEW order_by, Rows(rows, items, order_by),
           NEW P \in SUBSET (1..n), NEW limit \in Int \cup {None}, NEW offset \in Int
    PROVE  _fetch_payloads(Image(rows, P), order_by, limit, offset) = _page(Chosen(items, P), limit, offset)
<1>0. /\ \A i \in 1..n : rows[i].sequence = i /\ rows[i].payload = items[i] /\ rows[i][order_by] \in Int
      /\ \A i \in 1..n, j \in 1..n : i <= j => rows[i][order_by] <= rows[j][order_by]
  BY DEF Rows
<1>. DEFINE Precedes(r, s) ==
                r[order_by] < s[order_by] \/ (r[order_by] = s[order_by] /\ r.sequence < s.sequence)
            S == {rows[i] : i \in P}
            before(e) == {d \in S : Precedes(d, e)}
            m == Cardinality(P)
            order == Ascending(P)
            C == Chosen(items, P)
            skipped == IF limit # None \/ offset > 0 THEN Max({0, offset}) ELSE 0
<1>1. ASSUME NEW i \in 1..n, NEW j \in 1..n PROVE Precedes(rows[i], rows[j]) <=> i < j
  <2>1. rows[i].sequence = i /\ rows[j].sequence = j
    BY <1>0
  <2>2. PICK v \in Int, w \in Int : v = rows[i][order_by] /\ w = rows[j][order_by]
    BY <1>0
  <2>3. (i <= j => v <= w) /\ (j <= i => w <= v)
    BY <1>0, <2>2
  <2>. QED  BY <2>1, <2>2, <2>3
<1>2. ASSUME NEW i \in P, NEW j \in P, rows[i] = rows[j] PROVE i = j
  <2>1. rows[i].sequence = i /\ rows[j].sequence = j
    BY <1>0
  <2>. QED  BY <1>2, <2>1
<1>3. IsFiniteSet(P) /\ Numbers(P) /\ m \in Nat /\ order \in [1..m -> P]
  <2>1. IsFiniteSet(1..n) /\ 1..n \subseteq Int
    BY FS_Interval
  <2>2. IsFiniteSet(P) /\ Numbers(P)
    BY <2>1, FS_Subset DEF Numbers
  <2>. HIDE DEF m, order
  <2>3. m \in Nat /\ order \in [1..m -> P]
    BY <2>2, AscendingNumbers DEF m, order
  <2>. QED  BY <2>2, <2>3
<1>4. ASSUME NEW p \in P PROVE Cardinality(before(rows[p])) = Rank(P, p)
  <2>. DEFINE Q == {q \in P : q < p}
  <2>1. before(rows[p]) = Image(rows, Q)
    <3>. HIDE DEF Precedes
    <3>. QED  BY <1>1 DEF Image
  <2>2. IsFiniteSet(Q) /\ Apart(rows, Q)
    BY <1>2, <1>3, FS_Subset DEF Apart
  <2>. HIDE DEF Q, before
  <2>3. Cardinality(Image(rows, Q)) = Cardinality(Q)
    BY <2>2, ImageSize
  <2>. QED  BY <2>1, <2>3 DEF Q, Rank
<1>. HIDE DEF Precedes
<1>5. Ordered(S, Precedes) = Chosen(rows, P)
  <2>. DEFINE rank == [e \in S |-> Cardinality(before(e))]
  <2>1. Ordered(S, Precedes) = Places(S, rank)
    <3>. HIDE DEF S
    <3>1. {<<Cardinality(before(e)), e>> : e \in S} = {<<rank[e], e>> : e \in S}
      OBVIOUS
    <3>. QED  BY <3>1 DEF Ordered, Places
  <2>2. \A p \in P : rank[rows[p]] = Rank(P, p)
    BY <1>4
  <2>. HIDE DEF rank
  <2>3. Apart(rows, P) /\ S = Image(rows, P)
    BY <1>2 DEF Apart, Image
  <2>. HIDE DEF S
  <2>4. Places(S, rank) = Chosen(rows, P)
    BY <1>3, <2>2, <2>3, PlacesOfImage
  <2>. QED  BY <2>1, <2>4
<1>6. C = [i \in 1..m |-> items[order[i]]] /\ C \in Seq(Range(C)) /\ Len(C) = m
  BY ChosenList
<1>. DEFINE found == Ordered(S, Precedes)
            page == {i \in DOMAIN found : i > skipped /\ (limit # None => i <= skipped + Max({0, limit}))}
<1>7. _fetch_payloads(S, order_by, limit, offset) = [i \in 1..Cardinality(page) |-> found[skipped + i].payload]
  BY DEF _fetch_payloads, Precedes
<1>8. found = [i \in 1..m |-> rows[order[i]]]
  BY <1>3, <1>5 DEF Chosen
<1>9. \A i \in 1..m : found[i].payload = C[i]
  <2>. HIDE DEF m, order, C, S, found
  <2>. QED  BY <1>0, <1>3, <1>6, <1>8
<1>10. page = AfterSkipped(m, skipped, limit)
  BY <1>8 DEF AfterSkipped
<1>11. skipped = Skipped(limit, offset)
  BY DEF Skipped
<1>. HIDE DEF m, order, C, S, found, skipped, page
<1>12. /\ _page(C, limit, offset) = Part(C, skipped, Cardinality(page))
       /\ \A i \in 1..Cardinality(page) : skipped + i \in 1..m
  BY <1>3, <1>6, <1>10, <1>11, SamePage
<1>14. \A i \in 1..Cardinality(page) : found[skipped + i].payload = C[skipped + i]
  BY <1>9, <1>12
<1>. QED  BY <1>7, <1>12, <1>14 DEF S, C, Part, Image

\* The artifacts that a run can have stored.
EventShape(e) == DOMAIN e = {"type", "data"}
SnapshotShape(s) ==
    s.step \in Nat /\ (DOMAIN s = {"step", "symbol", "snapshot"}
                       \/ (DOMAIN s = {"step", "symbols"} /\ IsFiniteSet(DOMAIN s.symbols)))
AccountShape(a) ==
    /\ {"symbol", "symbols", "account_id", "step", "data"} \cap DOMAIN a = {}
    /\ IsFiniteSet(Keys(a, "positions")) /\ IsFiniteSet(Keys(a, "mark_to_market"))
Shaped(kind, items) ==
    /\ items \in Seq(Range(items))
    /\ kind = "events" => \A i \in DOMAIN items : EventShape(items[i])
    /\ kind = "accounts" => \A i \in DOMAIN items : AccountShape(items[i])
    /\ kind = "snapshots" =>
           /\ \A i \in DOMAIN items : SnapshotShape(items[i])
           /\ \A i \in DOMAIN items, j \in DOMAIN items : i <= j => items[i].step <= items[j].step

LEMMA SmallSet ==
    ASSUME NEW S, IsFiniteSet(S), Cardinality(S) <= 1
    PROVE  S = {} \/ \E x : S = {x}
<1>1. Cardinality(S) \in Nat
  BY FS_CardinalityType
<1>2. CASE Cardinality(S) = 0
  BY <1>2, FS_EmptySet
<1>3. CASE Cardinality(S) = 1
  BY <1>3, FS_Singleton
<1>4. Cardinality(S) = 0 \/ Cardinality(S) = 1
  BY <1>1
<1>. QED  BY <1>2, <1>3, <1>4, Zenon

LEMMA OneOrNone ==
    /\ Cardinality({}) # 1
    /\ \A x : Cardinality({x}) = 1 /\ Only({x}) = x
<1>1. Cardinality({}) # 1
  <2>1. Cardinality({}) = 0
    BY FS_EmptySet
  <2>. QED  BY <2>1
<1>2. ASSUME NEW x PROVE Cardinality({x}) = 1
  BY FS_Singleton
<1>3. ASSUME NEW x PROVE Only({x}) = x
  <2>1. \E y \in {x} : {x} = {y}
    OBVIOUS
  <2>. QED  BY <2>1 DEF Only
<1>. QED  BY <1>1, <1>2, <1>3, Zenon

\* The keys that make an artifact describable.
NamesOnly(item, x) ==
    /\ Keys(item, "symbols") \in {{}, {x}}
    /\ Keys(item, "positions") \in {{}, {x}} /\ Keys(item, "mark_to_market") \in {{}, {x}}

LEMMA DescribedKeys ==
    ASSUME NEW item, Describable(item), IsFiniteSet(Keys(item, "symbols")),
           IsFiniteSet(Keys(item, "positions")), IsFiniteSet(Keys(item, "mark_to_market"))
    PROVE  \E x : NamesOnly(item, x)
<1>. DEFINE S == Keys(item, "symbols")
            P == Keys(item, "positions")
            M == Keys(item, "mark_to_market")
            U == S \cup P \cup M
<1>1. U = UNION {Keys(item, key) : key \in {"symbols", "positions", "mark_to_market"}}
  OBVIOUS
<1>2. Cardinality(U) <= 1
  BY <1>1 DEF Describable
<1>3. IsFiniteSet(U)
  BY FS_Union
<1>4. U = {} \/ \E x : U = {x}
  <2>. HIDE DEF U
  <2>. QED  BY <1>2, <1>3, SmallSet
<1>. HIDE DEF S, P, M
<1>5. CASE U = {}
  BY <1>5 DEF S, P, M, NamesOnly
<1>6. CASE \E x : U = {x}
  <2>1. PICK x : U = {x}
    BY <1>6
  <2>2. S \in {{}, {x}} /\ P \in {{}, {x}} /\ M \in {{}, {x}}
    BY <2>1
  <2>3. NamesOnly(item, x)
    BY <2>2 DEF S, P, M, NamesOnly
  <2>. QED  BY <2>3
<1>. QED  BY <1>4, <1>5, <1>6

\* The selected rows are those of some places.
Selects(selected, P, rows, items, order_by) ==
    /\ items \in Seq(Range(items)) /\ Rows(rows, items, order_by)
    /\ P \in SUBSET (DOMAIN items) /\ selected = Image(rows, P)

\* What both stores select, by its place.
LEMMA SameSelection ==
    ASSUME NEW items, NEW rows, NEW selected, NEW P, NEW q \in Queries, NEW order_by,
           Selects(selected, P, rows, items, order_by)
    PROVE  _fetch_payloads(selected, order_by, q.limit, q.offset) = _page(Chosen(items, P), q.limit, q.offset)
<1>1. PICK n \in Nat : DOMAIN items = 1..n
  BY ListShape DEF Selects
<1>2. PICK limit \in Int \cup {None} : limit = q.limit
  BY QueriesAssumption
<1>3. PICK offset \in Int : offset = q.offset
  BY QueriesAssumption
<1>4. P \in SUBSET (1..n) /\ Rows(rows, items, order_by) /\ selected = Image(rows, P)
  BY <1>1 DEF Selects
<1>5. _fetch_payloads(Image(rows, P), order_by, limit, offset) = _page(Chosen(items, P), limit, offset)
  BY <1>1, <1>4, Fetched
<1>. QED  BY <1>2, <1>3, <1>4, <1>5

LEMMA SameEvents ==
    ASSUME NEW items, Shaped("events", items), NEW q \in Queries
    PROVE  MemoryGet("events", items, q) = SQLiteGet("events", items, q)
<1>. DEFINE rows == _event_rows(items)
            P == {i \in DOMAIN items : _matches_event(items[i], q)}
            OfEvent(r) == (q.symbol = None \/ r.symbol = q.symbol) /\ (q.type = None \/ r.type = q.type)
            selected == {r \in Range(rows) : OfEvent(r)}
<1>1. MemoryGet("events", items, q) = _page(Chosen(items, P), q.limit, q.offset)
  BY DEF MemoryGet, Where
<1>2. SQLiteGet("events", items, q) = _fetch_payloads(selected, "sequence", q.limit, q.offset)
  BY DEF SQLiteGet
<1>3. DOMAIN rows = DOMAIN items /\ items \in Seq(Range(items))
  BY DEF _event_rows, Shaped
<1>4. ASSUME NEW i \in DOMAIN items
      PROVE  /\ rows[i].sequence = i /\ rows[i].payload = items[i]
             /\ OfEvent(rows[i]) <=> _matches_event(items[i], q)
  <2>1. "symbol" \notin DOMAIN items[i]
    BY DEF Shaped, EventShape
  <2>. QED  BY <2>1 DEF _event_rows, _matches_event, Get
<1>5. \A i \in DOMAIN items : i \in Int
  BY <1>3, ListShape
<1>6. selected = Image(rows, P)
  <2>. HIDE DEF rows, OfEvent
  <2>. QED  BY <1>3, <1>4 DEF Range, Image
<1>7. P \subseteq DOMAIN items
  OBVIOUS
<1>. HIDE DEF rows, P, selected, OfEvent
<1>8. Selects(selected, P, rows, items, "sequence")
  BY <1>3, <1>4, <1>5, <1>6, <1>7 DEF Selects, Rows
<1>. QED  BY <1>1, <1>2, <1>8, SameSelection

LEMMA SameSnapshots ==
    ASSUME NEW items, Shaped("snapshots", items), NEW q \in Queries,
           \A i \in DOMAIN items : Describable(items[i])
    PROVE  MemoryGet("snapshots", items, q) = SQLiteGet("snapshots", items, q)
<1>. DEFINE rows == _snapshot_rows(items)
            P == {i \in DOMAIN items : _matches_symbol(items[i], q.symbol)}
            OfSymbol(r) == q.symbol = None \/ r.symbol = q.symbol
            selected == {r \in Range(rows) : OfSymbol(r)}
<1>1. MemoryGet("snapshots", items, q) = _page(Chosen(items, P), q.limit, q.offset)
  BY DEF MemoryGet, Where
<1>2. SQLiteGet("snapshots", items, q) = _fetch_payloads(selected, "step", q.limit, q.offset)
  BY DEF SQLiteGet
<1>3. DOMAIN rows = DOMAIN items /\ items \in Seq(Range(items))
  BY DEF _snapshot_rows, Shaped
<1>4. ASSUME NEW i \in DOMAIN items
      PROVE  rows[i].sequence = i /\ rows[i].payload = items[i] /\ rows[i].step = items[i].step
  BY DEF _snapshot_rows
<1>5. ASSUME NEW i \in DOMAIN items
      PROVE  OfSymbol(rows[i]) <=> _matches_symbol(items[i], q.symbol)
  <2>1. SnapshotShape(items[i])
    BY DEF Shaped
  <2>2. rows[i].symbol = IF Cardinality(Keys(items[i], "symbols")) = 1
                         THEN Only(Keys(items[i], "symbols")) ELSE Get(items[i], "symbol")
    BY DEF _snapshot_rows
  <2>3. CASE DOMAIN items[i] = {"step", "symbol", "snapshot"}
    <3>1. Keys(items[i], "symbols") = {}
      BY <2>3 DEF Keys
    <3>2. rows[i].symbol = Get(items[i], "symbol")
      BY <2>2, <3>1, OneOrNone
    <3>. QED  BY <3>1, <3>2 DEF _matches_symbol
  <2>4. CASE DOMAIN items[i] = {"step", "symbols"}
    <3>1. /\ Get(items[i], "symbol") = None /\ Keys(items[i], "positions") = {}
          /\ Keys(items[i], "mark_to_market") = {}
      BY <2>4 DEF Get, Keys
    <3>2. IsFiniteSet(Keys(items[i], "symbols"))
      BY <2>1, <2>4 DEF Keys, SnapshotShape
    <3>3. PICK x : NamesOnly(items[i], x)
      BY <3>1, <3>2, DescribedKeys, FS_EmptySet
    <3>4. CASE Keys(items[i], "symbols") = {}
      <4>1. rows[i].symbol = None
        BY <2>2, <3>1, <3>4, OneOrNone
      <4>. QED  BY <3>1, <3>4, <4>1 DEF _matches_symbol
    <3>5. CASE Keys(items[i], "symbols") = {x}
      <4>1. Cardinality(Keys(items[i], "symbols")) = 1 /\ Only(Keys(items[i], "symbols")) = x
        BY <3>5, OneOrNone, Zenon
      <4>2. rows[i].symbol = x
        BY <2>2, <4>1
      <4>. QED  BY <3>1, <3>5, <4>2 DEF _matches_symbol
    <3>. QED  BY <3>3, <3>4, <3>5 DEF NamesOnly
  <2>. QED  BY <2>1, <2>3, <2>4 DEF SnapshotShape
<1>6. selected = Image(rows, P)
  <2>. HIDE DEF rows, OfSymbol
  <2>. QED  BY <1>3, <1>5 DEF Range, Image
<1>7. P \subseteq DOMAIN items
  OBVIOUS
<1>8. /\ \A i \in DOMAIN items : items[i].step \in Int
      /\ \A i \in DOMAIN items, j \in DOMAIN items : i <= j => items[i].step <= items[j].step
  BY DEF Shaped, SnapshotShape
<1>. HIDE DEF rows, P, selected, OfSymbol
<1>9. Selects(selected, P, rows, items, "step")
  BY <1>3, <1>4, <1>6, <1>7, <1>8 DEF Selects, Rows
<1>. QED  BY <1>1, <1>2, <1>9, SameSelection

LEMMA SameAccounts ==
    ASSUME NEW items, Shaped("accounts", items), NEW q \in Queries,
           \A i \in DOMAIN items : Describable(items[i]), q.account # "None"
    PROVE  MemoryGet("accounts", items, q) = SQLiteGet("accounts", items, q)
<1>. DEFINE rows == _account_rows(items)
            P == {i \in DOMAIN items : _matches_account(items[i], q)}
            OfAccount(r) == (q.symbol = None \/ r.symbol = q.symbol)
                            /\ (q.account = None \/ r.account_id = q.account)
            selected == {r \in Range(rows) : OfAccount(r)}
<1>1. MemoryGet("accounts", items, q) = _page(Chosen(items, P), q.limit, q.offset)
  BY DEF MemoryGet, Where
<1>2. SQLiteGet("accounts", items, q) = _fetch_payloads(selected, "sequence", q.limit, q.offset)
  BY DEF SQLiteGet
<1>3. DOMAIN rows = DOMAIN items /\ items \in Seq(Range(items))
  BY DEF _account_rows, Shaped
<1>4. ASSUME NEW i \in DOMAIN items
      PROVE  rows[i].sequence = i /\ rows[i].payload = items[i]
  BY DEF _account_rows
<1>5. ASSUME NEW i \in DOMAIN items
      PROVE  OfAccount(rows[i]) <=> _matches_account(items[i], q)
  <2>. DEFINE positions == Keys(items[i], "positions")
              marks == Keys(items[i], "mark_to_market")
  <2>1. AccountShape(items[i])
    BY DEF Shaped
  <2>2. Get(items[i], "symbol") = None /\ Get(items[i], "account_id") = None /\ Keys(items[i], "symbols") = {}
    BY <2>1 DEF AccountShape, Get, Keys
  <2>3. rows[i].account_id = None
    BY <2>2 DEF _account_rows
  <2>4. rows[i].symbol = IF Cardinality(positions) = 1 THEN Only(positions)
                         ELSE IF Cardinality(marks) = 1 THEN Only(marks) ELSE None
    BY <2>2 DEF _account_rows, _account_symbol
  <2>5. PICK x : NamesOnly(items[i], x)
    BY <2>1, <2>2, DescribedKeys, FS_EmptySet DEF AccountShape
  <2>6. positions \in {{}, {x}} /\ marks \in {{}, {x}}
    BY <2>5 DEF NamesOnly
  <2>7. _matches_account(items[i], q) <=>
            (q.account = None \/ "None" = q.account) /\ (q.symbol = None \/ q.symbol \in positions \cup marks)
    BY <2>2 DEF _matches_account, Str
  <2>. HIDE DEF positions, marks
  <2>8. rows[i].symbol = IF positions \cup marks = {} THEN None ELSE x
    <3>1. CASE positions = {x}
      <4>1. Cardinality(positions) = 1 /\ Only(positions) = x
        BY <3>1, OneOrNone, Zenon
      <4>. QED  BY <2>4, <3>1, <4>1
    <3>2. CASE positions = {} /\ marks = {x}
      <4>1. Cardinality(positions) # 1 /\ Cardinality(marks) = 1 /\ Only(marks) = x
        BY <3>2, OneOrNone, Zenon
      <4>. QED  BY <2>4, <3>2, <4>1
    <3>3. CASE positions = {} /\ marks = {}
      <4>1. Cardinality(positions) # 1 /\ Cardinality(marks) # 1
        BY <3>3, OneOrNone, Zenon
      <4>. QED  BY <2>4, <3>3, <4>1
    <3>. QED  BY <2>6, <3>1, <3>2, <3>3
  <2>. QED  BY <2>3, <2>6, <2>7, <2>8
<1>6. selected = Image(rows, P)
  <2>. HIDE DEF rows, OfAccount
  <2>. QED  BY <1>3, <1>5 DEF Range, Image
<1>7. P \subseteq DOMAIN items
  OBVIOUS
<1>8. \A i \in DOMAIN items : i \in Int
  BY <1>3, ListShape
<1>. HIDE DEF rows, P, selected, OfAccount
<1>9. Selects(selected, P, rows, items, "sequence")
  BY <1>3, <1>4, <1>6, <1>7, <1>8 DEF Selects, Rows
<1>. QED  BY <1>1, <1>2, <1>9, SameSelection

-----------------------------------------------------------------------------
(* What the results are made of.                                           *)

LEMMA QuotientOrder ==
    ASSUME NEW n \in Nat \ {0}, NEW a \in Nat, NEW b \in Nat, a <= b
    PROVE  a \div n \in Nat /\ b \div n \in Nat /\ a \div n <= b \div n
<1>1. PICK d \in Nat, e \in Nat : d = a \div n /\ e = b \div n
  OBVIOUS
<1>2. n * d <= a /\ a < n * d + n
  BY <1>1
<1>3. n * e <= b /\ b < n * e + n
  BY <1>1
<1>4. PICK v \in Int, w \in Int : v = n * d /\ w = n * e
  OBVIOUS
<1>5. d >= e + 1 => v >= w + n
  BY <1>4
<1>6. d <= e
  BY <1>2, <1>3, <1>4, <1>5
<1>. QED  BY <1>1, <1>6

LEMMA RangeFinite ==
    ASSUME NEW s, s \in Seq(Range(s))
    PROVE  IsFiniteSet(Range(s))
<1>1. PICK n \in Nat : DOMAIN s = 1..n
  BY ListShape
<1>2. IsFiniteSet(1..n)
  BY FS_Interval
<1>3. s \in Surjection(1..n, Range(s))
  BY <1>1, ListShape DEF Surjection, Range
<1>. QED  BY <1>2, <1>3, FS_Surjection

\* The events as the runners have them, and as they are stored.
Parsed(e) ==
    /\ DOMAIN e = {"type", "data"}
    /\ e.type = "TradeExecuted" => {"price", "qty"} \subseteq DOMAIN e.data
RawEvents(cfg, tape) ==
    IF cfg.run_type = "session"
    THEN FlattenSeq([i \in DOMAIN Visits(cfg) |-> VisitEvents(tape[i], Visits(cfg)[i].symbol)])
    ELSE FlattenSeq([i \in DOMAIN tape |-> execute_command(tape[i].commands[1].events, DEFAULT_SYMBOL)])
Serialized(raw, stored) ==
    /\ raw \in Seq(Range(raw)) /\ stored \in Seq(Range(stored)) /\ Len(stored) = Len(raw)
    /\ \A i \in DOMAIN raw : Parsed(raw[i]) /\ stored[i] = serialize_event(raw[i])

LEMMA ParsedEvents ==
    ASSUME NEW answers, IsList(answers), NEW symbol
    PROVE  /\ IsList(execute_command(answers, symbol))
           /\ \A e \in Range(execute_command(answers, symbol)) : Parsed(e)
<1>1. ASSUME NEW e PROVE Parsed(parse_event(event_to_py(e, symbol)))
  <2>. DEFINE raw == event_to_py(e, symbol)
              keys == IF e.type \in DOMAIN OrderData THEN OrderData[e.type] ELSE MarketData[e.type]
  <2>1. DOMAIN raw = {"type", "data"} /\ raw.type = e.type /\ DOMAIN raw.data = keys \cup {"symbol"}
    BY DEF event_to_py
  <2>2. e.type = "TradeExecuted" => {"price", "qty"} \subseteq keys
    BY DEF OrderData
  <2>. HIDE DEF raw, keys
  <2>3. /\ DOMAIN parse_event(raw) = {"type", "data"} /\ parse_event(raw).type = raw.type
        /\ DOMAIN parse_event(raw).data = DOMAIN raw.data \cup {"symbol"}
    BY <2>1 DEF parse_event
  <2>. QED  BY <2>1, <2>2, <2>3 DEF Parsed, raw
<1>2. IsList(execute_command(answers, symbol))
  BY MappedList DEF execute_command, IsList
<1>3. ASSUME NEW e \in Range(execute_command(answers, symbol)) PROVE Parsed(e)
  <2>1. PICK i \in DOMAIN answers : e = parse_event(event_to_py(answers[i], symbol))
    BY DEF Range, execute_command
  <2>. QED  BY <1>1, <2>1
<1>. QED  BY <1>2, <1>3

LEMMA SerializedEvent ==
    ASSUME NEW e, Parsed(e), NEW f, f = serialize_event(e)
    PROVE  /\ DOMAIN f = {"type", "data"} /\ f.type = e.type
           /\ IsTrade(e) => f.data.qty = e.data.qty /\ f.data.price = e.data.price
<1>. DEFINE kept == IF e.data.symbol = DEFAULT_SYMBOL THEN DOMAIN e.data \ {"symbol"} ELSE DOMAIN e.data
            data == [k \in kept |-> e.data[k]]
<1>1. f = [e EXCEPT !.data = data]
  BY DEF serialize_event
<1>. HIDE DEF data
<1>2. DOMAIN f = {"type", "data"} /\ f.type = e.type /\ f.data = data
  BY <1>1 DEF Parsed
<1>3. ASSUME IsTrade(e) PROVE data.qty = e.data.qty /\ data.price = e.data.price
  <2>1. "qty" \in kept /\ "price" \in kept
    BY <1>3 DEF IsTrade, OfType, Parsed
  <2>. HIDE DEF kept
  <2>. QED  BY <2>1 DEF data
<1>. QED  BY <1>2, <1>3

\* Everything that a run stores of its events.
LEMMA FlattenSerialized ==
    ASSUME NEW n \in Nat, NEW raws, NEW stored, raws = [i \in 1..n |-> raws[i]], stored = [i \in 1..n |-> stored[i]],
           \A i \in 1..n : Serialized(raws[i], stored[i])
    PROVE  Serialized(FlattenSeq(raws), FlattenSeq(stored))
<1>. DEFINE T == UNION {Range(raws[i]) : i \in 1..n}
            R == {<<e, serialize_event(e)>> : e \in T}
<1>1. ASSUME NEW e \in T PROVE Parsed(e)
  BY DEF Serialized, Range
<1>2. ASSUME NEW i \in 1..n PROVE Related(raws[i], stored[i], R)
  <2>1. Serialized(raws[i], stored[i])
    OBVIOUS
  <2>2. ASSUME NEW j \in DOMAIN raws[i] PROVE <<raws[i][j], stored[i][j]>> \in R
    <3>1. raws[i][j] \in T /\ stored[i][j] = serialize_event(raws[i][j])
      BY <2>1 DEF Serialized, Range
    <3>. HIDE DEF T
    <3>. QED  BY <3>1
  <2>. HIDE DEF R
  <2>. QED  BY <2>1, <2>2 DEF Serialized, Related
<1>. HIDE DEF R
<1>3. Related(FlattenSeq(raws), FlattenSeq(stored), R)
  BY <1>2, FlattenRelated
<1>4. ASSUME NEW e, NEW f, <<e, f>> \in R PROVE Parsed(e) /\ f = serialize_event(e)
  <2>. HIDE DEF T
  <2>. QED  BY <1>1, <1>4 DEF R
<1>. QED  BY <1>3, <1>4 DEF Related, Serialized

\* The events of a visit are parsed ones.
LEMMA VisitParsed ==
    ASSUME NEW answer, NEW symbol, IsList(answer.halt), IsList(answer.commands), IsList(answer.uncross),
           \A c \in DOMAIN answer.commands : IsList(answer.commands[c].events)
    PROVE  IsList(VisitEvents(answer, symbol)) /\ \A e \in Range(VisitEvents(answer, symbol)) : Parsed(e)
<1>. DEFINE parts == [c \in DOMAIN answer.commands |-> answer.commands[c].events]
            answers == answer.halt \o FlattenSeq(parts) \o answer.uncross
<1>1. parts \in Seq(Range(parts)) /\ \A c \in DOMAIN parts : parts[c] \in Seq(Range(parts[c]))
  BY MappedList DEF IsList
<1>2. FlattenSeq(parts) \in Seq(Range(FlattenSeq(parts)))
  BY <1>1, FlattenedList
<1>3. IsList(answers)
  BY <1>2, ConcatList DEF IsList
<1>. HIDE DEF answers
<1>. QED  BY <1>3, ParsedEvents DEF answers, VisitEvents

LEMMA SerializedList ==
    ASSUME NEW raw, IsList(raw), \A e \in Range(raw) : Parsed(e),
           NEW stored, stored = [i \in DOMAIN raw |-> serialize_event(raw[i])]
    PROVE  Serialized(raw, stored)
<1>1. stored \in Seq(Range(stored)) /\ Len(stored) = Len(raw)
  BY MappedList DEF IsList
<1>2. ASSUME NEW i \in DOMAIN raw PROVE Parsed(raw[i]) /\ stored[i] = serialize_event(raw[i])
  BY DEF Range
<1>. QED  BY <1>1, <1>2 DEF Serialized, IsList

LEMMA StoredEvents ==
    ASSUME NEW cfg, NEW tape, cfg.steps \in Nat, IsList(cfg.symbols), IsTape(cfg, tape)
    PROVE  Serialized(RawEvents(cfg, tape), Artifacts(cfg, tape).events)
<1>1. CASE cfg.run_type = "session"
  <2>. DEFINE visits == Visits(cfg)
              raws == [i \in DOMAIN visits |-> VisitEvents(tape[i], visits[i].symbol)]
              stored == [i \in DOMAIN visits |->
                            LET events == VisitEvents(tape[i], visits[i].symbol)
                            IN  [j \in DOMAIN events |-> serialize_event(events[j])]]
  <2>1. PICK n \in Nat : DOMAIN visits = 1..n /\ DOMAIN tape = 1..n
    <3>1. cfg.steps * Len(cfg.symbols) \in Nat
      BY ListShape DEF IsList
    <3>2. DOMAIN tape = 1..(cfg.steps * Len(cfg.symbols))
      BY <1>1, ListShape DEF IsTape, IsList
    <3>. QED  BY <3>1, <3>2 DEF Visits
  <2>. HIDE DEF visits
  <2>2. ASSUME NEW i \in 1..n PROVE Serialized(raws[i], stored[i])
    <3>. DEFINE events == VisitEvents(tape[i], visits[i].symbol)
    <3>1. IsList(events) /\ \A e \in Range(events) : Parsed(e)
      BY <2>1, VisitParsed DEF IsTape
    <3>2. raws[i] = events /\ stored[i] = [j \in DOMAIN events |-> serialize_event(events[j])]
      BY <2>1
    <3>. HIDE DEF events, raws, stored
    <3>. QED  BY <3>1, <3>2, SerializedList
  <2>3. raws = [i \in 1..n |-> raws[i]] /\ stored = [i \in 1..n |-> stored[i]]
    BY <2>1
  <2>4. RawEvents(cfg, tape) = FlattenSeq(raws) /\ Artifacts(cfg, tape).events = FlattenSeq(stored)
    BY <1>1 DEF RawEvents, Artifacts, run_session, visits
  <2>. HIDE DEF raws, stored
  <2>5. Serialized(FlattenSeq(raws), FlattenSeq(stored))
    BY <2>2, <2>3, FlattenSerialized
  <2>. QED  BY <2>4, <2>5
<1>2. CASE cfg.run_type # "session"
  <2>. DEFINE raws == [i \in DOMAIN tape |-> execute_command(tape[i].commands[1].events, DEFAULT_SYMBOL)]
              stored == [i \in DOMAIN tape |-> [j \in DOMAIN raws[i] |-> serialize_event(raws[i][j])]]
              raw == FlattenSeq(raws)
  <2>1. PICK n \in Nat : DOMAIN tape = 1..n
    BY ListShape DEF IsTape, IsList
  <2>2. ASSUME NEW i \in 1..n PROVE Serialized(raws[i], stored[i])
    <3>. DEFINE events == execute_command(tape[i].commands[1].events, DEFAULT_SYMBOL)
    <3>1. 1 \in DOMAIN tape[i].commands
      BY <1>2, <2>1, ListShape DEF IsTape, IsList
    <3>2. IsList(events) /\ \A e \in Range(events) : Parsed(e)
      BY <2>1, <3>1, ParsedEvents DEF IsTape
    <3>3. raws[i] = events /\ stored[i] = [j \in DOMAIN events |-> serialize_event(events[j])]
      BY <2>1
    <3>. HIDE DEF events, raws, stored
    <3>. QED  BY <3>2, <3>3, SerializedList
  <2>3. raws = [i \in 1..n |-> raws[i]] /\ stored = [i \in 1..n |-> stored[i]]
    BY <2>1
  <2>4. /\ RawEvents(cfg, tape) = raw
        /\ Artifacts(cfg, tape).events = [i \in DOMAIN raw |-> serialize_event(raw[i])]
    BY <1>2 DEF RawEvents, Artifacts, run_backtest
  <2>. HIDE DEF raws, stored
  <2>5. Serialized(raw, FlattenSeq(stored))
    BY <2>2, <2>3, FlattenSerialized
  <2>. HIDE DEF raw
  <2>6. IsList(raw) /\ \A e \in Range(raw) : Parsed(e)
    BY <2>5 DEF Serialized, IsList, Range
  <2>. QED  BY <2>4, <2>6, SerializedList
<1>. QED  BY <1>1, <1>2

\* Every result has the shape that the columns of the store are made for.
LEMMA SessionSteps ==
    ASSUME NEW cfg, cfg.steps \in Nat, IsList(cfg.symbols), NEW i \in DOMAIN Visits(cfg)
    PROVE  /\ Visits(cfg)[i].step \in Nat
           /\ \A j \in DOMAIN Visits(cfg) : i <= j => Visits(cfg)[i].step <= Visits(cfg)[j].step
<1>1. PICK n \in Nat, m \in Nat : n = Len(cfg.symbols) /\ m = cfg.steps
  BY ListShape DEF IsList
<1>2. PICK top \in Nat : top = m * n
  OBVIOUS
<1>3. DOMAIN Visits(cfg) = 1..top /\ \A k \in 1..top : Visits(cfg)[k].step = (k - 1) \div n
  BY <1>1, <1>2 DEF Visits
<1>4. n # 0
  <2>1. n = 0 => top = 0
    BY <1>2
  <2>. QED  BY <1>3, <2>1
<1>5. ASSUME NEW j \in 1..top, i <= j
      PROVE  /\ (i - 1) \div n \in Nat /\ (j - 1) \div n \in Nat
             /\ (i - 1) \div n <= (j - 1) \div n
  <2>1. PICK a \in Nat, b \in Nat : a = i - 1 /\ b = j - 1
    BY <1>3
  <2>2. a <= b
    BY <1>3, <1>5, <2>1
  <2>. QED  BY <1>4, <2>1, <2>2, QuotientOrder
<1>6. ASSUME NEW j \in 1..top, i <= j
      PROVE  Visits(cfg)[i].step \in Nat /\ Visits(cfg)[i].step <= Visits(cfg)[j].step
  <2>1. Visits(cfg)[i].step = (i - 1) \div n
    BY <1>3
  <2>2. Visits(cfg)[j].step = (j - 1) \div n
    BY <1>3
  <2>. QED  BY <1>5, <1>6, <2>1, <2>2, Zenon
<1>7. i \in 1..top /\ i <= i
  BY <1>3
<1>. QED  BY <1>3, <1>6, <1>7

LEMMA ShapedEvents ==
    ASSUME NEW cfg, NEW tape, cfg.steps \in Nat, IsList(cfg.symbols), IsTape(cfg, tape)
    PROVE  Shaped("events", Artifacts(cfg, tape).events)
<1>. DEFINE stored == Artifacts(cfg, tape).events
<1>1. PICK raw : Serialized(raw, stored)
  BY StoredEvents
<1>. HIDE DEF stored
<1>2. ASSUME NEW i \in DOMAIN stored PROVE EventShape(stored[i])
  <2>1. i \in DOMAIN raw
    BY <1>1, ListShape DEF Serialized
  <2>. QED  BY <1>1, <2>1, SerializedEvent DEF Serialized, EventShape
<1>. QED  BY <1>1, <1>2 DEF stored, Shaped, Serialized

LEMMA ShapedSnapshots ==
    ASSUME NEW cfg, NEW tape, cfg.steps \in Nat, IsList(cfg.symbols), IsTape(cfg, tape)
    PROVE  Shaped("snapshots", Artifacts(cfg, tape).snapshots)
<1>. DEFINE stored == Artifacts(cfg, tape).snapshots
<1>1. CASE cfg.run_type = "session"
  <2>1. stored = [i \in DOMAIN Visits(cfg) |->
                     [step |-> Visits(cfg)[i].step, symbol |-> Visits(cfg)[i].symbol, snapshot |-> tape[i].book]]
    BY <1>1 DEF Artifacts, run_session
  <2>2. IsList(stored)
    BY <1>1, SessionLists DEF Artifacts
  <2>. HIDE DEF stored
  <2>3. ASSUME NEW i \in DOMAIN stored PROVE SnapshotShape(stored[i])
    <3>1. i \in DOMAIN Visits(cfg)
      BY <2>1
    <3>2. PICK step, symbol, book : step = Visits(cfg)[i].step /\ stored[i] = [step |-> step, symbol |-> symbol, snapshot |-> book]
      BY <2>1, <3>1
    <3>3. step \in Nat
      BY <3>1, <3>2, SessionSteps
    <3>4. DOMAIN stored[i] = {"step", "symbol", "snapshot"}
      BY <3>2
    <3>5. stored[i].step \in Nat
      BY <3>2, <3>3
    <3>. QED  BY <3>4, <3>5, Zenon DEF SnapshotShape
  <2>4. ASSUME NEW i \in DOMAIN stored, NEW j \in DOMAIN stored, i <= j PROVE stored[i].step <= stored[j].step
    BY <2>1, <2>4, SessionSteps
  <2>. QED  BY <2>2, <2>3, <2>4 DEF Shaped, IsList, stored
<1>2. CASE cfg.run_type # "session"
  <2>1. stored = [i \in DOMAIN tape |->
                     [step |-> i, symbols |-> [s \in Range(cfg.symbols) |-> BacktestBook(tape[i], s)]]]
    BY <1>2 DEF Artifacts, run_backtest
  <2>2. IsList(stored)
    BY <1>2, BacktestLists DEF Artifacts
  <2>3. \A i \in DOMAIN tape : i \in Nat
    BY ListShape DEF IsTape, IsList
  <2>. HIDE DEF stored
  <2>4. ASSUME NEW i \in DOMAIN stored PROVE SnapshotShape(stored[i])
    <3>1. IsFiniteSet(Range(cfg.symbols))
      BY RangeFinite DEF IsList
    <3>. QED  BY <2>1, <2>3, <3>1 DEF SnapshotShape
  <2>5. ASSUME NEW i \in DOMAIN stored, NEW j \in DOMAIN stored, i <= j PROVE stored[i].step <= stored[j].step
    BY <2>1, <2>5
  <2>. QED  BY <2>2, <2>4, <2>5 DEF Shaped, IsList, stored
<1>. QED  BY <1>1, <1>2

LEMMA ShapedAccounts ==
    ASSUME NEW cfg, NEW tape, cfg.steps \in Nat, IsList(cfg.symbols), IsTape(cfg, tape)
    PROVE  Shaped("accounts", Artifacts(cfg, tape).accounts)
<1>. DEFINE stored == Artifacts(cfg, tape).accounts
<1>1. IsFiniteSet(Range(cfg.symbols))
  BY RangeFinite DEF IsList
<1>2. CASE cfg.run_type = "session"
  <2>. DEFINE marks == SessionReport(cfg, tape).per_symbol_pnl
  <2>1. PICK cash, equity :
            stored = <<[cash |-> cash, positions |-> [s \in {} |-> 0], mark_to_market |-> marks, equity |-> equity]>>
    BY <1>2 DEF Artifacts, run_session, SessionAccount
  <2>2. DOMAIN marks = Range(cfg.symbols)
    BY DEF SessionReport
  <2>3. IsList(stored)
    BY <1>2, SessionLists DEF Artifacts
  <2>. HIDE DEF stored, marks
  <2>4. ASSUME NEW i \in DOMAIN stored PROVE AccountShape(stored[i])
    <3>1. stored[i] = [cash |-> cash, positions |-> [s \in {} |-> 0], mark_to_market |-> marks, equity |-> equity]
      BY <2>1
    <3>2. DOMAIN stored[i] = {"cash", "positions", "mark_to_market", "equity"}
      BY <3>1
    <3>3. Keys(stored[i], "positions") = {} /\ Keys(stored[i], "mark_to_market") = Range(cfg.symbols)
      BY <2>2, <3>1 DEF Keys
    <3>. QED  BY <1>1, <3>2, <3>3, FS_EmptySet DEF AccountShape
  <2>. QED  BY <2>3, <2>4 DEF Shaped, IsList, stored
<1>3. CASE cfg.run_type # "session"
  <2>1. stored = [i \in DOMAIN tape |-> BacktestAccount(cfg, tape, i)]
    BY <1>3 DEF Artifacts, run_backtest
  <2>2. IsList(stored)
    BY <1>3, BacktestLists DEF Artifacts
  <2>. HIDE DEF stored
  <2>3. ASSUME NEW i \in DOMAIN stored PROVE AccountShape(stored[i])
    <3>1. stored[i] = BacktestAccount(cfg, tape, i)
      BY <2>1
    <3>2. PICK cash, positions, equity :
              /\ stored[i] = [cash |-> cash, positions |-> positions, equity |-> equity]
              /\ positions = BacktestPositions(cfg, tape, i)
      BY <3>1 DEF BacktestAccount
    <3>3. DOMAIN positions \subseteq Range(cfg.symbols) \cup {DEFAULT_SYMBOL}
      BY <3>2 DEF BacktestPositions
    <3>4. IsFiniteSet(DOMAIN positions)
      <4>1. IsFiniteSet({DEFAULT_SYMBOL})
        BY FS_Singleton
      <4>2. IsFiniteSet(Range(cfg.symbols) \cup {DEFAULT_SYMBOL})
        BY <1>1, <4>1, FS_Union
      <4>. QED  BY <3>3, <4>2, FS_Subset
    <3>5. Keys(stored[i], "positions") = DOMAIN positions /\ Keys(stored[i], "mark_to_market") = {}
      BY <3>2 DEF Keys
    <3>. QED  BY <3>2, <3>4, <3>5, FS_EmptySet DEF AccountShape
  <2>. QED  BY <2>2, <2>3 DEF Shaped, IsList, stored
<1>. QED  BY <1>2, <1>3

LEMMA ShapedRun ==
    ASSUME scenario \in Scenarios, NEW b \in 1..Len(scenario.tapes), NEW kind \in {"events", "snapshots", "accounts"}
    PROVE  Shaped(kind, Run(b)[kind])
<1>1. /\ config.steps \in Nat /\ IsList(config.symbols) /\ IsTape(config, scenario.tapes[b])
  BY ScenariosAssumption, ListShape DEF config, IsList
<1>. QED  BY <1>1, ShapedEvents, ShapedSnapshots, ShapedAccounts DEF Run

\* What is stored of a result changes as a whole.
LEMMA WholeInit == Init => WholeInv
BY DEF Init, WholeInv, NewRun

LEMMA WholeKept ==
    ASSUME WholeInv, UNCHANGED <<scenario, build>>, \A k \in Kinds : run'[k] = run[k]
    PROVE  WholeInv'
<1>1. \A b : Run(b)' = Run(b)
  BY DEF Run, config
<1>. QED  BY <1>1 DEF WholeInv, Holds

LEMMA WholeNext ==
    ASSUME ReplayTypeOK, ReplayTypeOK', WholeInv, [Next]_vars
    PROVE  WholeInv'
<1>. USE DEF ReplayTypeOK, Kinds
<1>1. CASE UNCHANGED vars \/ Ended
  BY <1>1, WholeKept DEF vars, Ended
<1>2. ASSUME NEW t \in DOMAIN thread, Open(t) \/ Start(t) \/ Publish(t) \/ Fail(t) \/ Complete(t) \/ Crash(t)
      PROVE  WholeInv'
  BY <1>2, WholeKept DEF Open, Start, Publish, Fail, Complete, Crash, SetStatus, AppendLog
<1>3. ASSUME NEW t \in DOMAIN thread, StoreResult(t)
      PROVE  WholeInv'
  <2>1. CASE Stored
    <3>1. Run(build)' = Run(build) /\ \A k \in Kinds : run'[k] = Run(build)[k]
      BY <1>3, <2>1 DEF StoreResult, StoreArtifacts, Run, config
    <3>2. build' = build /\ build \in 1..build
      BY <1>3, ScenariosAssumption, ListShape DEF StoreResult, IsList
    <3>. QED  BY <3>1, <3>2 DEF WholeInv, Holds
  <2>2. CASE ~Stored
    BY <1>3, <2>2, WholeKept DEF StoreResult, StoreArtifacts
  <2>. QED  BY <2>1, <2>2
<1>4. CASE CancelRead \/ CancelWrite
  BY <1>4, WholeKept DEF CancelRead, CancelWrite, SetStatus
<1>5. CASE DeleteRun
  <2>1. \A k \in Kinds : run'[k] = NewRun[k]
    BY <1>5 DEF DeleteRun, NewRun
  <2>. QED  BY <2>1 DEF WholeInv
<1>6. CASE Deploy
  <2>1. scenario' = scenario /\ run' = run /\ build \in Nat /\ build' = build + 1
    BY <1>6, ScenariosAssumption, ListShape DEF Deploy, IsList
  <2>2. \A b : Run(b)' = Run(b)
    BY <2>1 DEF Run, config
  <2>3. \A b \in 1..build : b \in 1..(build')
    BY <2>1
  <2>. QED  BY <2>1, <2>2, <2>3 DEF WholeInv, Holds
<1>7. ASSUME NEW r \in Readers,
             \/ \E purpose \in scenario.requests : Request(r, purpose)
             \/ Query(r) \/ AnswerRange(r) \/ AnswerTimeline(r) \/ AnswerSession(r) \/ AnswerFrame(r)
             \/ AnswerSummary(r) \/ AnswerVerify(r)
      PROVE  WholeInv'
  <2>1. UNCHANGED <<scenario, build, run>>
    BY <1>7 DEF Request, Query, AnswerRange, AnswerTimeline, AnswerSession, AnswerFrame, AnswerSummary,
                AnswerVerify, Deliver
  <2>. QED  BY <2>1, WholeKept
<1>8. ASSUME NEW r \in Readers, StoreVerification(r)
      PROVE  WholeInv'
  BY <1>8, WholeKept DEF StoreVerification
<1>. QED
  BY <1>1, <1>2, <1>3, <1>4, <1>5, <1>6, <1>7, <1>8, Zenon DEF Next

LEMMA WholeAgrees ==
    ASSUME ReplayTypeOK, WholeInv
    PROVE  \A kind \in {"events", "snapshots", "accounts"} : SameAnswers(kind)
<1>. SUFFICES ASSUME NEW kind \in {"events", "snapshots", "accounts"},
                     \A item \in Range(run[kind]) : Describable(item), NEW q \in Queries,
                     ~NamesNone(kind, q)
              PROVE  MemoryGet(kind, run[kind], q) = SQLiteGet(kind, run[kind], q)
  BY DEF SameAnswers
<1>1. Shaped(kind, run[kind])
  <2>1. CASE \A k \in Kinds : run[k] = NewRun[k]
    <3>1. run[kind] = <<>>
      BY <2>1 DEF Kinds, NewRun
    <3>2. <<>> \in Seq(Range(<<>>)) /\ DOMAIN <<>> = {}
      BY EmptySeq
    <3>. QED  BY <3>1, <3>2 DEF Shaped
  <2>2. CASE \E b \in 1..build : Holds(b)
    <3>1. PICK b \in 1..build : Holds(b)
      BY <2>2
    <3>2. b \in 1..Len(scenario.tapes) /\ scenario \in Scenarios
      BY ScenariosAssumption, ListShape DEF ReplayTypeOK, IsList
    <3>3. run[kind] = Run(b)[kind]
      BY <3>1 DEF Holds, Kinds
    <3>. QED  BY <3>2, <3>3, ShapedRun
  <2>. QED  BY <2>1, <2>2 DEF WholeInv
<1>2. \A i \in DOMAIN run[kind] : Describable(run[kind][i])
  BY DEF Range
<1>3. CASE kind = "events"
  BY <1>1, <1>3, SameEvents
<1>4. CASE kind = "snapshots"
  BY <1>1, <1>2, <1>4, SameSnapshots
<1>5. CASE kind = "accounts"
  BY <1>1, <1>2, <1>5, SameAccounts DEF NamesNone
<1>. QED  BY <1>3, <1>4, <1>5

\* store_result is one transaction: whatever attempts, requests, crashes and deployments
\* interleave, a run has nothing of a result or the whole result of one build.
THEOREM ResultsAreWhole == Spec => [](ReplayTypeOK /\ WholeInv)
<1>1. Init => ReplayTypeOK /\ WholeInv
  BY ReplayTypeInit, WholeInit
<1>2. ReplayTypeOK /\ WholeInv /\ [Next]_vars => (ReplayTypeOK /\ WholeInv)'
  BY ReplayTypeNext, WholeNext
<1>. QED  BY <1>1, <1>2, PTL DEF Spec

\* InMemoryRunStore and SQLiteRunStore give the same page of the same artifacts for every
\* query, of any filters, limit and offset and of any run of any length, as long as no artifact
\* names several symbols and no query asks for the accounts of "None": at every moment, and so
\* after every write.
THEOREM StoresAlwaysAgree ==
    Spec => /\ [](\A kind \in {"events", "snapshots", "accounts"} : SameAnswers(kind))
            /\ StoresAgree
<1>. DEFINE Agreed == \A kind \in {"events", "snapshots", "accounts"} : SameAnswers(kind)
<1>1. ReplayTypeOK /\ WholeInv => Agreed
  BY WholeAgrees
<1>2. Agreed' => [\A kind \in {"events", "snapshots", "accounts"} : run'[kind] # run[kind] => SameAnswers(kind)']_vars
  OBVIOUS
<1>. HIDE DEF Agreed
<1>3. Spec => []Agreed
  BY <1>1, ResultsAreWhole, PTL
<1>4. Spec => [][\A kind \in {"events", "snapshots", "accounts"} : run'[kind] # run[kind] => SameAnswers(kind)']_vars
  BY <1>2, <1>3, PTL
<1>. QED  BY <1>3, <1>4 DEF Agreed, StoresAgree

-----------------------------------------------------------------------------
(* Summaries.                                                              *)

\* Stored events are trades and rejections where the runners' are, and of the same amounts.
LEMMA SameCounts ==
    ASSUME NEW raw, NEW stored, Serialized(raw, stored)
    PROVE  /\ Len(Where(raw, IsTrade)) = Len(Where(stored, IsTrade))
           /\ Total(Where(raw, IsTrade), Qty) = Total(Where(stored, IsTrade), Qty)
           /\ Total(Where(raw, IsTrade), Notional) = Total(Where(stored, IsTrade), Notional)
           /\ Count(raw, LAMBDA e : OfType("OrderRejected", e)) = _count_event_type(stored, "OrderRejected")
<1>1. PICK n \in Nat : DOMAIN raw = 1..n /\ DOMAIN stored = 1..n
  BY ListShape DEF Serialized
<1>2. ASSUME NEW i \in 1..n
      PROVE  /\ stored[i].type = raw[i].type
             /\ IsTrade(raw[i]) => Qty(stored[i]) = Qty(raw[i]) /\ Notional(stored[i]) = Notional(raw[i])
  BY <1>1, SerializedEvent DEF Serialized, Qty, Notional
<1>. DEFINE P == {i \in 1..n : IsTrade(raw[i])}
            Q == {i \in 1..n : OfType("OrderRejected", raw[i])}
            r == Where(raw, IsTrade)
            s == Where(stored, IsTrade)
<1>3. r = Chosen(raw, P) /\ s = Chosen(stored, P)
  <2>1. {i \in 1..n : IsTrade(stored[i])} = P
    BY <1>2 DEF IsTrade, OfType
  <2>. QED  BY <1>1, <2>1 DEF Where
<1>4. P \in SUBSET (1..n) /\ Q \in SUBSET (1..n)
  OBVIOUS
<1>. HIDE DEF P, r, s
<1>. DEFINE m == Cardinality(P)
            order == Ascending(P)
<1>5. m \in Nat /\ r = [j \in 1..m |-> raw[order[j]]] /\ s = [j \in 1..m |-> stored[order[j]]] /\ Len(r) = m /\ Len(s) = m
  <2>1. m \in Nat /\ r = [j \in 1..m |-> raw[order[j]]] /\ Len(r) = m
    BY <1>1, <1>3, <1>4, ChosenList
  <2>2. s = [j \in 1..m |-> stored[order[j]]] /\ Len(s) = m
    BY <1>1, <1>3, <1>4, ChosenList
  <2>. QED  BY <2>1, <2>2
<1>6. \A j \in 1..m : order[j] \in P
  <2>1. IsFiniteSet(1..n) /\ 1..n \subseteq Int
    BY FS_Interval
  <2>2. IsFiniteSet(P) /\ Numbers(P)
    BY <1>4, <2>1, FS_Subset DEF Numbers
  <2>3. PICK k, o : k = m /\ o = order
    OBVIOUS
  <2>4. o \in [1..k -> P]
    BY <2>2, <2>3, AscendingNumbers
  <2>. QED  BY <2>3, <2>4
<1>. HIDE DEF m, order
<1>7. ASSUME NEW j \in 1..m PROVE Qty(r[j]) = Qty(s[j]) /\ Notional(r[j]) = Notional(s[j])
  <2>1. r[j] = raw[order[j]] /\ s[j] = stored[order[j]]
    BY <1>5
  <2>2. order[j] \in 1..n /\ IsTrade(raw[order[j]])
    BY <1>6 DEF P
  <2>. QED  BY <1>2, <2>1, <2>2
<1>8. DOMAIN r = 1..m /\ DOMAIN s = 1..m
  BY <1>5
<1>9. [j \in DOMAIN r |-> Qty(r[j])] = [j \in DOMAIN s |-> Qty(s[j])]
  BY <1>7, <1>8
<1>10. [j \in DOMAIN r |-> Notional(r[j])] = [j \in DOMAIN s |-> Notional(s[j])]
  BY <1>7, <1>8
<1>11. Total(r, Qty) = Total(s, Qty) /\ Total(r, Notional) = Total(s, Notional)
  BY <1>9, <1>10 DEF Total
<1>12. Count(raw, LAMBDA e : OfType("OrderRejected", e)) = _count_event_type(stored, "OrderRejected")
  <2>1. {i \in 1..n : OfType("OrderRejected", stored[i])} = Q
    BY <1>2 DEF OfType
  <2>2. /\ Count(raw, LAMBDA e : OfType("OrderRejected", e)) = Len(Chosen(raw, Q))
        /\ _count_event_type(stored, "OrderRejected") = Len(Chosen(stored, Q))
    BY <1>1, <2>1 DEF Count, Where, _count_event_type
  <2>. HIDE DEF Q
  <2>3. Len(Chosen(raw, Q)) = Cardinality(Q)
    BY <1>1, <1>4, ChosenList
  <2>4. Len(Chosen(stored, Q)) = Cardinality(Q)
    BY <1>1, <1>4, ChosenList
  <2>. QED  BY <2>2, <2>3, <2>4
<1>. QED  BY <1>5, <1>11, <1>12 DEF r, s

LEMMA RejectionCounts ==
    ASSUME NEW events, IsList(events)
    PROVE  /\ _count_event_type(events, "OrderRejected") \in Nat /\ _count_rejections(events) \in Nat
           /\ _count_event_type(events, "OrderRejected") <= _count_rejections(events)
           /\ _count_event_type(events, "TradeExecuted") = Len(Where(events, IsTrade))
<1>1. PICK n \in Nat : DOMAIN events = 1..n
  BY ListShape DEF IsList
<1>. DEFINE P == {i \in 1..n : OfType("OrderRejected", events[i])}
            Q == {i \in 1..n : events[i].type \in {"OrderRejected", "CancelRejected"}}
<1>2. /\ _count_event_type(events, "OrderRejected") = Len(Chosen(events, P))
      /\ _count_rejections(events) = Len(Chosen(events, Q))
  BY <1>1 DEF Count, Where, _count_event_type, _count_rejections
<1>3. P \in SUBSET (1..n) /\ Q \in SUBSET (1..n) /\ P \in SUBSET Q
  BY DEF OfType
<1>. HIDE DEF P, Q
<1>4. Len(Chosen(events, P)) = Cardinality(P) /\ Cardinality(P) \in Nat
  BY <1>1, <1>3, ChosenList
<1>5. Len(Chosen(events, Q)) = Cardinality(Q) /\ Cardinality(Q) \in Nat
  BY <1>1, <1>3, ChosenList
<1>6. Cardinality(P) <= Cardinality(Q)
  <2>1. IsFiniteSet(1..n)
    BY FS_Interval
  <2>. QED  BY <1>3, <2>1, FS_Subset
<1>7. _count_event_type(events, "TradeExecuted") = Len(Where(events, IsTrade))
  BY DEF _count_event_type, Count, Where, IsTrade
<1>. QED  BY <1>2, <1>4, <1>5, <1>6, <1>7

\* The report of a run counts what the run's events are.
ReportOf(report, raw) ==
    /\ "total_trades" \in DOMAIN report /\ report.total_trades = Len(Where(raw, IsTrade))
    /\ "total_volume" \in DOMAIN report => report.total_volume = Total(Where(raw, IsTrade), Qty)
    /\ "traded_notional" \in DOMAIN report => report.traded_notional = Total(Where(raw, IsTrade), Notional)
    /\ "total_rejections" \notin DOMAIN report
    /\ "rejected_orders" \in DOMAIN report
    /\ report.rejected_orders = Count(raw, LAMBDA e : OfType("OrderRejected", e))

LEMMA ReportCounts ==
    ASSUME NEW cfg, NEW tape
    PROVE  ReportOf(Artifacts(cfg, tape).report, RawEvents(cfg, tape))
<1>. DEFINE raw == RawEvents(cfg, tape)
            trades == Where(raw, IsTrade)
            rejected == Count(raw, LAMBDA e : OfType("OrderRejected", e))
<1>1. CASE cfg.run_type = "session"
  <2>1. Artifacts(cfg, tape).report = SessionReport(cfg, tape)
    BY <1>1 DEF Artifacts, run_session
  <2>2. raw = FlattenSeq([i \in DOMAIN Visits(cfg) |-> VisitEvents(tape[i], Visits(cfg)[i].symbol)])
    BY <1>1 DEF RawEvents
  <2>. HIDE DEF raw
  <2>3. \E steps, orders, per, halts, halted, pnl, cash, equity :
            SessionReport(cfg, tape) =
                [total_steps |-> steps, total_orders |-> orders,
                 total_trades |-> Len(trades), total_volume |-> Total(trades, Qty),
                 traded_notional |-> Total(trades, Notional), per_symbol_volume |-> per,
                 rejected_orders |-> rejected, halt_count |-> halts, halted_symbols |-> halted,
                 per_symbol_pnl |-> pnl, realized_pnl |-> cash, final_equity |-> equity]
    BY <2>2, Zenon DEF SessionReport
  <2>. HIDE DEF trades, rejected
  <2>. QED  BY <2>1, <2>3 DEF ReportOf, trades, rejected, raw
<1>2. CASE cfg.run_type # "session"
  <2>1. raw = FlattenSeq([i \in DOMAIN tape |-> execute_command(tape[i].commands[1].events, DEFAULT_SYMBOL)])
    BY <1>2 DEF RawEvents
  <2>. HIDE DEF raw
  <2>2. Artifacts(cfg, tape).report = run_backtest(cfg, tape).report
    BY <1>2 DEF Artifacts
  <2>3. \E equity, cash, position, orders :
            run_backtest(cfg, tape).report =
                [ending_equity |-> equity, cash_balance |-> cash, per_symbol_position |-> position,
                 total_traded_notional |-> Total(trades, Notional), total_trades |-> Len(trades),
                 total_orders |-> orders, rejected_orders |-> rejected]
    BY <2>1 DEF run_backtest
  <2>. HIDE DEF trades, rejected
  <2>. QED  BY <2>2, <2>3 DEF ReportOf, trades, rejected, raw
<1>. QED  BY <1>1, <1>2

\* A summary recounts the events that were read, if the report that was read with them is
\* none or that of the run that stored them.
LEMMA SummarySound ==
    ASSUME NEW a, IsList(a.events),
           a.report = NewRun.report \/ \E raw : Serialized(raw, a.events) /\ ReportOf(a.report, raw),
           NEW answer, answer.summary = summarize_run(a), answer.events = a.events,
           NEW v, answer.replay = get_replay_summary(a, v)
    PROVE  Recounts(answer)
<1>. DEFINE trades == Where(a.events, IsTrade)
            rejected == _count_event_type(a.events, "OrderRejected")
            rejections == _count_rejections(a.events)
            traded == _count_event_type(a.events, "TradeExecuted")
            report(key) == Get(a.report, key)
            s == summarize_run(a)
<1>1. /\ s.total_trades = Or(report("total_trades"), traded)
      /\ s.total_volume = IF report("total_volume") # None THEN report("total_volume") ELSE Total(trades, Qty)
      /\ s.traded_notional = IF report("traded_notional") # None THEN report("traded_notional")
                             ELSE Total(trades, Notional)
      /\ s.total_rejections = Or(Or(report("total_rejections"), report("rejected_orders")), rejections)
  BY DEF summarize_run
<1>2. get_replay_summary(a, v).total_trades = traded
  BY DEF get_replay_summary
<1>3. rejected \in Nat /\ rejections \in Nat /\ rejected <= rejections /\ traded = Len(trades)
  BY RejectionCounts
<1>4. None \notin Int
  BY NoneAssumption
<1>. HIDE DEF s, trades, rejected, rejections, traded, report
<1>5. CASE a.report = NewRun.report
  <2>1. \A key : report(key) = None
    BY <1>5 DEF report, Get, NewRun
  <2>2. /\ s.total_trades = traded /\ s.total_volume = Total(trades, Qty)
        /\ s.traded_notional = Total(trades, Notional) /\ s.total_rejections = rejections
    BY <1>1, <2>1 DEF Or
  <2>3. rejected <= s.total_rejections /\ s.total_rejections <= rejections
    BY <1>3, <2>2
  <2>. QED  BY <1>2, <1>3, <2>2, <2>3 DEF Recounts, s, trades, rejected, rejections
<1>6. CASE \E raw : Serialized(raw, a.events) /\ ReportOf(a.report, raw)
  <2>1. PICK raw : Serialized(raw, a.events) /\ ReportOf(a.report, raw)
    BY <1>6
  <2>2. /\ Len(Where(raw, IsTrade)) = Len(trades)
        /\ Total(Where(raw, IsTrade), Qty) = Total(trades, Qty)
        /\ Total(Where(raw, IsTrade), Notional) = Total(trades, Notional)
        /\ Count(raw, LAMBDA e : OfType("OrderRejected", e)) = rejected
    BY <2>1, SameCounts DEF trades, rejected
  <2>3. /\ report("total_trades") = Len(trades)
        /\ report("total_volume") \in {None, Total(trades, Qty)}
        /\ report("traded_notional") \in {None, Total(trades, Notional)}
        /\ report("total_rejections") = None /\ report("rejected_orders") = rejected
    BY <2>1, <2>2 DEF ReportOf, report, Get
  <2>4. s.total_trades = Len(trades)
    BY <1>1, <1>3, <2>3 DEF Or
  <2>5. s.total_volume = Total(trades, Qty) /\ s.traded_notional = Total(trades, Notional)
    BY <1>1, <2>3
  <2>6. s.total_rejections \in {rejected, rejections}
    BY <1>1, <2>3 DEF Or
  <2>7. rejected <= s.total_rejections /\ s.total_rejections <= rejections
    BY <1>3, <2>6
  <2>. QED  BY <1>2, <1>3, <2>4, <2>5, <2>7 DEF Recounts, s, trades, rejected, rejections
<1>. QED  BY <1>5, <1>6

\* A result that is stored stays or is replaced by the build that is deployed.
LEMMA ResultStays ==
    ASSUME ReplayTypeOK, [Next]_vars, build' = build, Stored'
    PROVE  scenario' = scenario /\ Stored /\ (Keeps \/ Holds(build)')
<1>. USE DEF ReplayTypeOK, Kinds, Keeps, Stored
<1>1. CASE UNCHANGED vars \/ Ended
  BY <1>1 DEF vars, Ended
<1>2. ASSUME NEW t \in DOMAIN thread, Open(t) \/ Start(t) \/ Publish(t) \/ Fail(t) \/ Complete(t) \/ Crash(t)
      PROVE  scenario' = scenario /\ Stored /\ (Keeps \/ Holds(build)')
  BY <1>2 DEF Open, Start, Publish, Fail, Complete, Crash, SetStatus, AppendLog
<1>3. ASSUME NEW t \in DOMAIN thread, StoreResult(t)
      PROVE  scenario' = scenario /\ Stored /\ (Keeps \/ Holds(build)')
  <2>1. CASE Stored
    <3>1. Run(build)' = Run(build) /\ \A k \in Kinds : run'[k] = Run(build)[k]
      BY <1>3, <2>1 DEF StoreResult, StoreArtifacts, Run, config
    <3>. QED  BY <1>3, <2>1, <3>1 DEF StoreResult, Holds
  <2>2. CASE ~Stored
    BY <1>3, <2>2 DEF StoreResult, StoreArtifacts
  <2>. QED  BY <2>1, <2>2
<1>4. CASE CancelRead \/ CancelWrite
  BY <1>4 DEF CancelRead, CancelWrite, SetStatus
<1>5. CASE DeleteRun
  BY <1>5 DEF DeleteRun, NewRun
<1>6. CASE Deploy
  BY <1>6, ScenariosAssumption, ListShape DEF Deploy, IsList
<1>7. ASSUME NEW r \in Readers,
             \/ \E purpose \in scenario.requests : Request(r, purpose)
             \/ Query(r) \/ AnswerRange(r) \/ AnswerTimeline(r) \/ AnswerSession(r) \/ AnswerFrame(r)
             \/ AnswerSummary(r) \/ AnswerVerify(r)
      PROVE  scenario' = scenario /\ Stored /\ (Keeps \/ Holds(build)')
  BY <1>7 DEF Request, Query, AnswerRange, AnswerTimeline, AnswerSession, AnswerFrame, AnswerSummary,
              AnswerVerify, Deliver
<1>8. ASSUME NEW r \in Readers, StoreVerification(r)
      PROVE  scenario' = scenario /\ Stored /\ (Keeps \/ Holds(build)')
  BY <1>8 DEF StoreVerification
<1>. QED
  BY <1>1, <1>2, <1>3, <1>4, <1>5, <1>6, <1>7, <1>8, Zenon DEF Next

\* A reader that neither reads anything nor has its summary.
Plain(x) ==
    \/ x.point = Head(LoadOrder) /\ x.got = Idle.got
    \/ x.point \in {"idle", "over", "store"}
    \/ x.point = "done" /\ x.purpose # "summary"

\* What a step makes of a reader.
LEMMA ReaderMoves ==
    ASSUME ReplayTypeOK, [Next]_vars, NEW q \in Readers
    PROVE  reader'[q] = reader[q] \/ Plain(reader'[q]) \/ Query(q) \/ AnswerSummary(q)
<1>. USE DEF ReplayTypeOK
<1>1. CASE UNCHANGED reader
  BY <1>1
<1>2. CASE Deploy
  BY <1>2 DEF Deploy, Plain, Gone, Idle
<1>3. ASSUME NEW r \in Readers, reader' = [reader EXCEPT ![r] = reader'[r]], Plain(reader'[r])
      PROVE  reader'[q] = reader[q] \/ Plain(reader'[q])
  <2>1. CASE q = r
    BY <1>3, <2>1
  <2>2. CASE q # r
    BY <1>3, <2>2
  <2>. QED  BY <2>1, <2>2
<1>4. ASSUME NEW r \in Readers, Query(r) \/ AnswerSummary(r)
      PROVE  reader'[q] = reader[q] \/ Query(q) \/ AnswerSummary(q)
  <2>1. CASE q = r
    BY <1>4, <2>1
  <2>2. CASE q # r
    BY <1>4, <2>2 DEF Query, AnswerSummary
  <2>. QED  BY <2>1, <2>2
<1>5. ASSUME NEW r \in Readers, NEW items, NEW more, NEW cursor, Deliver(r, items, more, cursor),
             reader[r].purpose # "summary"
      PROVE  reader'[q] = reader[q] \/ Plain(reader'[q])
  <2>1. reader' = [reader EXCEPT ![r] = reader'[r]]
    BY <1>5 DEF Deliver
  <2>2. CASE more
    <3>1. reader'[r].point = Head(LoadOrder) /\ reader'[r].got = Idle.got
      BY <1>5, <2>2 DEF Deliver, Idle
    <3>. QED  BY <1>3, <2>1, <3>1 DEF Plain
  <2>3. CASE ~more
    <3>1. reader'[r].point = "done" /\ reader'[r].purpose = reader[r].purpose
      BY <1>5, <2>3 DEF Deliver, Idle
    <3>. QED  BY <1>3, <1>5, <2>1, <3>1 DEF Plain
  <2>. QED  BY <2>2, <2>3
<1>6. ASSUME NEW r \in Readers, NEW purpose, Request(r, purpose)
      PROVE  reader'[q] = reader[q] \/ Plain(reader'[q])
  <2>1. reader' = [reader EXCEPT ![r] = reader'[r]]
    BY <1>6 DEF Request
  <2>2. PICK began : reader'[r] = [Idle EXCEPT !.point = Head(LoadOrder), !.purpose = purpose, !.began = began]
    BY <1>6 DEF Request
  <2>3. {"point", "got"} \subseteq DOMAIN Idle
    BY DEF Idle
  <2>4. reader'[r].point = Head(LoadOrder) /\ reader'[r].got = Idle.got
    BY <2>2, <2>3
  <2>. QED  BY <1>3, <2>1, <2>4 DEF Plain
<1>7. ASSUME NEW r \in Readers, AnswerRange(r) \/ AnswerTimeline(r) \/ AnswerFrame(r)
      PROVE  reader'[q] = reader[q] \/ Plain(reader'[q])
  BY <1>5, <1>7 DEF AnswerRange, AnswerTimeline, AnswerFrame, Answers
<1>8. ASSUME NEW r \in Readers, AnswerSession(r)
      PROVE  reader'[q] = reader[q] \/ Plain(reader'[q])
  <2>1. PICK session, first, cursor :
            \/ Deliver(r, first, FALSE, cursor)
            \/ reader' = [reader EXCEPT ![r] =
                   [@ EXCEPT !.point = Head(LoadOrder), !.got = Idle.got, !.steps = session.steps,
                             !.cursor = cursor, !.seen = first]]
    BY <1>8 DEF AnswerSession
  <2>2. reader[r].purpose # "summary"
    BY <1>8 DEF AnswerSession, Answers
  <2>3. CASE reader' = [reader EXCEPT ![r] =
               [@ EXCEPT !.point = Head(LoadOrder), !.got = Idle.got, !.steps = session.steps,
                         !.cursor = cursor, !.seen = first]]
    <3>1. reader' = [reader EXCEPT ![r] = reader'[r]]
      BY <2>3
    <3>2. reader'[r].point = Head(LoadOrder) /\ reader'[r].got = Idle.got
      BY <2>3 DEF Idle
    <3>. QED  BY <1>3, <3>1, <3>2 DEF Plain
  <2>. QED  BY <1>5, <2>1, <2>2, <2>3
<1>9. ASSUME NEW r \in Readers, AnswerVerify(r) \/ StoreVerification(r)
      PROVE  reader'[q] = reader[q] \/ Plain(reader'[q])
  <2>1. reader' = [reader EXCEPT ![r] = reader'[r]] /\ reader'[r].point \in {"over", "store"}
    BY <1>9 DEF AnswerVerify, StoreVerification, Gone, Idle
  <2>. QED  BY <1>3, <2>1 DEF Plain
<1>10. CASE \/ \E t \in DOMAIN thread :
                  Open(t) \/ Start(t) \/ Publish(t) \/ Fail(t) \/ StoreResult(t) \/ Complete(t) \/ Crash(t)
            \/ CancelRead \/ CancelWrite \/ DeleteRun \/ Ended \/ UNCHANGED vars
  <2>1. UNCHANGED reader
    BY <1>10 DEF Open, Start, Publish, Fail, StoreResult, Complete, Crash, CancelRead, CancelWrite, DeleteRun,
                 Ended, vars
  <2>. QED  BY <1>1, <2>1
<1>. QED  BY <1>2, <1>4, <1>6, <1>7, <1>8, <1>9, <1>10, Zenon DEF Next

LEMMA ScenarioStays ==
    ASSUME [Next]_vars
    PROVE  scenario' = scenario /\ (build' = build \/ build' = build + 1)
<1>1. CASE UNCHANGED vars \/ Ended
  BY <1>1 DEF vars, Ended
<1>2. ASSUME NEW t, \/ Open(t) \/ Start(t) \/ Publish(t) \/ Fail(t) \/ StoreResult(t) \/ Complete(t) \/ Crash(t)
      PROVE  UNCHANGED <<scenario, build>>
  BY <1>2 DEF Open, Start, Publish, Fail, StoreResult, Complete, Crash
<1>3. CASE CancelRead \/ CancelWrite \/ DeleteRun \/ Deploy
  BY <1>3 DEF CancelRead, CancelWrite, DeleteRun, Deploy
<1>4. ASSUME NEW r, \/ \E purpose \in scenario.requests : Request(r, purpose)
                    \/ Query(r) \/ AnswerRange(r) \/ AnswerTimeline(r) \/ AnswerSession(r) \/ AnswerFrame(r)
                    \/ AnswerSummary(r) \/ AnswerVerify(r) \/ StoreVerification(r)
      PROVE  UNCHANGED <<scenario, build>>
  BY <1>4 DEF Request, Query, AnswerRange, AnswerTimeline, AnswerSession, AnswerFrame, AnswerSummary,
              AnswerVerify, StoreVerification, Deliver
<1>. QED  BY <1>1, <1>2, <1>3, <1>4, Zenon DEF Next

\* A reader that does nothing still has a report and events that belong together.
LEMMA SummarizedStays ==
    ASSUME ReplayTypeOK, ReplayTypeOK', [Next]_vars, NEW x, Summarized(x)
    PROVE  Summarized(x)'
<1>. SUFFICES ASSUME build' = 1, Reading(x), "report" \in DOMAIN x.got
              PROVE  /\ "events" \in DOMAIN x.got => x.got.events \in {NewRun.events, Run(1)'.events}
                     /\ \/ x.got.report = NewRun.report
                        \/ /\ x.got.report = Run(1)'.report /\ (Stored' => Holds(1)')
                           /\ "events" \in DOMAIN x.got => x.got.events = Run(1)'.events
  BY DEF Summarized, Reading, LoadOrder, NewRun
<1>1. scenario' = scenario /\ build = 1
  <2>1. build \in Nat \ {0}
    BY ScenariosAssumption, ListShape DEF ReplayTypeOK, IsList
  <2>. QED  BY <2>1, ScenarioStays
<1>2. Run(1)' = Run(1)
  BY <1>1 DEF Run, config
<1>3. ASSUME Stored', Stored => Holds(1)
      PROVE  Holds(1)'
  <2>1. Stored /\ (Keeps \/ Holds(build)')
    BY <1>1, <1>3, ResultStays
  <2>2. CASE Keeps
    BY <1>2, <1>3, <2>1, <2>2 DEF Keeps, Holds
  <2>3. CASE Holds(build)'
    BY <2>3 DEF Holds
  <2>. QED  BY <2>1, <2>2, <2>3
<1>. QED  BY <1>1, <1>2, <1>3 DEF Summarized

\* What has been read when each artifact is.
LEMMA QueriesMade ==
    /\ Made("record") = {} /\ Made("report") = {"record"} /\ Made("events") = {"record", "report"}
    /\ \A name \in {"snapshots", "accounts", "logs"} : "report" \in Made(name) /\ "events" \in Made(name)
<1>1. LoadOrder = <<"record", "report", "events", "snapshots", "accounts", "logs">> /\ DOMAIN LoadOrder = 1..6
  BY DEF LoadOrder
<1>2. ASSUME NEW n \in 1..6
      PROVE  Made(LoadOrder[n]) = {LoadOrder[i] : i \in 1..(n - 1)}
  <2>1. \A k \in 1..6 : LoadOrder[k] = LoadOrder[n] => k = n
    BY <1>1
  <2>2. {j \in 1..6 : \A k \in 1..6 : LoadOrder[k] = LoadOrder[n] => j < k} = 1..(n - 1)
    BY <2>1
  <2>. QED  BY <1>1, <2>2 DEF Made
<1>3. /\ {LoadOrder[i] : i \in 1..(1 - 1)} = {} /\ {LoadOrder[i] : i \in 1..(2 - 1)} = {LoadOrder[1]}
      /\ {LoadOrder[i] : i \in 1..(3 - 1)} = {LoadOrder[1], LoadOrder[2]}
  OBVIOUS
<1>4. ASSUME NEW n \in {4, 5, 6}
      PROVE  LoadOrder[2] \in Made(LoadOrder[n]) /\ LoadOrder[3] \in Made(LoadOrder[n])
  BY <1>2
<1>. QED  BY <1>1, <1>2, <1>3, <1>4

\* A query of load_run: the report is read before the events, of the same result or of none.
LEMMA QuerySummarized ==
    ASSUME ReplayTypeOK, WholeInv, NEW q \in Readers, ReaderOK(reader[q]), Summarized(reader[q]), Query(q),
           NEW x, x = reader'[q]
    PROVE  Summarized(x)'
<1>. DEFINE name == reader[q].point
            value == IF name = "record" THEN [config |-> config, status |-> run.status] ELSE run[name]
<1>1. /\ name \in Range(LoadOrder) /\ UNCHANGED <<scenario, build, run>>
      /\ reader' = [reader EXCEPT ![q] =
             IF Stored THEN [@ EXCEPT !.point = After(name), !.got = With(reader[q].got, name, value)] ELSE Gone]
  BY DEF Query
<1>2. Run(1)' = Run(1)
  BY <1>1 DEF Run, config
<1>3. CASE ~Stored
  <2>1. x = Gone
    BY <1>1, <1>3 DEF ReplayTypeOK
  <2>2. x.point = "over"
    BY <2>1 DEF Gone, Idle
  <2>. QED  BY <2>2, Queried DEF Summarized, Reading
<1>4. CASE Stored
  <2>1. x = [reader[q] EXCEPT !.point = After(name), !.got = With(reader[q].got, name, value)]
    BY <1>1, <1>4 DEF ReplayTypeOK
  <2>. HIDE DEF value
  <2>2. x.got = With(reader[q].got, name, value)
    BY <2>1 DEF ReplayTypeOK, Idle
  <2>3. DOMAIN reader[q].got = Made(name)
    BY <1>1 DEF ReaderOK, Reading
  <2>4. /\ DOMAIN x.got = Made(name) \cup {name} /\ x.got[name] = value
        /\ \A k \in Made(name) : k # name => x.got[k] = reader[q].got[k]
    BY <2>2, <2>3 DEF With
  <2>5. /\ Made("report") = {"record"} /\ Made("record") = {}
        /\ name \in {"snapshots", "accounts", "logs"} => "report" \in Made(name) /\ "events" \in Made(name)
        /\ Made("events") = {"record", "report"}
    BY <1>1, QueriesMade
  <2>. SUFFICES ASSUME build = 1
                PROVE  "report" \in DOMAIN x.got =>
                    /\ "events" \in DOMAIN x.got => x.got.events \in {NewRun.events, Run(1).events}
                    /\ \/ x.got.report = NewRun.report
                       \/ /\ x.got.report = Run(1).report /\ Holds(1)
                          /\ "events" \in DOMAIN x.got => x.got.events = Run(1).events
    BY <1>1, <1>2 DEF Summarized, Holds
  <2>6. CASE name = "record"
    BY <2>4, <2>5, <2>6
  <2>7. CASE name \in {"report", "events"}
    <3>1. value = run[name]
      BY <2>7 DEF value
    <3>2. (\A k \in Kinds : run[k] = NewRun[k]) \/ Holds(1)
      BY ScenariosAssumption DEF WholeInv
    <3>3. CASE name = "report"
      BY <2>4, <2>5, <3>1, <3>2, <3>3 DEF Holds, Kinds
    <3>4. CASE name = "events"
      <4>1. x.got.events \in {NewRun.events, Run(1).events} /\ (Holds(1) => x.got.events = Run(1).events)
        BY <2>4, <3>1, <3>2, <3>4 DEF Holds, Kinds
      <4>2. x.got.report = reader[q].got.report /\ "report" \in DOMAIN reader[q].got
        BY <2>3, <2>4, <2>5, <3>4
      <4>. QED  BY <1>1, <1>4, <4>1, <4>2 DEF Summarized, Reading
    <3>. QED  BY <2>7, <3>3, <3>4
  <2>8. CASE name \in {"snapshots", "accounts", "logs"}
    <3>1. /\ x.got.report = reader[q].got.report /\ "report" \in DOMAIN reader[q].got
          /\ x.got.events = reader[q].got.events /\ "events" \in DOMAIN reader[q].got
      BY <2>3, <2>4, <2>5, <2>8
    <3>. QED  BY <1>1, <1>4, <3>1 DEF Summarized, Reading
  <2>. QED  BY <1>1, <2>6, <2>7, <2>8, Queried
<1>. QED  BY <1>3, <1>4

\* The events and the report that one build stores.
LEMMA ResultCounts ==
    ASSUME ReplayTypeOK, NEW b \in 1..build
    PROVE  \E raw : Serialized(raw, Run(b).events) /\ ReportOf(Run(b).report, raw)
<1>1. b \in 1..Len(scenario.tapes) /\ scenario \in Scenarios
  BY ScenariosAssumption, ListShape DEF ReplayTypeOK, IsList
<1>2. config.steps \in Nat /\ IsList(config.symbols) /\ IsTape(config, scenario.tapes[b])
  BY <1>1, ScenariosAssumption, ListShape DEF config, IsList
<1>. QED  BY <1>2, StoredEvents, ReportCounts DEF Run

\* The answer of summarize_run and get_replay_summary.
LEMMA AnswerRecounts ==
    ASSUME ReplayTypeOK, NEW q \in Readers, ReaderOK(reader[q]), Summarized(reader[q]), AnswerSummary(q),
           NEW x, x = reader'[q],
           x.answer.summary.status = "completed" \/ build = 1
    PROVE  x.point = "done" /\ x.purpose = "summary" /\ Recounts(x.answer)
<1>. DEFINE a == reader[q].got
            answer == [summary |-> summarize_run(a), events |-> a.events, found |-> replay_run(a),
                       replay |-> get_replay_summary(a, run.verification)]
<1>1. x = [Idle EXCEPT !.point = "done", !.purpose = "summary", !.answer = answer]
  BY DEF AnswerSummary, ReplayTypeOK
<1>2. x.point = "done" /\ x.purpose = "summary" /\ x.answer = answer
  BY <1>1 DEF Idle
<1>3. Reading(reader[q]) /\ DOMAIN a = Range(LoadOrder)
  <2>1. reader[q].point = "loaded"
    BY DEF AnswerSummary, Answers
  <2>. QED  BY <2>1, Queried DEF ReaderOK, Reading
<1>4. {"record", "report", "events"} \subseteq DOMAIN a
  BY <1>3, Queried
<1>5. answer.summary.status = a.record.status
  BY DEF summarize_run
<1>. HIDE DEF a
<1>6. \/ \E b \in 1..build : a.report = Run(b).report /\ a.events = Run(b).events
      \/ a.report = NewRun.report /\ a.events \in {NewRun.events, Run(1).events} /\ build = 1
  <2>1. CASE a.record.status = "completed"
    BY <1>3, <1>4, <2>1 DEF ReaderOK, Kinds, a
  <2>2. CASE build = 1
    <3>1. 1 \in 1..build
      BY <2>2
    <3>. QED  BY <1>3, <1>4, <2>2, <3>1 DEF Summarized, a
  <2>. QED  BY <1>2, <1>5, <2>1, <2>2
<1>7. /\ IsList(a.events)
      /\ a.report = NewRun.report \/ \E raw : Serialized(raw, a.events) /\ ReportOf(a.report, raw)
  <2>1. CASE \E b \in 1..build : a.report = Run(b).report /\ a.events = Run(b).events
    BY <2>1, ResultCounts DEF Serialized, IsList
  <2>2. CASE a.report = NewRun.report /\ a.events \in {NewRun.events, Run(1).events} /\ build = 1
    <3>1. IsList(<<>>) /\ NewRun.events = <<>>
      BY EmptySeq DEF IsList, NewRun
    <3>2. IsList(Run(1).events)
      BY <2>2, ResultCounts DEF Serialized, IsList
    <3>. QED  BY <2>2, <3>1, <3>2
  <2>. QED  BY <1>6, <2>1, <2>2
<1>8. /\ answer.summary = summarize_run(a) /\ answer.events = a.events
      /\ answer.replay = get_replay_summary(a, run.verification)
  OBVIOUS
<1>. HIDE DEF answer
<1>9. Recounts(answer)
  <2>1. PICK b, v, w : b = a /\ v = run.verification /\ w = answer
    OBVIOUS
  <2>. QED  BY <1>7, <1>8, <2>1, SummarySound
<1>. QED  BY <1>2, <1>9

\* What a reader that has its summary was told.
LEMMA SummaryInit == Init => SummaryInv
<1>. SUFFICES ASSUME Init PROVE SummaryInv
  OBVIOUS
<1>1. \A r \in Readers : reader[r].point = "idle"
  BY DEF Init, Idle
<1>2. "idle" \notin Range(LoadOrder)
  BY Queried
<1>. QED  BY <1>1, <1>2, VerdictInit, WholeInit DEF SummaryInv, Summarized, Reading, SummaryRecounts

Told(x) == x.point = "done" /\ x.purpose = "summary" /\ (x.answer.summary.status = "completed" \/ build = 1)
           => Recounts(x.answer)

LEMMA SummaryNext ==
    ASSUME SummaryInv, [Next]_vars
    PROVE  SummaryInv'
<1>. USE DEF SummaryInv
<1>1. VerdictInv' /\ WholeInv' /\ ReplayTypeOK /\ ReplayTypeOK'
  BY VerdictNext, WholeNext DEF VerdictInv
<1>2. ASSUME NEW q \in Readers, NEW x, x = reader'[q]
      PROVE  Summarized(x)' /\ Told(x)'
  <2>1. build' = 1 => build = 1
    <3>1. build \in Nat \ {0}
      BY <1>1, ScenariosAssumption, ListShape DEF ReplayTypeOK, IsList
    <3>. QED  BY <3>1, ScenarioStays
  <2>2. CASE x = reader[q]
    <3>1. Summarized(x) /\ Told(x)
      BY <2>2 DEF SummaryRecounts, Told
    <3>2. Summarized(x)'
      BY <1>1, <3>1, SummarizedStays
    <3>3. Told(x)'
      BY <2>1, <3>1 DEF Told
    <3>. QED  BY <3>2, <3>3
  <2>3. CASE Plain(x)
    <3>1. Idle.got = [k \in {} |-> None] /\ DOMAIN Idle.got = {}
      BY DEF Idle
    <3>. QED  BY <2>3, <3>1, Queried DEF Plain, Summarized, Reading, Told
  <2>4. CASE Query(q)
    <3>1. ReaderOK(reader[q])
      BY DEF VerdictInv, ReaderInv
    <3>2. Summarized(x)'
      BY <1>1, <1>2, <2>4, <3>1, QuerySummarized
    <3>3. x.point # "done"
      <4>1. reader[q].point \in Range(LoadOrder)
        BY <2>4 DEF Query
      <4>2. x = Gone \/ x = [reader[q] EXCEPT !.point = After(reader[q].point), !.got = x.got]
        <5>. DEFINE name == reader[q].point
                    value == IF name = "record" THEN [config |-> config, status |-> run.status] ELSE run[name]
        <5>1. x = IF Stored
                  THEN [reader[q] EXCEPT !.point = After(name), !.got = With(reader[q].got, name, value)]
                  ELSE Gone
          BY <1>1, <1>2, <2>4 DEF Query, ReplayTypeOK
        <5>. HIDE DEF value
        <5>. QED  BY <1>1, <5>1 DEF ReplayTypeOK, Idle
      <4>3. x.point \in {"over", After(reader[q].point)}
        BY <1>1, <4>2 DEF Gone, Idle, ReplayTypeOK
      <4>. QED  BY <4>1, <4>3, Queried
    <3>. QED  BY <3>2, <3>3 DEF Told
  <2>5. CASE AnswerSummary(q)
    <3>1. ReaderOK(reader[q])
      BY DEF VerdictInv, ReaderInv
    <3>2. x.answer.summary.status = "completed" \/ build = 1 => Recounts(x.answer)
      BY <1>1, <1>2, <2>5, <3>1, AnswerRecounts
    <3>3. x.point = "done"
      BY <1>1, <1>2, <2>5 DEF AnswerSummary, ReplayTypeOK, Idle
    <3>. QED  BY <2>1, <3>2, <3>3, Queried DEF Told, Summarized, Reading
  <2>. QED  BY <1>1, <1>2, <2>2, <2>3, <2>4, <2>5, ReaderMoves
<1>3. ASSUME NEW q \in Readers
      PROVE  Summarized(reader[q])' /\ Told(reader[q])'
  <2>1. PICK x : x = reader'[q]
    OBVIOUS
  <2>2. Summarized(x)' /\ Told(x)'
    BY <1>2, <2>1
  <2>. QED  BY <2>1, <2>2 DEF Summarized, Told, Reading
<1>4. SummaryRecounts'
  BY <1>3 DEF SummaryRecounts, Told
<1>. QED  BY <1>1, <1>3, <1>4

\* The totals of a summary are those of the events that were read with it, for every run, of
\* any number of events, of any builds: load_run reads the report before the events, and
\* what attempts, requests, crashes and deployments do between its queries does not part them.
THEOREM SummaryAlwaysRecounts == Spec => []SummaryRecounts
<1>1. SummaryInv => SummaryRecounts
  BY DEF SummaryInv
<1>. QED  BY <1>1, SummaryInit, SummaryNext, PTL DEF Spec

-----------------------------------------------------------------------------
(* Paging: the steps of what is stored.                                    *)

\* No event of the engine has a step of its own.
LEMMA NoEventStep ==
    ASSUME NEW e, e.type \in TesEngineEvent, NEW symbol
    PROVE  "step" \notin DOMAIN parse_event(event_to_py(e, symbol)).data
<1>. DEFINE raw == event_to_py(e, symbol)
            keys == IF e.type \in DOMAIN OrderData THEN OrderData[e.type] ELSE MarketData[e.type]
<1>1. \A type \in DOMAIN OrderData : "step" \notin OrderData[type]
  BY DEF OrderData
<1>2. \A type \in DOMAIN MarketData : "step" \notin MarketData[type]
  BY DEF MarketData
<1>3. "step" \notin keys
  BY <1>1, <1>2 DEF TesEngineEvent
<1>4. DOMAIN raw = {"type", "data"} /\ DOMAIN raw.data = keys \cup {"symbol"}
  BY DEF event_to_py
<1>. HIDE DEF raw, keys
<1>5. DOMAIN parse_event(raw).data = DOMAIN raw.data \cup {"symbol"}
  BY <1>4 DEF parse_event
<1>. QED  BY <1>3, <1>4, <1>5 DEF raw

\* What parse_events takes of an answer.
AnswerShape(answer) ==
    /\ IsList(answer.halt) /\ IsList(answer.commands) /\ IsList(answer.uncross)
    /\ \A c \in DOMAIN answer.commands : IsList(answer.commands[c].events)
CommandEvents(answer) == [c \in DOMAIN answer.commands |-> answer.commands[c].events]

LEMMA KnownTypes ==
    ASSUME NEW cfg, NEW tape, Readable(cfg, tape), NEW i \in DOMAIN tape, NEW answer, answer = tape[i],
           AnswerShape(answer),
           NEW parts, parts = CommandEvents(answer), NEW all, all = FlattenSeq(parts)
    PROVE  /\ parts \in Seq(Range(parts)) /\ \A c \in DOMAIN parts : parts[c] \in Seq(Range(parts[c]))
           /\ all \in Seq(Range(all))
           /\ \A e \in Range(answer.halt) \cup Range(answer.uncross) \cup Range(all) : e.type \in TesEngineEvent
<1>. USE DEF AnswerShape, CommandEvents
<1>1. parts \in Seq(Range(parts)) /\ \A c \in DOMAIN parts : parts[c] \in Seq(Range(parts[c]))
  BY MappedList DEF IsList
<1>2. all \in Seq(Range(all))
  BY <1>1, FlattenedList
<1>3. PICK halt, uncross : halt = answer.halt /\ uncross = answer.uncross
  OBVIOUS
<1>4. PICK front, answers : front = halt \o uncross /\ answers = front \o all
  OBVIOUS
<1>5. halt \in Seq(Range(halt)) /\ uncross \in Seq(Range(uncross))
  BY <1>3 DEF IsList
<1>6. front \in Seq(Range(front)) /\ Range(front) = Range(halt) \cup Range(uncross)
  BY <1>4, <1>5, ConcatShape
<1>7. Range(answers) = Range(front) \cup Range(all)
  BY <1>2, <1>4, <1>6, ConcatShape
<1>8. \A j \in DOMAIN answers : Parses(event_to_py(answers[j], DEFAULT_SYMBOL))
  BY <1>3, <1>4 DEF Readable
<1>9. ASSUME NEW e \in Range(answers) PROVE e.type \in TesEngineEvent
  <2>1. PICK j \in DOMAIN answers : e = answers[j]
    BY DEF Range
  <2>2. Parses(event_to_py(e, DEFAULT_SYMBOL))
    BY <1>8, <2>1
  <2>3. event_to_py(e, DEFAULT_SYMBOL).type = e.type
    BY DEF event_to_py
  <2>. QED  BY <2>2, <2>3 DEF Parses, ParsesOrder, ParsesMarket, TesEngineEvent
<1>. QED  BY <1>1, <1>2, <1>3, <1>6, <1>7, <1>9

LEMMA ParsedSteps ==
    ASSUME NEW answers, IsList(answers), \A e \in Range(answers) : e.type \in TesEngineEvent, NEW symbol
    PROVE  \A e \in Range(execute_command(answers, symbol)) : "step" \notin DOMAIN e.data
<1>1. ASSUME NEW e \in Range(execute_command(answers, symbol)) PROVE "step" \notin DOMAIN e.data
  <2>1. PICK j \in DOMAIN answers : e = parse_event(event_to_py(answers[j], symbol))
    BY DEF Range, execute_command
  <2>2. answers[j].type \in TesEngineEvent
    BY DEF Range
  <2>. QED  BY <2>1, <2>2, NoEventStep
<1>. QED  BY <1>1

\* What is flattened has what the lists have.
LEMMA FlattenKeeps ==
    ASSUME NEW n \in Nat, NEW raws, raws = [i \in 1..n |-> raws[i]], NEW T,
           \A i \in 1..n : raws[i] \in Seq(Range(raws[i])) /\ Range(raws[i]) \subseteq T
    PROVE  Range(FlattenSeq(raws)) \subseteq T
<1>. DEFINE R == {<<e, e>> : e \in T}
<1>1. ASSUME NEW i \in 1..n PROVE Related(raws[i], raws[i], R)
  <2>1. \A j \in DOMAIN raws[i] : raws[i][j] \in T
    BY DEF Range
  <2>. QED  BY <2>1 DEF Related
<1>. HIDE DEF R
<1>2. Related(FlattenSeq(raws), FlattenSeq(raws), R)
  BY <1>1, FlattenRelated
<1>3. \A e : <<e, e>> \in R => e \in T
  BY DEF R
<1>. QED  BY <1>2, <1>3 DEF Related, Range

LEMMA RawSteps ==
    ASSUME NEW cfg, NEW tape, cfg.steps \in Nat, IsList(cfg.symbols), IsTape(cfg, tape), Readable(cfg, tape)
    PROVE  \A e \in Range(RawEvents(cfg, tape)) : "step" \notin DOMAIN e.data
<1>1. CASE cfg.run_type = "session"
  <2>. DEFINE visits == Visits(cfg)
              raws == [i \in DOMAIN visits |-> VisitEvents(tape[i], visits[i].symbol)]
  <2>1. PICK n \in Nat : DOMAIN visits = 1..n /\ DOMAIN tape = 1..n
    <3>1. cfg.steps * Len(cfg.symbols) \in Nat
      BY ListShape DEF IsList
    <3>2. DOMAIN tape = 1..(cfg.steps * Len(cfg.symbols))
      BY <1>1, ListShape DEF IsTape, IsList
    <3>. QED  BY <3>1, <3>2 DEF Visits
  <2>. HIDE DEF visits
  <2>2. ASSUME NEW i \in 1..n
        PROVE  raws[i] \in Seq(Range(raws[i])) /\ \A e \in Range(raws[i]) : "step" \notin DOMAIN e.data
    <3>1. PICK symbol, parts, all : /\ symbol = visits[i].symbol
                                    /\ parts = CommandEvents(tape[i])
                                    /\ all = FlattenSeq(parts)
      OBVIOUS
    <3>2. PICK halt, uncross : halt = tape[i].halt /\ uncross = tape[i].uncross
      OBVIOUS
    <3>3. /\ all \in Seq(Range(all)) /\ halt \in Seq(Range(halt)) /\ uncross \in Seq(Range(uncross))
          /\ \A e \in Range(halt) \cup Range(uncross) \cup Range(all) : e.type \in TesEngineEvent
      <4>1. PICK answer : answer = tape[i]
        OBVIOUS
      <4>2. AnswerShape(answer)
        BY <2>1, <4>1 DEF IsTape, AnswerShape
      <4>3. all \in Seq(Range(all)) /\ \A e \in Range(answer.halt) \cup Range(answer.uncross) \cup Range(all) :
                                         e.type \in TesEngineEvent
        BY <2>1, <3>1, <4>1, <4>2, KnownTypes
      <4>. QED  BY <3>2, <4>1, <4>2, <4>3 DEF IsList, AnswerShape
    <3>4. PICK front, answers : front = halt \o all /\ answers = front \o uncross
      OBVIOUS
    <3>5. front \in Seq(Range(front)) /\ Range(front) = Range(halt) \cup Range(all)
      BY <3>3, <3>4, ConcatShape
    <3>6. answers \in Seq(Range(answers)) /\ Range(answers) = Range(front) \cup Range(uncross)
      BY <3>3, <3>4, <3>5, ConcatShape
    <3>7. raws[i] = execute_command(answers, symbol)
      BY <2>1, <3>1, <3>2, <3>4 DEF VisitEvents, CommandEvents
    <3>. QED  BY <3>3, <3>5, <3>6, <3>7, ParsedSteps, ParsedEvents DEF IsList
  <2>3. RawEvents(cfg, tape) = FlattenSeq(raws)
    BY <1>1 DEF RawEvents, visits
  <2>4. raws = [i \in 1..n |-> raws[i]]
    BY <2>1
  <2>. HIDE DEF raws
  <2>. DEFINE R == {e \in UNION {Range(raws[i]) : i \in 1..n} : "step" \notin DOMAIN e.data}
  <2>5. \A i \in 1..n : Range(raws[i]) \subseteq R
    BY <2>2
  <2>6. \A e \in R : "step" \notin DOMAIN e.data
    OBVIOUS
  <2>. HIDE DEF R
  <2>. QED  BY <2>2, <2>3, <2>4, <2>5, <2>6, FlattenKeeps
<1>2. CASE cfg.run_type # "session"
  <2>. DEFINE raws == [i \in DOMAIN tape |-> execute_command(tape[i].commands[1].events, DEFAULT_SYMBOL)]
  <2>1. PICK n \in Nat : DOMAIN tape = 1..n
    BY ListShape DEF IsTape, IsList
  <2>2. ASSUME NEW i \in 1..n
        PROVE  raws[i] \in Seq(Range(raws[i])) /\ \A e \in Range(raws[i]) : "step" \notin DOMAIN e.data
    <3>1. PICK parts, all : parts = CommandEvents(tape[i]) /\ all = FlattenSeq(parts)
      OBVIOUS
    <3>2. /\ parts \in Seq(Range(parts)) /\ \A c \in DOMAIN parts : parts[c] \in Seq(Range(parts[c]))
          /\ \A e \in Range(all) : e.type \in TesEngineEvent
      <4>1. PICK answer : answer = tape[i]
        OBVIOUS
      <4>2. AnswerShape(answer)
        BY <2>1, <4>1 DEF IsTape, AnswerShape
      <4>. QED  BY <2>1, <3>1, <4>1, <4>2, KnownTypes
    <3>3. 1 \in DOMAIN tape[i].commands
      BY <1>2, <2>1, ListShape DEF IsTape, IsList
    <3>4. PICK answers : answers = parts[1] /\ answers = tape[i].commands[1].events
      BY <3>1, <3>3 DEF CommandEvents
    <3>5. Range(answers) \subseteq Range(all) /\ IsList(answers)
      BY <3>1, <3>2, <3>3, <3>4, FlattenHas DEF IsList, CommandEvents
    <3>6. raws[i] = execute_command(answers, DEFAULT_SYMBOL)
      BY <2>1, <3>4
    <3>. QED  BY <3>2, <3>5, <3>6, ParsedSteps, ParsedEvents DEF IsList
  <2>3. RawEvents(cfg, tape) = FlattenSeq(raws)
    BY <1>2 DEF RawEvents
  <2>4. raws = [i \in 1..n |-> raws[i]]
    BY <2>1
  <2>. HIDE DEF raws
  <2>. DEFINE R == {e \in UNION {Range(raws[i]) : i \in 1..n} : "step" \notin DOMAIN e.data}
  <2>5. \A i \in 1..n : Range(raws[i]) \subseteq R
    BY <2>2
  <2>6. \A e \in R : "step" \notin DOMAIN e.data
    OBVIOUS
  <2>. HIDE DEF R
  <2>. QED  BY <2>2, <2>3, <2>4, <2>5, <2>6, FlattenKeeps
<1>. QED  BY <1>1, <1>2

\* What _entry_step finds in a payload that has a step, and in one that has none.
LEMMA StepFound ==
    ASSUME NEW payload
    PROVE  /\ "step" \in DOMAIN payload /\ payload.step \in Int => _entry_step(payload) = payload.step
           /\ "step" \notin DOMAIN payload /\ ("data" \in DOMAIN payload => "step" \notin DOMAIN payload.data)
                  => _entry_step(payload) = None
<1>1. ASSUME "step" \in DOMAIN payload, payload.step \in Int
      PROVE  _entry_step(payload) = payload.step
  BY <1>1, NoneAssumption DEF _entry_step, Get
<1>2. ASSUME "step" \notin DOMAIN payload, "data" \in DOMAIN payload => "step" \notin DOMAIN payload.data
      PROVE  _entry_step(payload) = None
  <2>1. "step" \notin DOMAIN _event_data(payload)
    BY <1>2 DEF _event_data
  <2>2. Get(payload, "step") = None /\ Get(_event_data(payload), "step") = None
    BY <1>2, <2>1 DEF Get
  <2>. QED  BY <2>2 DEF _entry_step
<1>. QED  BY <1>1, <1>2

\* The steps of a result that store_result was given.
LEMMA StoredDated ==
    ASSUME ReplayTypeOK, NEW b \in 1..build, Readable(config, scenario.tapes[b]),
           NEW c \in {"events", "snapshots", "accounts"}
    PROVE  Dated(c, Run(b)[c])
<1>1. b \in 1..Len(scenario.tapes) /\ scenario \in Scenarios
  BY ScenariosAssumption, ListShape DEF ReplayTypeOK, IsList
<1>2. config.steps \in Nat /\ IsList(config.symbols) /\ IsTape(config, scenario.tapes[b])
  BY <1>1, ScenariosAssumption, ListShape DEF config, IsList
<1>3. PICK list : list = Run(b)[c]
  OBVIOUS
<1>4. Shaped(c, list)
  BY <1>1, <1>3, ShapedRun
<1>5. ASSUME NEW i \in DOMAIN list
      PROVE  _entry_step(list[i]) \in IF c = "snapshots" THEN Nat ELSE Int \cup {None}
  <2>1. CASE c = "snapshots"
    <3>1. "step" \in DOMAIN list[i] /\ list[i].step \in Nat
      BY <1>4, <1>5, <2>1 DEF Shaped, SnapshotShape
    <3>. QED  BY <2>1, <3>1, StepFound
  <2>2. CASE c = "accounts"
    <3>1. "step" \notin DOMAIN list[i] /\ "data" \notin DOMAIN list[i]
      BY <1>4, <1>5, <2>2 DEF Shaped, AccountShape
    <3>. QED  BY <2>2, <3>1, StepFound
  <2>3. CASE c = "events"
    <3>1. PICK raw : raw = RawEvents(config, scenario.tapes[b])
      OBVIOUS
    <3>2. Serialized(raw, list)
      BY <1>2, <1>3, <2>3, <3>1, StoredEvents DEF Run
    <3>3. i \in DOMAIN raw
      BY <1>5, <3>2, ListShape DEF Serialized
    <3>4. PICK e : e = raw[i]
      OBVIOUS
    <3>5. Parsed(e) /\ list[i] = serialize_event(e) /\ e \in Range(raw)
      BY <3>2, <3>3, <3>4 DEF Serialized, Range
    <3>6. "step" \notin DOMAIN e.data
      BY <1>2, <3>1, <3>5, RawSteps
    <3>7. DOMAIN list[i] = {"type", "data"}
      BY <3>5, SerializedEvent
    <3>8. DOMAIN list[i].data \subseteq DOMAIN e.data
      BY <3>5 DEF serialize_event, Parsed
    <3>9. _entry_step(list[i]) = None
      BY <3>6, <3>7, <3>8, StepFound
    <3>. QED  BY <2>3, <3>9
  <2>. QED  BY <2>1, <2>2, <2>3
<1>. QED  BY <1>3, <1>4, <1>5 DEF Dated, Shaped, IsList

LEMMA LogStep ==
    ASSUME NEW level, NEW type, NEW step \in Int \cup {None}
    PROVE  _entry_step(Log(level, type, step)) \in Int \cup {None}
<1>. PICK log : log = Log(level, type, step)
  OBVIOUS
<1>1. DOMAIN log = {"level", "type", "step"} /\ log.step = step
  BY DEF Log
<1>2. CASE step \in Int
  BY <1>1, <1>2, StepFound
<1>3. CASE step = None
  <2>1. "step" \notin DOMAIN _event_data(log)
    BY <1>1 DEF _event_data
  <2>2. Get(log, "step") = None /\ Get(_event_data(log), "step") = None
    BY <1>1, <1>3, <2>1 DEF Get
  <2>. QED  BY <2>2 DEF _entry_step
<1>. QED  BY <1>2, <1>3

LEMMA DatedOne ==
    ASSUME NEW e, _entry_step(e) \in Int \cup {None}
    PROVE  Dated("logs", <<e>>)
<1>. PICK s : s = <<e>>
  OBVIOUS
<1>1. s \in Seq(Range(s)) /\ DOMAIN s = 1..1 /\ s[1] = e
  BY DEF Range
<1>2. ASSUME NEW i \in DOMAIN s PROVE s[i] = e
  BY <1>1
<1>. QED  BY <1>1, <1>2, Zenon DEF Dated, IsList

\* Two lists of logs, one after the other.
LEMMA DatedConcat ==
    ASSUME NEW s, Dated("logs", s), NEW t, Dated("logs", t)
    PROVE  Dated("logs", s \o t)
<1>1. s \o t \in Seq(Range(s \o t)) /\ Range(s \o t) = Range(s) \cup Range(t)
  BY ConcatShape DEF Dated, IsList
<1>2. \A e \in Range(s) \cup Range(t) : _entry_step(e) \in Int \cup {None}
  BY DEF Dated, Range
<1>3. \A i \in DOMAIN (s \o t) : (s \o t)[i] \in Range(s \o t)
  BY DEF Range
<1>. QED  BY <1>1, <1>2, <1>3 DEF Dated, IsList

\* What an execution publishes.
LEMMA LogsDated ==
    ASSUME ReplayTypeOK
    PROVE  Dated("logs", ExecutionLogs)
<1>. DEFINE tape == scenario.tapes[build]
            P == ProgressSteps(config, tape)
            steps == Ascending(P)
            snapshots == IF config.stream_snapshots THEN Run(build).snapshots ELSE <<>>
            progress == [i \in DOMAIN steps |-> Log("progress", "progress", steps[i])]
            frames == [i \in DOMAIN snapshots |-> Log("snapshot", "snapshot", snapshots[i].step)]
<1>1. build \in 1..Len(scenario.tapes) /\ scenario \in Scenarios
  BY DEF ReplayTypeOK
<1>2. config.steps \in Nat /\ IsTape(config, tape)
  BY <1>1, ScenariosAssumption, ListShape DEF config, IsList
<1>3. Dated("logs", progress)
  <2>1. IsFiniteSet(P) /\ Numbers(P)
    <3>1. PICK last \in Nat : last = IF config.run_type = "session" THEN config.steps ELSE Len(tape)
      BY <1>2, ListShape DEF IsTape, IsList
    <3>2. P \subseteq 1..last
      BY <3>1 DEF ProgressSteps
    <3>3. IsFiniteSet(1..last)
      BY FS_Interval
    <3>. QED  BY <3>2, <3>3, FS_Subset DEF Numbers
  <2>2. PICK Q, order, m : Q = P /\ order = steps /\ m = Cardinality(Q)
    OBVIOUS
  <2>3. m \in Nat /\ order \in [1..m -> Q]
    BY <2>1, <2>2, AscendingNumbers
  <2>4. \A i \in 1..m : order[i] \in Int
    BY <2>1, <2>2, <2>3 DEF Numbers
  <2>5. progress = [i \in 1..m |-> Log("progress", "progress", order[i])]
    BY <2>2, <2>3
  <2>. HIDE DEF progress
  <2>6. progress \in Seq(Range(progress)) /\ DOMAIN progress = 1..m
    BY <2>3, <2>5, FunctionList
  <2>. QED  BY <2>4, <2>5, <2>6, LogStep DEF Dated, IsList
<1>4. Dated("logs", frames)
  <2>1. snapshots \in Seq(Range(snapshots)) /\ \A i \in DOMAIN snapshots : snapshots[i].step \in Nat
    <3>1. Shaped("snapshots", Run(build).snapshots)
      BY <1>1, ShapedRun
    <3>2. <<>> \in Seq(Range(<<>>)) /\ DOMAIN <<>> = {}
      BY EmptySeq
    <3>. QED  BY <3>1, <3>2 DEF Shaped, SnapshotShape
  <2>. HIDE DEF snapshots
  <2>2. frames \in Seq(Range(frames)) /\ DOMAIN frames = DOMAIN snapshots
    BY <2>1, MappedList
  <2>. QED  BY <2>1, <2>2, LogStep DEF Dated, IsList
<1>5. Dated("logs", <<Log("status", "run_started", None)>>)
  BY LogStep, DatedOne
<1>6. ExecutionLogs = <<Log("status", "run_started", None)>> \o progress \o frames
  BY DEF ExecutionLogs
<1>. HIDE DEF progress, frames
<1>7. Dated("logs", <<Log("status", "run_started", None)>> \o progress)
  BY <1>3, <1>5, DatedConcat
<1>. QED  BY <1>4, <1>6, <1>7, DatedConcat

RunDated == \A c \in Range(Categories) : Dated(c, run[c]) /\ (Stored \/ run[c] = <<>>)
TodoDated == \A t \in DOMAIN thread : Dated("logs", thread[t].todo)

LEMMA NamedCategories ==
    /\ Categories[1] = "events" /\ Categories[2] = "snapshots" /\ Categories[3] = "accounts"
    /\ Categories[4] = "logs" /\ DOMAIN Categories = 1..4
    /\ Range(Categories) = {"events", "snapshots", "accounts", "logs"}
<1>1. DOMAIN Categories = 1..4
  BY DEF Categories
<1>2. /\ Categories[1] = "events" /\ Categories[2] = "snapshots" /\ Categories[3] = "accounts"
      /\ Categories[4] = "logs"
  BY DEF Categories
<1>. QED  BY <1>1, <1>2 DEF Range

LEMMA DatedNothing == \A c : Dated(c, <<>>)
BY EmptySeq DEF Dated, IsList

LEMMA DatedInit == Init => DatedInv
BY NamedCategories, DatedNothing DEF Init, DatedInv, NewRun, Waiting

\* What is stored has dates.
LEMMA RunDatedNext ==
    ASSUME ReplayTypeOK, ReplayTypeOK', RunDated, TodoDated, [Next]_vars
    PROVE  RunDated'
<1>. USE DEF ReplayTypeOK, Kinds
<1>1. ASSUME \A c \in Range(Categories) : run'[c] = run[c], Stored => Stored'
      PROVE  RunDated'
  BY <1>1 DEF RunDated
<1>2. ASSUME UNCHANGED run PROVE RunDated'
  BY <1>1, <1>2 DEF Stored
<1>3. CASE UNCHANGED vars \/ Ended
  BY <1>2, <1>3 DEF vars, Ended
<1>4. ASSUME NEW t \in DOMAIN thread, Open(t) \/ Start(t) \/ Fail(t) \/ Complete(t) \/ Crash(t)
      PROVE  RunDated'
  BY <1>1, <1>4, NamedCategories DEF Open, Start, Fail, Complete, Crash, SetStatus, Stored
<1>5. ASSUME NEW t \in DOMAIN thread, Publish(t)
      PROVE  RunDated'
  <2>1. CASE Stored
    <3>1. /\ run' = [run EXCEPT !.logs = Append(@, Head(thread[t].todo))] /\ thread[t].todo # <<>>
      BY <1>5, <2>1 DEF Publish, AppendLog
    <3>2. PICK todo, e : todo = thread[t].todo /\ e = Head(todo)
      OBVIOUS
    <3>3. _entry_step(e) \in Int \cup {None}
      <4>1. todo \in Seq(Range(todo)) /\ todo # <<>> /\ \A i \in DOMAIN todo : _entry_step(todo[i]) \in Int \cup {None}
        BY <3>1, <3>2 DEF TodoDated, Dated, IsList
      <4>2. e = todo[1] /\ 1 \in DOMAIN todo
        BY <3>2, <4>1, ListShape, EmptySeq
      <4>. QED  BY <4>1, <4>2
    <3>4. Dated("logs", run.logs)
      BY NamedCategories DEF RunDated
    <3>5. run'.logs = Append(run.logs, e)
      BY <3>1, <3>2
    <3>6. Dated("logs", Append(run.logs, e))
      <4>1. /\ Append(run.logs, e) \in Seq(Range(Append(run.logs, e)))
            /\ Range(Append(run.logs, e)) = Range(run.logs) \cup {e}
        BY <3>4, PrefixOfAppended DEF Dated, IsList
      <4>2. \A d \in Range(run.logs) \cup {e} : _entry_step(d) \in Int \cup {None}
        BY <3>3, <3>4 DEF Dated, Range
      <4>3. \A i \in DOMAIN Append(run.logs, e) : Append(run.logs, e)[i] \in Range(Append(run.logs, e))
        BY DEF Range
      <4>. QED  BY <4>1, <4>2, <4>3 DEF Dated, IsList
    <3>7. \A c \in Range(Categories) \ {"logs"} : run'[c] = run[c]
      BY <3>1, NamedCategories
    <3>8. Stored'
      BY <2>1, <3>1 DEF Stored
    <3>. QED  BY <3>5, <3>6, <3>7, <3>8 DEF RunDated
  <2>2. CASE ~Stored
    BY <1>2, <1>5, <2>2 DEF Publish, AppendLog
  <2>. QED  BY <2>1, <2>2
<1>6. ASSUME NEW t \in DOMAIN thread, StoreResult(t)
      PROVE  RunDated'
  <2>1. CASE Stored
    <3>1. /\ run' = [run EXCEPT !.report = Run(build).report, !.events = Run(build).events,
                                !.snapshots = Run(build).snapshots, !.accounts = Run(build).accounts]
          /\ Readable(config, scenario.tapes[build])
      BY <1>6, <2>1 DEF StoreResult, StoreArtifacts
    <3>2. build \in 1..build
      BY ScenariosAssumption, ListShape DEF IsList
    <3>3. \A c \in {"events", "snapshots", "accounts"} : run'[c] = Run(build)[c] /\ Dated(c, Run(build)[c])
      BY <3>1, <3>2, StoredDated
    <3>4. run'.logs = run.logs /\ run'.status = run.status
      BY <3>1
    <3>5. Stored'
      BY <2>1, <3>4 DEF Stored
    <3>. QED  BY <3>3, <3>4, <3>5, NamedCategories DEF RunDated
  <2>2. CASE ~Stored
    BY <1>2, <1>6, <2>2 DEF StoreResult, StoreArtifacts
  <2>. QED  BY <2>1, <2>2
<1>7. CASE CancelRead \/ CancelWrite
  BY <1>1, <1>7, NamedCategories DEF CancelRead, CancelWrite, SetStatus, Stored
<1>8. CASE DeleteRun
  <2>1. \A c \in Range(Categories) : run'[c] = <<>>
    BY <1>8, NamedCategories DEF DeleteRun, NewRun
  <2>. QED  BY <2>1, DatedNothing DEF RunDated
<1>9. CASE Deploy
  BY <1>2, <1>9 DEF Deploy
<1>10. ASSUME NEW r \in Readers,
             \/ \E purpose \in scenario.requests : Request(r, purpose)
             \/ Query(r) \/ AnswerRange(r) \/ AnswerTimeline(r) \/ AnswerSession(r) \/ AnswerFrame(r)
             \/ AnswerSummary(r) \/ AnswerVerify(r)
      PROVE  RunDated'
  BY <1>2, <1>10 DEF Request, Query, AnswerRange, AnswerTimeline, AnswerSession, AnswerFrame, AnswerSummary,
                     AnswerVerify, Deliver
<1>11. ASSUME NEW r \in Readers, StoreVerification(r)
      PROVE  RunDated'
  BY <1>1, <1>11, NamedCategories DEF StoreVerification, Stored
<1>. QED
  BY <1>3, <1>4, <1>5, <1>6, <1>7, <1>8, <1>9, <1>10, <1>11, Zenon DEF Next

\* So has what is going to be published.
LEMMA TodoDatedNext ==
    ASSUME ReplayTypeOK, ReplayTypeOK', RunDated, TodoDated, [Next]_vars
    PROVE  TodoDated'
<1>. USE DEF ReplayTypeOK
<1>1. ASSUME NEW t \in DOMAIN thread, thread' = [thread EXCEPT ![t] = thread'[t]], Dated("logs", thread'[t].todo)
      PROVE  TodoDated'
  <2>. SUFFICES ASSUME NEW u \in DOMAIN thread PROVE Dated("logs", thread'[u].todo)
    BY DEF TodoDated
  <2>1. CASE u = t
    BY <1>1, <2>1
  <2>2. CASE u # t
    <3>1. thread'[u] = thread[u]
      BY <1>1, <2>2
    <3>. QED  BY <3>1 DEF TodoDated
  <2>. QED  BY <2>1, <2>2
<1>2. CASE UNCHANGED thread
  BY <1>2 DEF TodoDated
<1>3. ASSUME NEW t \in DOMAIN thread, Open(t) \/ StoreResult(t)
      PROVE  TodoDated'
  <2>1. thread' = [thread EXCEPT ![t] = thread'[t]] /\ thread'[t].todo = thread[t].todo
    BY <1>3 DEF Open, StoreResult, StoreArtifacts
  <2>. QED  BY <1>1, <2>1 DEF TodoDated
<1>4. ASSUME NEW t \in DOMAIN thread, Start(t) \/ Fail(t) \/ Complete(t) \/ Crash(t)
      PROVE  TodoDated'
  <2>1. thread' = [thread EXCEPT ![t] = thread'[t]]
    BY <1>4 DEF Start, Fail, Complete, Crash
  <2>2. thread'[t].todo \in {ExecutionLogs, <<Log("error", "run_failed", None)>>,
                             <<Log("completed", "run_completed", None)>>, <<>>}
    BY <1>4 DEF Start, Fail, Complete, Crash, Over
  <2>. QED  BY <1>1, <2>1, <2>2, LogsDated, LogStep, DatedOne, DatedNothing
<1>5. ASSUME NEW t \in DOMAIN thread, Publish(t)
      PROVE  TodoDated'
  <2>1. PICK todo : todo = thread[t].todo
    OBVIOUS
  <2>2. thread' = [thread EXCEPT ![t] = thread'[t]] /\ thread'[t].todo \in {<<>>, Tail(todo)} /\ todo # <<>>
    BY <1>5, <2>1 DEF Publish, Over
  <2>3. todo \in Seq(Range(todo)) /\ \A i \in DOMAIN todo : _entry_step(todo[i]) \in Int \cup {None}
    BY <2>1 DEF TodoDated, Dated, IsList
  <2>4. PICK n \in Nat : n = Len(todo) /\ DOMAIN todo = 1..n /\ n # 0
    BY <2>2, <2>3, ListShape, EmptySeq
  <2>5. /\ Tail(todo) \in Seq(Range(todo)) /\ Len(Tail(todo)) = n - 1
        /\ \A i \in 1..(n - 1) : Tail(todo)[i] = todo[i + 1]
    BY <2>2, <2>3, <2>4, HeadTailProperties
  <2>6. n - 1 \in Nat /\ Tail(todo) = [i \in 1..(n - 1) |-> Tail(todo)[i]]
    BY <2>4, <2>5, LenProperties
  <2>7. PICK rest, m : rest = Tail(todo) /\ m = n - 1 /\ m \in Nat
    BY <2>6
  <2>8. rest \in Seq(Range(rest)) /\ DOMAIN rest = 1..m
    BY <2>6, <2>7, FunctionList
  <2>9. ASSUME NEW i \in 1..m PROVE _entry_step(rest[i]) \in Int \cup {None}
    <3>1. i + 1 \in DOMAIN todo /\ rest[i] = todo[i + 1]
      BY <2>4, <2>5, <2>7
    <3>. QED  BY <2>3, <3>1
  <2>10. Dated("logs", rest)
    BY <2>8, <2>9 DEF Dated, IsList
  <2>11. thread'[t].todo = <<>> \/ thread'[t].todo = rest
    BY <2>2, <2>7
  <2>12. Dated("logs", thread'[t].todo)
    BY <2>10, <2>11, DatedNothing, Zenon
  <2>. QED  BY <1>1, <2>2, <2>12
<1>6. CASE CancelRead
  <2>1. thread' = [thread EXCEPT ![Canceler] = thread'[Canceler]] /\ thread'[Canceler].todo = thread[Canceler].todo
    BY <1>6 DEF CancelRead
  <2>. QED  BY <1>1, <2>1 DEF TodoDated
<1>7. CASE CancelWrite
  <2>1. PICK warning : warning = [level |-> "warning", message |-> "run cancellation requested"]
    OBVIOUS
  <2>2. thread' = [thread EXCEPT ![Canceler] = thread'[Canceler]]
    BY <1>7 DEF CancelWrite
  <2>3. thread'[Canceler].todo \in {<<>>, <<warning, Log("status", "run_canceled", None)>>}
    BY <1>7, <2>1 DEF CancelWrite, Over
  <2>4. _entry_step(warning) = None
    <3>1. "step" \notin DOMAIN warning /\ "data" \notin DOMAIN warning
      BY <2>1
    <3>. QED  BY <3>1, StepFound
  <2>5. Dated("logs", <<warning, Log("status", "run_canceled", None)>>)
    <3>1. PICK log, s : log = Log("status", "run_canceled", None) /\ s = <<warning, log>>
      OBVIOUS
    <3>2. s = [i \in 1..2 |-> s[i]] /\ \A i \in 1..2 : s[i] \in {warning, log}
      BY <3>1
    <3>3. s \in Seq(Range(s)) /\ DOMAIN s = 1..2
      BY <3>2, FunctionList
    <3>4. _entry_step(log) \in Int \cup {None}
      BY <3>1, LogStep
    <3>. QED  BY <2>4, <3>1, <3>2, <3>3, <3>4 DEF Dated, IsList
  <2>. QED  BY <1>1, <2>2, <2>3, <2>5, DatedNothing
<1>8. CASE Deploy
  <2>1. ASSUME NEW t \in DOMAIN thread PROVE thread'[t].todo = <<>>
    BY <1>8 DEF Deploy, Waiting, Over
  <2>. QED  BY <2>1, DatedNothing DEF TodoDated
<1>9. CASE UNCHANGED vars \/ Ended \/ DeleteRun
  BY <1>2, <1>9 DEF vars, Ended, DeleteRun
<1>10. ASSUME NEW r \in Readers,
             \/ \E purpose \in scenario.requests : Request(r, purpose)
             \/ Query(r) \/ AnswerRange(r) \/ AnswerTimeline(r) \/ AnswerSession(r) \/ AnswerFrame(r)
             \/ AnswerSummary(r) \/ AnswerVerify(r) \/ StoreVerification(r)
      PROVE  TodoDated'
  BY <1>2, <1>10 DEF Request, Query, AnswerRange, AnswerTimeline, AnswerSession, AnswerFrame, AnswerSummary,
                     AnswerVerify, StoreVerification, Deliver
<1>. QED
  BY <1>3, <1>4, <1>5, <1>6, <1>7, <1>8, <1>9, <1>10, Zenon DEF Next

LEMMA DatedNext ==
    ASSUME ReplayTypeOK, ReplayTypeOK', DatedInv, [Next]_vars
    PROVE  DatedInv'
<1>1. DatedInv = (RunDated /\ TodoDated) /\ DatedInv' = (RunDated' /\ TodoDated')
  BY DEF DatedInv, RunDated, TodoDated
<1>. QED  BY <1>1, RunDatedNext, TodoDatedNext

-----------------------------------------------------------------------------
(* Paging: what a reader that pages has read and has yet to read.          *)

\* Logs are appended, a result is that of the build.
LEMMA RunGrows ==
    ASSUME ReplayTypeOK, ReplayTypeOK', DatedInv, [Next]_vars, build' = build, Stored'
    PROVE  /\ scenario' = scenario /\ Stored
           /\ IsPrefix(run.logs, run'.logs)
           /\ \A c \in {"events", "snapshots", "accounts"} : run'[c] = run[c] \/ run'[c] = Run(build)[c]
<1>1. scenario' = scenario /\ Stored /\ (Keeps \/ Holds(build)')
  BY ResultStays
<1>2. Run(build)' = Run(build)
  BY <1>1 DEF Run, config
<1>3. \A c \in {"events", "snapshots", "accounts"} : run'[c] = run[c] \/ run'[c] = Run(build)[c]
  BY <1>1, <1>2 DEF Keeps, Holds, Kinds
<1>. USE DEF ReplayTypeOK, Kinds
<1>4. run.logs \in Seq(Range(run.logs))
  BY NamedCategories DEF DatedInv, Dated, IsList
<1>5. run'.logs = run.logs \/ \E e : run'.logs = Append(run.logs, e)
  <2>1. CASE UNCHANGED vars \/ Ended
    BY <2>1 DEF vars, Ended
  <2>2. ASSUME NEW t \in DOMAIN thread,
               Open(t) \/ Start(t) \/ Publish(t) \/ Fail(t) \/ StoreResult(t) \/ Complete(t) \/ Crash(t)
        PROVE  run'.logs = run.logs \/ \E e : run'.logs = Append(run.logs, e)
    <3>1. CASE Publish(t)
      BY <3>1 DEF Publish, AppendLog
    <3>. QED  BY <2>2, <3>1 DEF Open, Start, Fail, StoreResult, StoreArtifacts, Complete, Crash, SetStatus
  <2>3. CASE CancelRead \/ CancelWrite \/ DeleteRun \/ Deploy
    BY <2>3 DEF CancelRead, CancelWrite, DeleteRun, Deploy, SetStatus, Stored, NewRun
  <2>4. ASSUME NEW r \in Readers,
               \/ \E purpose \in scenario.requests : Request(r, purpose)
               \/ Query(r) \/ AnswerRange(r) \/ AnswerTimeline(r) \/ AnswerSession(r) \/ AnswerFrame(r)
               \/ AnswerSummary(r) \/ AnswerVerify(r) \/ StoreVerification(r)
        PROVE  run'.logs = run.logs \/ \E e : run'.logs = Append(run.logs, e)
    BY <2>4 DEF Request, Query, AnswerRange, AnswerTimeline, AnswerSession, AnswerFrame, AnswerSummary,
                AnswerVerify, StoreVerification, Deliver
  <2>. QED  BY <2>1, <2>2, <2>3, <2>4, Zenon DEF Next
<1>6. IsPrefix(run.logs, run'.logs)
  <2>1. PICK logs : logs = run.logs
    OBVIOUS
  <2>2. IsPrefix(logs, logs) /\ \A e : IsPrefix(logs, Append(logs, e))
    BY <1>4, <2>1, PrefixSelf, PrefixOfAppended
  <2>. QED  BY <1>5, <2>1, <2>2
<1>. QED  BY <1>1, <1>3, <1>6

\* What a reader began with and has read.
Started(x) ==
    /\ DOMAIN x.began \subseteq Range(Categories)
    /\ \A c \in DOMAIN x.began : Dated(c, x.began[c]) /\ (Stored => Follows(x, c))
    /\ \A c \in Range(Categories) \cap DOMAIN x.got : Dated(c, x.got[c])

LEMMA PagedCategories == \A purpose : Paged(purpose) \subseteq Range(Categories)
BY NamedCategories DEF Paged

\* What has been read of an intact run is its beginning, and begins as it did.
LEMMA ReadBegins ==
    ASSUME NEW x, Started(x), Intact(x), NEW c \in DOMAIN x.began, c \in DOMAIN x.got
    PROVE  IsPrefix(x.began[c], x.got[c]) /\ IsPrefix(x.got[c], run[c])
<1>1. Follows(x, c) /\ IsPrefix(x.began[c], run[c]) /\ c \in Range(Categories)
  BY DEF Started, Intact
<1>2. x.began[c] \in Seq(Range(x.began[c])) /\ x.got[c] \in Seq(Range(x.got[c]))
  BY <1>1 DEF Started, Dated, IsList
<1>3. CASE c = "logs"
  BY <1>1, <1>3 DEF Follows
<1>4. CASE c # "logs"
  <2>1. x.got[c] = x.began[c] \/ run[c] = x.got[c]
    BY <1>1, <1>4 DEF Follows
  <2>. QED  BY <1>1, <1>2, <2>1, PrefixSelf
<1>. QED  BY <1>3, <1>4

\* A step that is not the reader's.
LEMMA StartedStays ==
    ASSUME ReplayTypeOK, ReplayTypeOK', DatedInv, DatedInv', [Next]_vars, build' = build, Stored',
           NEW x, Started(x)
    PROVE  /\ Started(x)'
           /\ Intact(x)' => Intact(x) /\ \A c \in DOMAIN x.began : IsPrefix(run[c], run'[c])
<1>1. /\ scenario' = scenario /\ Stored
      /\ IsPrefix(run.logs, run'.logs)
      /\ \A c \in {"events", "snapshots", "accounts"} : run'[c] = run[c] \/ run'[c] = Run(build)[c]
  BY RunGrows
<1>2. Run(build)' = Run(build)
  BY <1>1 DEF Run, config
<1>3. ASSUME NEW c \in DOMAIN x.began
      PROVE  /\ Follows(x, c)'
             /\ IsPrefix(x.began[c], run'[c]) => IsPrefix(x.began[c], run[c]) /\ IsPrefix(run[c], run'[c])
  <2>1. /\ c \in Range(Categories) /\ Follows(x, c)
        /\ x.began[c] \in Seq(Range(x.began[c])) /\ (c \in DOMAIN x.got => x.got[c] \in Seq(Range(x.got[c])))
    BY <1>1 DEF Started, Dated, IsList
  <2>2. run[c] \in Seq(Range(run[c])) /\ run'[c] \in Seq(Range(run'[c]))
    BY <2>1 DEF DatedInv, Dated, IsList
  <2>3. CASE c = "logs"
    <3>1. /\ IsPrefix(x.began[c], run[c]) /\ IsPrefix(run[c], run'[c])
          /\ c \in DOMAIN x.got => IsPrefix(x.began[c], x.got[c]) /\ IsPrefix(x.got[c], run[c])
      BY <1>1, <2>1, <2>3 DEF Follows
    <3>2. /\ IsPrefix(x.began[c], run'[c])
          /\ c \in DOMAIN x.got => IsPrefix(x.got[c], run'[c])
      BY <2>1, <2>2, <3>1, PrefixOfPrefix
    <3>. QED  BY <2>3, <3>1, <3>2 DEF Follows
  <2>4. CASE c # "logs"
    <3>1. run'[c] = run[c] \/ run'[c] = Run(build)[c]
      BY <1>1, <2>1, <2>4, NamedCategories
    <3>2. /\ run[c] \in {x.began[c], Run(build)[c]}
          /\ c \in DOMAIN x.got => x.got[c] = x.began[c] \/ (x.got[c] = Run(build)[c] /\ run[c] = x.got[c])
      BY <2>1, <2>4 DEF Follows
    <3>3. Follows(x, c)'
      BY <1>2, <2>4, <3>1, <3>2 DEF Follows
    <3>. QED  BY <2>1, <2>2, <3>1, <3>2, <3>3, PrefixSelf
  <2>. QED  BY <2>3, <2>4
<1>. QED  BY <1>1, <1>3 DEF Started, Intact

-----------------------------------------------------------------------------
(* Paging: the timeline.                                                   *)

\* What load_run returned, with steps in it.
Loaded(a) == \A c \in Range(Categories) : Dated(c, a[c])
At(a, k) == a[Categories[k]]

LEMMA LoadedLists ==
    ASSUME NEW a, Loaded(a), NEW k \in DOMAIN Categories
    PROVE  /\ Categories[k] \in Range(Categories) /\ k \in Int
           /\ At(a, k) \in Seq(Range(At(a, k)))
           /\ \A i \in DOMAIN At(a, k) : i \in Nat \ {0} /\ _entry_step(At(a, k)[i]) \in Int \cup {None}
<1>1. Categories[k] \in Range(Categories) /\ k \in Int
  BY DEF Categories, Range
<1>2. Dated(Categories[k], At(a, k))
  BY <1>1 DEF Loaded, At
<1>3. At(a, k) \in Seq(Range(At(a, k)))
  BY <1>2 DEF Dated, IsList
<1>4. DOMAIN At(a, k) = 1..Len(At(a, k)) /\ Len(At(a, k)) \in Nat
  BY <1>3, ListShape
<1>5. \A i \in DOMAIN At(a, k) : i \in Nat \ {0} /\ _entry_step(At(a, k)[i]) \in Int \cup {None}
  BY <1>2, <1>4 DEF Dated
<1>. QED  BY <1>1, <1>3, <1>5

\* An entry and its key.
LEMMA EntryShape ==
    ASSUME NEW a, NEW k, NEW i
    PROVE  /\ _entry(a, k, i).step = _entry_step(At(a, k)[i])
           /\ _entry(a, k, i).sequence = i - 1 /\ _entry(a, k, i).rank = k
           /\ _entry(a, k, i).category = Categories[k] /\ _entry(a, k, i).payload = At(a, k)[i]
BY DEF _entry, At

LEMMA EntryFound ==
    ASSUME NEW a, NEW e
    PROVE  e \in Entries(a) <=> \E k \in DOMAIN Categories : \E i \in DOMAIN At(a, k) : e = _entry(a, k, i)
BY DEF Entries, At

LEMMA EntryPlace ==
    ASSUME NEW a, Loaded(a), NEW e \in Entries(a)
    PROVE  \E k \in DOMAIN Categories, i \in Nat : i \in DOMAIN At(a, k) /\ e = _entry(a, k, i)
<1>1. PICK k \in DOMAIN Categories : \E i \in DOMAIN At(a, k) : e = _entry(a, k, i)
  BY EntryFound
<1>2. PICK i \in DOMAIN At(a, k) : e = _entry(a, k, i)
  BY <1>1
<1>3. i \in Nat
  BY LoadedLists
<1>. QED  BY <1>2, <1>3

\* The first, second and third part of the key.
Keyed(e) == _sort_step(e) \in Int /\ e.sequence \in Int /\ e.rank \in Int

LEMMA EntryKeyed ==
    ASSUME NEW a, Loaded(a), NEW e \in Entries(a)
    PROVE  Keyed(e)
<1>1. PICK k \in DOMAIN Categories, i \in Nat : i \in DOMAIN At(a, k) /\ e = _entry(a, k, i)
  BY EntryPlace
<1>2. i \in Nat \ {0} /\ _entry_step(At(a, k)[i]) \in Int \cup {None} /\ k \in Int
  BY <1>1, LoadedLists
<1>3. e.step \in Int \cup {None} /\ e.sequence = i - 1 /\ e.rank = k
  BY <1>1, <1>2, EntryShape
<1>. QED  BY <1>2, <1>3 DEF Keyed, _sort_step

\* No two entries have the same key.
LEMMA EntriesApart ==
    ASSUME NEW a, NEW d \in Entries(a), NEW e \in Entries(a), d.sequence = e.sequence, d.rank = e.rank,
           Loaded(a)
    PROVE  d = e
<1>1. PICK k \in DOMAIN Categories, i \in Nat : i \in DOMAIN At(a, k) /\ d = _entry(a, k, i)
  BY EntryPlace
<1>2. PICK l \in DOMAIN Categories, j \in Nat : j \in DOMAIN At(a, l) /\ e = _entry(a, l, j)
  BY EntryPlace
<1>3. k = l /\ i - 1 = j - 1
  BY <1>1, <1>2, EntryShape
<1>4. i \in Nat /\ j \in Nat
  BY LoadedLists
<1>. QED  BY <1>1, <1>2, <1>3, <1>4

LEMMA EntriesFinite ==
    ASSUME NEW a, Loaded(a)
    PROVE  IsFiniteSet(Entries(a))
<1>. DEFINE Of(k) == {_entry(a, k, i) : i \in DOMAIN At(a, k)}
<1>1. ASSUME NEW k \in DOMAIN Categories PROVE IsFiniteSet(Of(k))
  <2>1. PICK n \in Nat : DOMAIN At(a, k) = 1..n
    BY LoadedLists, ListShape
  <2>. DEFINE f == [i \in 1..n |-> _entry(a, k, i)]
  <2>2. Of(k) = Range(f)
    BY <2>1 DEF Range
  <2>3. f = [i \in 1..n |-> f[i]]
    OBVIOUS
  <2>. HIDE DEF f, Of
  <2>. QED  BY <2>2, <2>3, FunctionList, RangeFinite
<1>2. DOMAIN Categories = {1, 2, 3, 4}
  BY DEF Categories
<1>3. IsFiniteSet(Of(1)) /\ IsFiniteSet(Of(2)) /\ IsFiniteSet(Of(3)) /\ IsFiniteSet(Of(4))
  BY <1>1, <1>2
<1>4. Entries(a) = (Of(1) \cup Of(2)) \cup (Of(3) \cup Of(4))
  BY <1>2 DEF Entries, At
<1>. HIDE DEF Of
<1>. QED  BY <1>3, <1>4, FS_Union

\* The entries that are sorted before one, and the order that they make.
Before(a) == [e \in Entries(a) |-> {d \in Entries(a) : Earlier(d, e)}]

LEMMA TimelineOrder ==
    ASSUME NEW a, Loaded(a)
    PROVE  TotalOrder(Entries(a), Before(a))
<1>1. PICK S, below : S = Entries(a) /\ below = Before(a)
  OBVIOUS
<1>2. below \in [S -> SUBSET S] /\ \A d \in S, e \in S : d \in below[e] <=> Earlier(d, e)
  BY <1>1 DEF Before
<1>3. \A e \in S : Keyed(e)
  BY <1>1, EntryKeyed
<1>4. \A e \in S : e \notin below[e]
  BY <1>2, <1>3 DEF Keyed, Earlier
<1>5. ASSUME NEW d \in S, NEW e \in S PROVE d = e \/ d \in below[e] \/ e \in below[d]
  <2>1. d = e \/ d.sequence # e.sequence \/ d.rank # e.rank
    BY <1>1, EntriesApart
  <2>2. Keyed(d) /\ Keyed(e)
    BY <1>3
  <2>. QED  BY <1>2, <2>1, <2>2 DEF Keyed, Earlier
<1>6. ASSUME NEW d \in S, NEW e \in S, d \in below[e], NEW c \in below[d] PROVE c \in below[e]
  <2>1. c \in S /\ Earlier(c, d) /\ Earlier(d, e)
    BY <1>2, <1>6
  <2>2. Keyed(c) /\ Keyed(d) /\ Keyed(e)
    BY <1>3, <2>1
  <2>3. Earlier(c, e)
    BY <2>1, <2>2 DEF Keyed, Earlier
  <2>. QED  BY <1>2, <2>1, <2>3
<1>. QED  BY <1>1, <1>2, <1>4, <1>5, <1>6 DEF TotalOrder

\* When more is stored at the ends of the lists, no entry changes, and none has fewer before it.
Extends(a, b) == \A c \in Range(Categories) : IsPrefix(a[c], b[c])

LEMMA EntryStays ==
    ASSUME NEW a, Loaded(a), NEW b, Loaded(b), a.record.config = b.record.config, Extends(a, b),
           NEW k \in DOMAIN Categories, NEW i \in DOMAIN At(a, k)
    PROVE  i \in DOMAIN At(b, k) /\ At(a, k)[i] = At(b, k)[i] /\ _entry(a, k, i) = _entry(b, k, i)
<1>1. PICK s, t : s = At(a, k) /\ t = At(b, k)
  OBVIOUS
<1>2. s \in Seq(Range(s)) /\ t \in Seq(Range(t)) /\ IsPrefix(s, t)
  BY <1>1, LoadedLists DEF Extends, At
<1>3. Begins(s, t)
  BY <1>2, PrefixShape
<1>4. PICK m \in Nat, n \in Nat : m = Len(s) /\ n = Len(t) /\ DOMAIN s = 1..m /\ DOMAIN t = 1..n
  BY <1>2, ListShape
<1>5. i \in 1..n /\ s[i] = t[i]
  BY <1>1, <1>3, <1>4 DEF Begins
<1>. QED  BY <1>1, <1>4, <1>5 DEF _entry, At

LEMMA TimelineGrows ==
    ASSUME NEW a, Loaded(a), NEW b, Loaded(b), a.record.config = b.record.config, Extends(a, b), NEW e
    PROVE  Preceding(a, e) \in Nat /\ Preceding(b, e) \in Nat /\ Preceding(a, e) <= Preceding(b, e)
<1>1. Entries(a) \subseteq Entries(b)
  BY EntryStays, EntryFound
<1>. DEFINE S == {d \in Entries(a) : Earlier(d, e)}
            T == {d \in Entries(b) : Earlier(d, e)}
<1>2. IsFiniteSet(T)
  BY EntriesFinite, FS_Subset
<1>3. S \subseteq T
  BY <1>1
<1>. HIDE DEF S, T
<1>4. IsFiniteSet(S) /\ Cardinality(S) <= Cardinality(T) /\ Cardinality(S) \in Nat /\ Cardinality(T) \in Nat
  BY <1>2, <1>3, FS_Subset, FS_CardinalityType
<1>. QED  BY <1>4 DEF Preceding, S, T

\* An entry of what a list begins with, when more is stored.
LEMMA EntryWaits ==
    ASSUME NEW a, Loaded(a), NEW b, Loaded(b), a.record.config = b.record.config, Extends(a, b),
           NEW k \in DOMAIN Categories, NEW s, s \in Seq(Range(s)), IsPrefix(s, At(a, k)), NEW i \in DOMAIN s
    PROVE  /\ i \in DOMAIN At(a, k) /\ At(a, k)[i] = s[i] /\ _entry(a, k, i) = _entry(b, k, i)
           /\ Preceding(a, _entry(a, k, i)) \in Nat
           /\ Preceding(b, _entry(b, k, i)) \in Nat
           /\ Preceding(a, _entry(a, k, i)) <= Preceding(b, _entry(b, k, i))
<1>1. PICK t : t = At(a, k) /\ t \in Seq(Range(t))
  BY LoadedLists
<1>2. Begins(s, t)
  BY <1>1, PrefixShape
<1>3. PICK m \in Nat, n \in Nat : m = Len(s) /\ n = Len(t) /\ DOMAIN s = 1..m /\ DOMAIN t = 1..n
  BY <1>1, ListShape
<1>4. i \in 1..n /\ s[i] = t[i]
  BY <1>2, <1>3 DEF Begins
<1>5. i \in DOMAIN At(a, k) /\ At(a, k)[i] = s[i]
  BY <1>1, <1>3, <1>4
<1>6. PICK e : e = _entry(a, k, i)
  OBVIOUS
<1>7. e = _entry(b, k, i)
  BY <1>5, <1>6, EntryStays
<1>8. Preceding(a, e) \in Nat /\ Preceding(b, e) \in Nat /\ Preceding(a, e) <= Preceding(b, e)
  BY TimelineGrows
<1>. QED  BY <1>5, <1>6, <1>7, <1>8

\* What is pending has the lists that were read and, for the others, those that are stored.
LEMMA PendingLists ==
    ASSUME DatedInv, NEW x, Started(x)
    PROVE  /\ Loaded(Pending(x)) /\ Pending(x).record.config = config
           /\ \A c \in Range(Categories) : Pending(x)[c] = IF c \in DOMAIN x.got THEN x.got[c] ELSE run[c]
<1>1. "record" \notin Range(Categories)
  BY NamedCategories
<1>2. /\ Pending(x).record.config = config
      /\ \A c \in Range(Categories) : Pending(x)[c] = IF c \in DOMAIN x.got THEN x.got[c] ELSE run[c]
  BY <1>1 DEF Pending
<1>3. \A c \in Range(Categories) : Dated(c, Pending(x)[c])
  BY <1>2 DEF DatedInv, Started
<1>. QED  BY <1>2, <1>3 DEF Loaded

\* The timeline that is pending for a reader that has begun with all of it.
LEMMA PendingGrows ==
    ASSUME DatedInv, DatedInv', scenario' = scenario, NEW x, Started(x), Started(x)',
           DOMAIN x.began = Range(Categories), \A c \in DOMAIN x.began : IsPrefix(run[c], run'[c]),
           NEW k \in DOMAIN Categories, NEW i \in DOMAIN x.began[Categories[k]], Intact(x)
    PROVE  /\ Preceding(Pending(x), _entry(Pending(x), k, i)) \in Nat
           /\ Preceding(Pending(x)', _entry(Pending(x)', k, i)) \in Nat
           /\ Preceding(Pending(x), _entry(Pending(x), k, i)) <= Preceding(Pending(x)', _entry(Pending(x)', k, i))
<1>1. PICK a, b : a = Pending(x) /\ b = Pending(x)'
  OBVIOUS
<1>2. /\ Loaded(a) /\ a.record.config = config
      /\ \A c \in Range(Categories) : a[c] = IF c \in DOMAIN x.got THEN x.got[c] ELSE run[c]
  BY <1>1, PendingLists
<1>3. Pending(x)' = [n \in Range(Categories) \cup {"record"} |->
                       IF n = "record" THEN [config |-> config']
                       ELSE IF n \in DOMAIN x.got THEN x.got[n] ELSE run'[n]]
  BY DEF Pending
<1>4. /\ b.record.config = config
      /\ \A c \in Range(Categories) : b[c] = IF c \in DOMAIN x.got THEN x.got[c] ELSE run'[c]
  BY <1>1, <1>3, NamedCategories DEF config
<1>5. Loaded(b)
  BY <1>4 DEF Loaded, DatedInv, Started
<1>6. Extends(a, b)
  <2>1. ASSUME NEW c \in Range(Categories) PROVE IsPrefix(a[c], b[c])
    <3>1. CASE c \in DOMAIN x.got
      <4>1. a[c] = b[c] /\ a[c] \in Seq(Range(a[c]))
        BY <1>2, <1>4, <3>1 DEF Loaded, Dated, IsList
      <4>. QED  BY <4>1, PrefixSelf
    <3>2. CASE c \notin DOMAIN x.got
      BY <1>2, <1>4, <3>2
    <3>. QED  BY <3>1, <3>2
  <2>. QED  BY <2>1 DEF Extends
<1>7. PICK c, s : c = Categories[k] /\ c \in Range(Categories) /\ s = x.began[c]
  BY <1>2, LoadedLists
<1>8. s \in Seq(Range(s)) /\ IsPrefix(s, At(a, k))
  <2>1. Dated(c, s) /\ IsPrefix(s, run[c])
    BY <1>7 DEF Started, Intact
  <2>2. c \in DOMAIN x.got => IsPrefix(s, x.got[c])
    BY <1>7, ReadBegins
  <2>. QED  BY <1>2, <1>7, <2>1, <2>2 DEF At, Dated, IsList
<1>9. i \in DOMAIN s
  BY <1>7
<1>. QED  BY <1>1, <1>2, <1>4, <1>5, <1>6, <1>8, <1>9, EntryWaits

\* What a reader was given stays given when another step is taken.
LEMMA PagesStay ==
    ASSUME ReplayTypeOK, ReplayTypeOK', DatedInv, DatedInv', [Next]_vars, build' = build, NEW x, PagesOK(x)
    PROVE  PagesOK(x)'
<1>1. scenario' = scenario
  BY ScenarioStays
<1>2. SUFFICES ASSUME Reading(x)
               PROVE  /\ \A c \in DOMAIN x.began : Stored' => Follows(x, c)'
                      /\ "record" \in DOMAIN x.got => x.got.record.config = config'
                      /\ Intact(x)' => Covered(x)'
  BY DEF PagesOK
<1>3. Started(x) /\ DOMAIN x.began = Paged(x.purpose)
  BY <1>2, PagedCategories DEF PagesOK, Started
<1>4. ASSUME Stored'
      PROVE  /\ Started(x)'
             /\ Intact(x)' => Intact(x) /\ \A c \in DOMAIN x.began : IsPrefix(run[c], run'[c])
  BY <1>3, <1>4, StartedStays
<1>5. "record" \in DOMAIN x.got => x.got.record.config = config'
  BY <1>1, <1>2 DEF PagesOK, config
<1>6. ASSUME NEW c \in DOMAIN x.began, Stored' PROVE Follows(x, c)'
  BY <1>4, <1>6 DEF Started
<1>7. ASSUME Intact(x)' PROVE Covered(x)'
  <2>1. Stored' /\ Intact(x) /\ Started(x)' /\ \A c \in DOMAIN x.began : IsPrefix(run[c], run'[c])
    BY <1>4, <1>7 DEF Intact
  <2>2. Covered(x)
    BY <1>2, <2>1 DEF PagesOK
  <2>3. ASSUME x.purpose = "timeline", NEW k \in DOMAIN Categories, NEW i \in DOMAIN x.began[Categories[k]]
        PROVE  \/ Given(x, Categories[k], i)
               \/ x.cursor <= Preceding(Pending(x)', _entry(Pending(x)', k, i))
    <3>1. DOMAIN x.began = Range(Categories)
      BY <1>3, <2>3 DEF Paged
    <3>2. CASE Given(x, Categories[k], i)
      BY <3>2
    <3>3. CASE x.cursor <= Preceding(Pending(x), _entry(Pending(x), k, i))
      <4>1. PICK p, q : /\ p = Preceding(Pending(x), _entry(Pending(x), k, i))
                        /\ q = Preceding(Pending(x)', _entry(Pending(x)', k, i))
        OBVIOUS
      <4>2. p <= q /\ p \in Nat /\ q \in Nat
        BY <1>1, <1>3, <2>1, <3>1, <4>1, PendingGrows
      <4>3. x.cursor \in Nat /\ x.cursor <= p
        BY <2>2, <2>3, <3>3, <4>1 DEF Covered
      <4>. QED  BY <4>1, <4>2, <4>3
    <3>. QED  BY <2>2, <2>3, <3>2, <3>3 DEF Covered
  <2>. QED  BY <2>2, <2>3 DEF Covered, Given
<1>. QED  BY <1>2, <1>5, <1>6, <1>7

\* A reader that is not reading misses nothing.
LEMMA NotReading ==
    ASSUME NEW x, x.missed = {}, x.point \in {"idle", "done", "over", "store"}
    PROVE  PagesOK(x)
BY Queried DEF PagesOK, Reading

\* A request begins.
LEMMA RequestPages ==
    ASSUME ReplayTypeOK, DatedInv, NEW r \in Readers, NEW purpose, Request(r, purpose), NEW x, x = reader'[r]
    PROVE  PagesOK(x)
<1>1. x = [Idle EXCEPT !.point = Head(LoadOrder), !.purpose = purpose, !.began = [c \in Paged(purpose) |-> run[c]]]
  BY DEF Request, ReplayTypeOK
<1>2. /\ x.missed = {} /\ x.purpose = purpose /\ x.began = [c \in Paged(purpose) |-> run[c]]
      /\ x.got = [k \in {} |-> None] /\ x.cursor = 0 /\ x.steps = {}
  BY <1>1 DEF Idle
<1>3. DOMAIN x.began = Paged(purpose) /\ DOMAIN x.got = {} /\ \A c \in Paged(purpose) : x.began[c] = run[c]
  BY <1>2
<1>4. ASSUME NEW c \in Paged(purpose)
      PROVE  Dated(c, x.began[c]) /\ Follows(x, c)
  <2>1. c \in Range(Categories)
    BY PagedCategories
  <2>2. Dated(c, run[c]) /\ IsPrefix(run[c], run[c])
    BY <2>1, PrefixSelf DEF DatedInv, Dated, IsList
  <2>. QED  BY <1>3, <2>2 DEF Follows
<1>5. Started(x)
  BY <1>3, <1>4, PagedCategories DEF Started
<1>6. ASSUME Intact(x) PROVE Covered(x)
  <2>1. ASSUME purpose \in {"range", "play", "rewind"}, NEW i \in DOMAIN x.began.snapshots
        PROVE  x.cursor \in Int /\ x.cursor <= _entry_step(x.began.snapshots[i])
    <3>1. "snapshots" \in Paged(purpose)
      BY <2>1 DEF Paged
    <3>2. _entry_step(x.began.snapshots[i]) \in Nat
      BY <1>4, <2>1, <3>1 DEF Dated
    <3>. QED  BY <1>2, <3>2
  <2>2. ASSUME purpose = "timeline", NEW k \in DOMAIN Categories, NEW i
        PROVE  x.cursor <= Preceding(Pending(x), _entry(Pending(x), k, i))
    <3>1. PICK a, e : a = Pending(x) /\ e = _entry(Pending(x), k, i)
      OBVIOUS
    <3>2. Loaded(a) /\ Extends(a, a)
      <4>1. Loaded(a)
        BY <1>5, <3>1, PendingLists
      <4>2. \A c \in Range(Categories) : a[c] \in Seq(Range(a[c]))
        BY <4>1 DEF Loaded, Dated, IsList
      <4>. QED  BY <4>1, <4>2, PrefixSelf DEF Extends
    <3>3. Preceding(a, e) \in Nat
      BY <3>2, TimelineGrows
    <3>. QED  BY <1>2, <3>1, <3>3
  <2>. QED  BY <1>2, <2>1, <2>2 DEF Covered
<1>. QED  BY <1>2, <1>3, <1>4, <1>6 DEF PagesOK

\* The part of a reader that says what it has been given.
Progress(x) == <<x.purpose, x.began, x.seen, x.cursor, x.steps>>

LEMMA SameCovered ==
    ASSUME NEW x, NEW y, Progress(x) = Progress(y), Pending(x) = Pending(y), Covered(x)
    PROVE  Covered(y)
<1>1. x.purpose = y.purpose /\ x.began = y.began /\ x.seen = y.seen /\ x.cursor = y.cursor /\ x.steps = y.steps
  BY DEF Progress
<1>. QED  BY <1>1 DEF Covered, Given

LEMMA NotMade == \A name : name \notin Made(name)
<1>. SUFFICES ASSUME NEW name, name \in Made(name) PROVE FALSE
  OBVIOUS
<1>1. DOMAIN LoadOrder = 1..6
  BY DEF LoadOrder
<1>2. PICK j \in 1..6 : name = LoadOrder[j] /\ \A k \in 1..6 : LoadOrder[k] = name => j < k
  BY <1>1 DEF Made
<1>. QED  BY <1>2

\* A query of load_run.
LEMMA QueryPages ==
    ASSUME ReplayTypeOK, DatedInv, NEW r \in Readers, ReaderOK(reader[r]), PagesOK(reader[r]), Query(r),
           NEW y, y = reader'[r]
    PROVE  PagesOK(y)
<1>. DEFINE value(name) == IF name = "record" THEN [config |-> config, status |-> run.status] ELSE run[name]
<1>1. PICK x, name : x = reader[r] /\ name = reader[r].point
  OBVIOUS
<1>2. /\ name \in Range(LoadOrder)
      /\ y = IF Stored THEN [x EXCEPT !.point = After(name), !.got = With(x.got, name, value(name))] ELSE Gone
  BY <1>1 DEF Query, ReplayTypeOK
<1>3. CASE ~Stored
  <2>1. y.missed = {} /\ y.point = "over"
    BY <1>2, <1>3 DEF Gone, Idle
  <2>. QED  BY <2>1, NotReading
<1>4. CASE Stored
  <2>1. /\ DOMAIN x = DOMAIN Idle /\ Reading(x) /\ DOMAIN x.got = Made(name) /\ PagesOK(x)
    BY <1>1, <1>2 DEF ReplayTypeOK, ReaderOK, Reading
  <2>2. y = [x EXCEPT !.point = After(name), !.got = With(x.got, name, value(name))]
    BY <1>2, <1>4
  <2>3. y.got = With(x.got, name, value(name)) /\ Progress(y) = Progress(x) /\ y.missed = x.missed
    <3>. HIDE DEF value
    <3>. QED  BY <2>1, <2>2 DEF Idle, Progress
  <2>4. y.purpose = x.purpose /\ y.began = x.began
    BY <2>3 DEF Progress
  <2>5. /\ DOMAIN y.got = DOMAIN x.got \cup {name} /\ name \notin DOMAIN x.got
        /\ y.got[name] = value(name) /\ \A c \in DOMAIN x.got : y.got[c] = x.got[c]
    <3>. HIDE DEF value
    <3>. QED  BY <2>1, <2>3, NotMade DEF With
  <2>6. ASSUME NEW c \in DOMAIN y.began PROVE Follows(y, c)
    <3>1. Follows(x, c) /\ c \in Range(Categories) /\ Dated(c, run[c]) /\ Dated(c, x.began[c])
      BY <1>4, <2>1, <2>4, <2>6, PagedCategories DEF PagesOK, DatedInv
    <3>2. CASE c = name
      <4>1. y.got[c] = run[c]
        BY <2>5, <3>1, <3>2, NamedCategories
      <4>2. run[c] \in Seq(Range(run[c]))
        BY <3>1 DEF Dated, IsList
      <4>. QED  BY <2>4, <3>1, <4>1, <4>2, PrefixSelf DEF Follows
    <3>3. CASE c # name
      <4>1. (c \in DOMAIN y.got <=> c \in DOMAIN x.got) /\ (c \in DOMAIN x.got => y.got[c] = x.got[c])
        BY <2>5, <3>3
      <4>. QED  BY <2>4, <3>1, <4>1 DEF Follows
    <3>. QED  BY <3>2, <3>3
  <2>7. ASSUME NEW c \in Range(Categories) \cap DOMAIN y.got PROVE Dated(c, y.got[c])
    <3>1. CASE c = name
      BY <2>5, <3>1, NamedCategories DEF DatedInv
    <3>2. CASE c # name
      BY <2>1, <2>5, <3>2 DEF PagesOK
    <3>. QED  BY <3>1, <3>2
  <2>8. "record" \in DOMAIN y.got => y.got.record.config = config
    <3>1. CASE name = "record"
      BY <2>5, <3>1
    <3>2. CASE name # "record"
      BY <2>1, <2>5, <3>2 DEF PagesOK
    <3>. QED  BY <3>1, <3>2
  <2>9. Pending(y) = Pending(x)
    <3>1. ASSUME NEW k \in Range(Categories)
          PROVE  (IF k \in DOMAIN y.got THEN y.got[k] ELSE run[k]) = (IF k \in DOMAIN x.got THEN x.got[k] ELSE run[k])
      BY <2>5, <3>1, NamedCategories
    <3>. QED  BY <3>1, NamedCategories DEF Pending
  <2>10. ASSUME Intact(y) PROVE Covered(y)
    <3>1. Intact(x)
      BY <2>4, <2>10 DEF Intact
    <3>. QED  BY <2>1, <2>3, <2>9, <3>1, SameCovered DEF PagesOK
  <2>. QED  BY <2>1, <2>3, <2>4, <2>6, <2>7, <2>8, <2>10 DEF PagesOK
<1>. QED  BY <1>3, <1>4

\* A reader that has read everything, and what it has read.
LEMMA LoadedReader ==
    ASSUME DatedInv, NEW x, x.point = "loaded", ReaderOK(x), PagesOK(x)
    PROVE  /\ Reading(x) /\ Started(x) /\ DOMAIN x.began = Paged(x.purpose) /\ x.missed = {}
           /\ Loaded(x.got) /\ x.got.record.config = config
           /\ Range(Categories) \subseteq DOMAIN x.got
           /\ Intact(x) => Covered(x) /\ \A c \in DOMAIN x.began : IsPrefix(x.began[c], x.got[c])
<1>1. Reading(x) /\ DOMAIN x.got = Range(LoadOrder)
  BY Queried DEF Reading, ReaderOK
<1>2. Range(Categories) \subseteq DOMAIN x.got /\ "record" \in DOMAIN x.got
  BY <1>1, Queried, NamedCategories
<1>3. Started(x)
  BY <1>1, PagedCategories DEF PagesOK, Started
<1>4. Loaded(x.got)
  BY <1>1, <1>2 DEF PagesOK, Loaded
<1>5. Intact(x) => \A c \in DOMAIN x.began : IsPrefix(x.began[c], x.got[c])
  BY <1>2, <1>3, ReadBegins DEF Started
<1>. QED  BY <1>1, <1>2, <1>3, <1>4, <1>5 DEF PagesOK

AllIn(began, seen) == \A c \in DOMAIN began : \A i \in DOMAIN began[c] : Item(c, i - 1, began[c][i]) \in seen

\* A reader that was given all of an intact run misses nothing.
LEMMA NothingMissed ==
    ASSUME DatedInv, NEW x, Started(x), NEW seen, Intact(x) => AllIn(x.began, seen)
    PROVE  Missed(x.began, seen) = {}
<1>1. CASE \E c \in DOMAIN x.began : ~IsPrefix(x.began[c], run[c])
  BY <1>1 DEF Missed
<1>2. CASE Stored /\ \A c \in DOMAIN x.began : IsPrefix(x.began[c], run[c])
  <2>1. AllIn(x.began, seen)
    BY <1>2 DEF Intact
  <2>2. Missed(x.began, seen) = Everything(x.began) \ seen
    BY <1>2 DEF Missed
  <2>3. ASSUME NEW e \in Everything(x.began) PROVE e \in seen
    <3>1. PICK c \in DOMAIN x.began : \E i \in DOMAIN x.began[c] : e = Item(c, i - 1, x.began[c][i])
      BY DEF Everything
    <3>. QED  BY <2>1, <3>1 DEF AllIn
  <2>. QED  BY <2>2, <2>3
<1>3. CASE ~Stored /\ \A c \in DOMAIN x.began : IsPrefix(x.began[c], run[c])
  <2>1. ASSUME NEW c \in DOMAIN x.began PROVE DOMAIN x.began[c] = {}
    <3>1. c \in Range(Categories) /\ x.began[c] \in Seq(Range(x.began[c]))
      BY DEF Started, Dated, IsList
    <3>2. run[c] = <<>> /\ IsPrefix(x.began[c], run[c])
      BY <1>3, <3>1 DEF DatedInv
    <3>3. x.began[c] = <<>>
      BY <3>1, <3>2, PrefixOfNothing
    <3>. QED  BY <3>3
  <2>2. \A e : e \notin Everything(x.began)
    BY <2>1 DEF Everything
  <2>. QED  BY <2>2 DEF Missed
<1>. QED  BY <1>1, <1>2, <1>3

\* A reader that asks for the next page.
LEMMA TurnedPages ==
    ASSUME NEW x, Started(x), DOMAIN x.began = Paged(x.purpose), NEW y, y.missed = {},
           y.began = x.began, y.purpose = x.purpose, DOMAIN y.got = {}, Intact(x) => Covered(y)
    PROVE  PagesOK(y)
<1>2. ASSUME NEW c \in DOMAIN y.began PROVE Dated(c, y.began[c]) /\ (Stored => Follows(y, c))
  <2>1. Dated(c, x.began[c]) /\ (Stored => Follows(x, c))
    BY <1>2 DEF Started
  <2>. QED  BY <2>1 DEF Follows
<1>3. Intact(y) => Covered(y)
  BY DEF Intact
<1>. QED  BY <1>2, <1>3 DEF PagesOK

\* What a reader has after a page that is not the last, and after the last one.
NextPage(x, y, items, cursor) ==
    /\ y.began = x.began /\ y.purpose = x.purpose /\ y.missed = x.missed /\ y.steps = x.steps
    /\ y.seen = x.seen \cup items /\ y.cursor = cursor /\ DOMAIN y.got = {}
LastPage(x, y, items) == y.point = "done" /\ y.missed = Missed(x.began, x.seen \cup items)

LEMMA Delivered ==
    ASSUME ReplayTypeOK, NEW r \in Readers, NEW items, NEW more, NEW cursor, NEW x, x = reader[r],
           Deliver(r, items, more, cursor), NEW y, y = reader'[r]
    PROVE  IF more THEN NextPage(x, y, items, cursor) ELSE LastPage(x, y, items)
<1>1. CASE more
  <2>1. y = [x EXCEPT !.point = Head(LoadOrder), !.got = Idle.got, !.seen = x.seen \cup items, !.cursor = cursor]
    BY <1>1 DEF Deliver, ReplayTypeOK
  <2>2. DOMAIN x = DOMAIN Idle
    BY DEF ReplayTypeOK
  <2>3. NextPage(x, y, items, cursor)
    BY <2>1, <2>2 DEF Idle, NextPage
  <2>. QED  BY <1>1, <2>3
<1>2. CASE ~more
  <2>1. y = [Idle EXCEPT !.point = "done", !.purpose = x.purpose, !.missed = Missed(x.began, x.seen \cup items)]
    BY <1>2 DEF Deliver, ReplayTypeOK
  <2>2. LastPage(x, y, items)
    BY <2>1 DEF Idle, LastPage
  <2>. QED  BY <1>2, <2>2
<1>. QED  BY <1>1, <1>2

\* The reader after a page.
LEMMA DeliverPages ==
    ASSUME ReplayTypeOK, DatedInv, NEW r \in Readers, ReaderOK(reader[r]), PagesOK(reader[r]),
           reader[r].point = "loaded", NEW items, NEW more, NEW cursor, NEW x, x = reader[r],
           Deliver(r, items, more, cursor), NEW y, y = reader'[r],
           Intact(x) /\ NextPage(x, y, items, cursor) => IF more THEN Covered(y) ELSE TRUE,
           Intact(x) => IF more THEN TRUE ELSE AllIn(x.began, x.seen \cup items)
    PROVE  PagesOK(y)
<1>1. Started(x) /\ DOMAIN x.began = Paged(x.purpose) /\ x.missed = {}
  BY LoadedReader
<1>2. IF more THEN NextPage(x, y, items, cursor) ELSE LastPage(x, y, items)
  BY Delivered
<1>3. ASSUME NextPage(x, y, items, cursor), Intact(x) => Covered(y) PROVE PagesOK(y)
  BY <1>1, <1>3, TurnedPages DEF NextPage
<1>4. ASSUME LastPage(x, y, items), Intact(x) => AllIn(x.began, x.seen \cup items) PROVE PagesOK(y)
  <2>1. Missed(x.began, x.seen \cup items) = {}
    BY <1>1, <1>4, NothingMissed
  <2>. QED  BY <1>4, <2>1, NotReading DEF LastPage
<1>. QED  BY <1>2, <1>3, <1>4

-----------------------------------------------------------------------------
(* Paging: the steps of a replay and its frames.                           *)

Steps(S) == IsFiniteSet(S) /\ S # {} /\ Numbers(S)

LEMMA ImageFinite ==
    ASSUME NEW f, f = [e \in DOMAIN f |-> f[e]], IsFiniteSet(DOMAIN f)
    PROVE  IsFiniteSet(Range(f))
<1>1. f \in Surjection(DOMAIN f, Range(f))
  BY DEF Surjection, Range
<1>. QED  BY <1>1, FS_Surjection

\* The timeline of a replay has the steps of the snapshots.
LEMMA SnapshotSteps ==
    ASSUME NEW a, Loaded(a), NEW i \in DOMAIN a.snapshots
    PROVE  Steps(_replay_timeline(a)) /\ _entry_step(a.snapshots[i]) \in _replay_timeline(a)
<1>. DEFINE payloads == UNION {Range(a[c]) : c \in Range(Categories)}
            found == {_entry_step(p) : p \in payloads}
            steps == found \ {None}
<1>1. ASSUME NEW c \in Range(Categories)
      PROVE  IsFiniteSet(Range(a[c])) /\ \A p \in Range(a[c]) : _entry_step(p) \in Int \cup {None}
  <2>1. a[c] \in Seq(Range(a[c])) /\ \A j \in DOMAIN a[c] : _entry_step(a[c][j]) \in Int \cup {None}
    BY DEF Loaded, Dated, IsList
  <2>. QED  BY <2>1, RangeFinite DEF Range
<1>2. IsFiniteSet(payloads)
  <2>1. payloads = (Range(a["events"]) \cup Range(a["snapshots"])) \cup (Range(a["accounts"]) \cup Range(a["logs"]))
    BY NamedCategories
  <2>2. IsFiniteSet(Range(a["events"])) /\ IsFiniteSet(Range(a["snapshots"]))
    BY <1>1, NamedCategories
  <2>3. IsFiniteSet(Range(a["accounts"])) /\ IsFiniteSet(Range(a["logs"]))
    BY <1>1, NamedCategories
  <2>. HIDE DEF payloads
  <2>. QED  BY <2>1, <2>2, <2>3, FS_Union
<1>3. \A p \in payloads : _entry_step(p) \in Int \cup {None}
  BY <1>1
<1>4. IsFiniteSet(found)
  <2>. HIDE DEF payloads
  <2>. DEFINE f == [p \in payloads |-> _entry_step(p)]
  <2>1. f = [p \in DOMAIN f |-> f[p]] /\ DOMAIN f = payloads
    OBVIOUS
  <2>2. found = Range(f)
    BY DEF Range
  <2>. HIDE DEF f, found
  <2>. QED  BY <1>2, <2>1, <2>2, ImageFinite
<1>5. _entry_step(a.snapshots[i]) \in steps
  <2>1. _entry_step(a.snapshots[i]) \in Nat
    BY NamedCategories DEF Loaded, Dated
  <2>2. a.snapshots[i] \in payloads
    BY NamedCategories DEF Range
  <2>. QED  BY <2>1, <2>2, NoneAssumption
<1>6. IsFiniteSet(steps) /\ steps # {} /\ Numbers(steps)
  <2>1. \A s \in steps : s \in Int
    BY <1>3
  <2>. HIDE DEF found
  <2>. QED  BY <1>4, <1>5, <2>1, FS_Subset DEF Numbers
<1>7. _replay_timeline(a) = steps
  <2>1. _replay_timeline(a) = IF steps # {} THEN steps ELSE 0..Or(Get(a.report, "total_steps"), 0)
    BY DEF _replay_timeline
  <2>. QED  BY <1>6, <2>1
<1>. HIDE DEF steps
<1>. QED  BY <1>5, <1>6, <1>7 DEF Steps

\* The cursor of a replay.
LEMMA Clamped ==
    ASSUME NEW S, Steps(S), NEW n \in Int
    PROVE  /\ clamp(S, n) \in Int
           /\ \A t \in S : n <= t => clamp(S, n) <= t
           /\ n \in S => clamp(S, n) = n
<1>1. PICK lo \in Int, hi \in Int : /\ lo = Min(S) /\ hi = Max(S) /\ lo <= hi
                                    /\ \A t \in S : t \in Int /\ lo <= t /\ t <= hi
  BY Extremes DEF Steps, Numbers
<1>2. PICK up \in Int : up = Max({n, lo}) /\ up = IF n >= lo THEN n ELSE lo
  BY MaxOfTwo
<1>3. clamp(S, n) = Min({up, hi})
  BY <1>1, <1>2 DEF clamp
<1>4. clamp(S, n) = IF up <= hi THEN up ELSE hi
  BY <1>3, MinOfTwo
<1>. QED  BY <1>1, <1>2, <1>4

LEMMA NextFrame ==
    ASSUME NEW S, Steps(S), NEW n \in S, NEW next, next = next_frame(S, n)
    PROVE  /\ next \in S
           /\ \A t \in S : n < t => next <= t
           /\ next = n => \A t \in S : t <= n
<1>. DEFINE ahead == {s \in S : s > n} \cup {Max(S)}
<1>1. \A t \in S : t \in Int
  BY DEF Steps, Numbers
<1>2. Max(S) \in S /\ \A t \in S : t <= Max(S)
  BY Extremes DEF Steps
<1>3. ahead \subseteq S /\ ahead # {}
  BY <1>2
<1>4. IsFiniteSet(ahead) /\ Numbers(ahead)
  BY <1>3, FS_Subset DEF Steps, Numbers
<1>5. Min(ahead) \in ahead /\ \A t \in ahead : Min(ahead) <= t
  BY <1>3, <1>4, Extremes
<1>6. next = Min(ahead)
  <2>1. next_step(S, n) = Min(ahead) /\ next = clamp(S, next_step(S, n))
    BY DEF next_step, next_frame, seek
  <2>2. Min(ahead) \in S
    BY <1>3, <1>5
  <2>. HIDE DEF ahead
  <2>. QED  BY <1>1, <2>1, <2>2, Clamped
<1>7. next \in S /\ \A t \in S : n < t => next <= t
  <2>1. \A t \in S : n < t => t \in ahead
    BY <1>1
  <2>. QED  BY <1>3, <1>5, <1>6, <2>1
<1>8. ASSUME next = n, NEW t \in S PROVE t <= n
  <2>1. n = Max(S) \/ n > n
    BY <1>5, <1>6, <1>8
  <2>. QED  BY <1>1, <1>2, <2>1
<1>. QED  BY <1>7, <1>8

LEMMA PreviousFrame ==
    ASSUME NEW S, Steps(S), NEW n \in S, NEW next, next = previous_frame(S, n)
    PROVE  /\ next \in S
           /\ \A t \in S : t < n => t <= next
           /\ next = n => \A t \in S : n <= t
<1>. DEFINE behind == {s \in S : s < n} \cup {Min(S)}
<1>1. \A t \in S : t \in Int
  BY DEF Steps, Numbers
<1>2. Min(S) \in S /\ \A t \in S : Min(S) <= t
  BY Extremes DEF Steps
<1>3. behind \subseteq S /\ behind # {}
  BY <1>2
<1>4. IsFiniteSet(behind) /\ Numbers(behind)
  BY <1>3, FS_Subset DEF Steps, Numbers
<1>5. Max(behind) \in behind /\ \A t \in behind : t <= Max(behind)
  BY <1>3, <1>4, Extremes
<1>6. next = Max(behind)
  <2>1. previous_step(S, n) = Max(behind) /\ next = clamp(S, previous_step(S, n))
    BY DEF previous_step, previous_frame, seek
  <2>2. Max(behind) \in S
    BY <1>3, <1>5
  <2>. HIDE DEF behind
  <2>. QED  BY <1>1, <2>1, <2>2, Clamped
<1>7. next \in S /\ \A t \in S : t < n => t <= next
  <2>1. \A t \in S : t < n => t \in behind
    BY <1>1
  <2>. QED  BY <1>3, <1>5, <1>6, <2>1
<1>8. ASSUME next = n, NEW t \in S PROVE n <= t
  <2>1. n = Min(S) \/ n < n
    BY <1>5, <1>6, <1>8
  <2>. QED  BY <1>1, <1>2, <2>1
<1>. QED  BY <1>7, <1>8

\* A frame has the snapshots of its step.
LEMMA FrameGives ==
    ASSUME NEW a, Loaded(a), NEW i \in DOMAIN a.snapshots, NEW frame,
           frame = _build_replay_frame(a, _entry_step(a.snapshots[i]), None, Range(Categories))
    PROVE  /\ _frame_has_payload(frame)
           /\ \A frames : frame \in frames => Item("snapshots", i - 1, a.snapshots[i]) \in Snapshots(frames, a.snapshots)
<1>. DEFINE step == _entry_step(a.snapshots[i])
            P == {j \in DOMAIN a.snapshots : _entry_step(a.snapshots[j]) = step}
<1>1. frame.snapshots = _step_items(a.snapshots, step, None)
  BY NamedCategories DEF _build_replay_frame
<1>2. _step_items(a.snapshots, step, None) = Chosen(a.snapshots, P)
  BY DEF _step_items, Where
<1>3. PICK s : s = a.snapshots
  OBVIOUS
<1>4. PICK n \in Nat : DOMAIN s = 1..n /\ s \in Seq(Range(s))
  BY <1>3, NamedCategories, ListShape DEF Loaded, Dated, IsList
<1>5. P \in SUBSET (1..n) /\ i \in P
  BY <1>3, <1>4
<1>. HIDE DEF P
<1>6. Range(Chosen(s, P)) = {s[j] : j \in P}
  BY <1>4, <1>5, ChosenList
<1>7. a.snapshots[i] \in Range(frame.snapshots)
  BY <1>1, <1>2, <1>3, <1>5, <1>6
<1>8. frame.snapshots # <<>>
  BY <1>7 DEF Range
<1>. QED  BY <1>7, <1>8 DEF _frame_has_payload, Snapshots

-----------------------------------------------------------------------------
(* Paging: the answers.                                                    *)

\* What a reader that is to be given the snapshots began with is in what it has read.
LEMMA BeganSnapshots ==
    ASSUME DatedInv, NEW x, x.point = "loaded", ReaderOK(x), PagesOK(x), Intact(x),
           x.purpose \in {"range", "play", "rewind"}, NEW i \in DOMAIN x.began.snapshots
    PROVE  i \in DOMAIN x.got.snapshots /\ x.got.snapshots[i] = x.began.snapshots[i]
<1>1. "snapshots" \in DOMAIN x.began
  BY LoadedReader DEF Paged
<1>2. /\ IsPrefix(x.began.snapshots, x.got.snapshots) /\ Dated("snapshots", x.began.snapshots)
      /\ Dated("snapshots", x.got.snapshots)
  BY <1>1, LoadedReader, NamedCategories DEF Started, Loaded
<1>3. PICK s, t : s = x.began.snapshots /\ t = x.got.snapshots
  OBVIOUS
<1>4. s \in Seq(Range(s)) /\ t \in Seq(Range(t)) /\ IsPrefix(s, t)
  BY <1>2, <1>3 DEF Dated, IsList
<1>5. Begins(s, t)
  BY <1>4, PrefixShape
<1>6. PICK m \in Nat, n \in Nat : m = Len(s) /\ n = Len(t) /\ DOMAIN s = 1..m /\ DOMAIN t = 1..n
  BY <1>4, ListShape
<1>7. i \in 1..n /\ s[i] = t[i]
  BY <1>3, <1>5, <1>6 DEF Begins
<1>. QED  BY <1>3, <1>6, <1>7

LEMMA AllSnapshots ==
    ASSUME NEW x, x.purpose \in {"range", "play", "rewind"}, DOMAIN x.began = Paged(x.purpose), NEW seen,
           \A i \in DOMAIN x.began.snapshots : Item("snapshots", i - 1, x.began.snapshots[i]) \in seen
    PROVE  AllIn(x.began, seen)
<1>1. DOMAIN x.began = {"snapshots"}
  BY DEF Paged
<1>. QED  BY <1>1 DEF AllIn

\* A range gives a snapshot or the next one begins before it.
LEMMA RangeGives ==
    ASSUME NEW a, Loaded(a), NEW i \in DOMAIN a.snapshots, NEW start \in Int,
           start <= _entry_step(a.snapshots[i]), NEW page,
           page = get_replay_range(a, start, start + Window - 1, None, Range(Categories))
    PROVE  \/ Item("snapshots", i - 1, a.snapshots[i]) \in Snapshots(page.frames, a.snapshots)
           \/ page.next_start_step \in Int /\ page.next_start_step <= _entry_step(a.snapshots[i])
<1>1. PICK S, step : S = _replay_timeline(a) /\ step = _entry_step(a.snapshots[i])
  OBVIOUS
<1>2. Steps(S) /\ step \in S /\ step \in Int /\ start <= step
  BY <1>1, SnapshotSteps DEF Steps, Numbers
<1>3. start + Window - 1 \in Int
  BY WindowAssumption
<1>4. PICK c \in Int, d \in Int : c = clamp(S, start) /\ d = clamp(S, start + Window - 1) /\ c <= step
  BY <1>2, <1>3, Clamped
<1>5. PICK lo, hi : lo = Min({c, d}) /\ hi = Max({c, d})
  OBVIOUS
<1>6. lo \in Int /\ hi \in Int /\ lo <= c
  BY <1>4, <1>5, MinOfTwo, MaxOfTwo
<1>. DEFINE frame(s) == _build_replay_frame(a, s, None, Range(Categories))
            inside == {s \in S : lo <= s /\ s <= hi}
            later == {s \in S : s > hi}
<1>7. /\ page.frames = {f \in {frame(s) : s \in inside} : _frame_has_payload(f)}
      /\ page.next_start_step = IF later = {} THEN None ELSE Min(later)
  BY <1>1, <1>4, <1>5 DEF get_replay_range
<1>8. CASE step <= hi
  <2>1. step \in inside
    BY <1>2, <1>4, <1>6, <1>8
  <2>2. /\ _frame_has_payload(frame(step))
        /\ \A frames : frame(step) \in frames =>
               Item("snapshots", i - 1, a.snapshots[i]) \in Snapshots(frames, a.snapshots)
    BY <1>1, FrameGives
  <2>3. frame(step) \in page.frames
    <3>. HIDE DEF frame, inside, later
    <3>. QED  BY <1>7, <2>1, <2>2
  <2>. QED  BY <2>2, <2>3
<1>9. CASE ~(step <= hi)
  <2>1. step \in later /\ later \subseteq S
    BY <1>2, <1>6, <1>9
  <2>2. IsFiniteSet(later) /\ Numbers(later) /\ later # {}
    BY <1>2, <2>1, FS_Subset DEF Steps, Numbers
  <2>. HIDE DEF later
  <2>3. Min(later) \in later /\ Min(later) <= step
    BY <2>1, <2>2, Extremes
  <2>4. page.next_start_step = Min(later)
    BY <1>7, <2>2
  <2>5. Min(later) \in Int
    BY <2>2, <2>3 DEF Numbers
  <2>. QED  BY <1>1, <2>3, <2>4, <2>5
<1>. QED  BY <1>8, <1>9

\* Where it goes on.
LEMMA RangeNext ==
    ASSUME NEW a, Loaded(a), NEW i \in DOMAIN a.snapshots, NEW start, NEW page,
           page = get_replay_range(a, start, start + Window - 1, None, Range(Categories))
    PROVE  page.next_start_step \in Int \cup {None}
<1>1. PICK S, last : S = _replay_timeline(a) /\ last = Max({clamp(S, start), clamp(S, start + Window - 1)})
  OBVIOUS
<1>2. Steps(S)
  BY <1>1, SnapshotSteps
<1>. DEFINE later == {s \in S : s > last}
<1>3. page.next_start_step = IF later = {} THEN None ELSE Min(later)
  BY <1>1 DEF get_replay_range
<1>4. IsFiniteSet(later) /\ Numbers(later)
  BY <1>2, FS_Subset DEF Steps, Numbers
<1>. HIDE DEF later
<1>. QED  BY <1>3, <1>4, Extremes DEF Numbers

LEMMA RangePages ==
    ASSUME ReplayTypeOK, DatedInv, NEW r \in Readers, ReaderOK(reader[r]), PagesOK(reader[r]), AnswerRange(r),
           NEW y, y = reader'[r]
    PROVE  PagesOK(y)
<1>1. PICK x, a, start : x = reader[r] /\ a = x.got /\ start = x.cursor
  OBVIOUS
<1>2. PICK page : page = get_replay_range(a, start, start + Window - 1, None, Range(Categories))
  OBVIOUS
<1>3. PICK next, items, cursor :
          /\ next = page.next_start_step /\ items = Snapshots(page.frames, a.snapshots)
          /\ cursor = IF next # None THEN next ELSE start
  OBVIOUS
<1>4. Deliver(r, items, next # None, cursor) /\ x.point = "loaded" /\ x.purpose = "range"
  BY <1>1, <1>2, <1>3 DEF AnswerRange, Answers
<1>5. ReaderOK(x) /\ PagesOK(x) /\ Loaded(a) /\ DOMAIN x.began = Paged(x.purpose) /\ (Intact(x) => Covered(x))
  BY <1>1, <1>4, LoadedReader
<1>6. ASSUME Intact(x), NEW i \in DOMAIN x.began.snapshots
      PROVE  \/ Item("snapshots", i - 1, x.began.snapshots[i]) \in x.seen \cup items
             \/ next \in Int /\ next <= _entry_step(x.began.snapshots[i])
  <2>1. i \in DOMAIN a.snapshots /\ a.snapshots[i] = x.began.snapshots[i]
    BY <1>1, <1>4, <1>5, <1>6, BeganSnapshots
  <2>2. start \in Int /\ (Given(x, "snapshots", i) \/ start <= _entry_step(x.began.snapshots[i]))
    BY <1>1, <1>4, <1>5, <1>6 DEF Covered
  <2>3. CASE Given(x, "snapshots", i)
    BY <2>3 DEF Given
  <2>4. CASE start <= _entry_step(x.began.snapshots[i])
    BY <1>2, <1>3, <1>5, <2>1, <2>2, <2>4, RangeGives
  <2>. QED  BY <2>2, <2>3, <2>4
<1>7. ASSUME next # None, Intact(x), NextPage(x, y, items, cursor) PROVE Covered(y)
  <2>1. y.began = x.began /\ y.purpose = x.purpose /\ y.seen = x.seen \cup items /\ y.cursor = next
    BY <1>3, <1>7 DEF NextPage
  <2>2. ASSUME NEW i \in DOMAIN y.began.snapshots
        PROVE  y.cursor \in Int /\ (Given(y, "snapshots", i) \/ y.cursor <= _entry_step(y.began.snapshots[i]))
    <3>1. next \in Int
      <4>1. i \in DOMAIN a.snapshots
        BY <1>1, <1>4, <1>5, <1>7, <2>1, BeganSnapshots
      <4>2. next \in Int \cup {None}
        BY <1>2, <1>3, <1>5, <4>1, RangeNext
      <4>. QED  BY <1>7, <4>2
    <3>. QED  BY <1>6, <1>7, <2>1, <3>1 DEF Given
  <2>. QED  BY <1>4, <2>1, <2>2 DEF Covered
<1>8. ASSUME next = None, Intact(x) PROVE AllIn(x.began, x.seen \cup items)
  <2>1. next \notin Int
    BY <1>8, NoneAssumption
  <2>. QED  BY <1>4, <1>5, <1>6, <1>8, <2>1, AllSnapshots
<1>. QED  BY <1>1, <1>4, <1>5, <1>7, <1>8, DeliverPages

\* A frame gives the snapshots of its step, as long as what was read has them.
LEMMA StepGiven ==
    ASSUME NEW a, Loaded(a), NEW i \in DOMAIN a.snapshots, NEW cursor, cursor = _entry_step(a.snapshots[i]),
           NEW frame, frame = get_replay_frame(a, cursor, None)
    PROVE  Item("snapshots", i - 1, a.snapshots[i]) \in Snapshots({frame}, a.snapshots)
<1>1. PICK S : S = _replay_timeline(a)
  OBVIOUS
<1>2. Steps(S) /\ cursor \in S /\ cursor \in Int
  BY <1>1, SnapshotSteps DEF Steps, Numbers
<1>3. clamp(S, cursor) = cursor
  BY <1>2, Clamped
<1>4. frame = _build_replay_frame(a, cursor, None, Range(Categories))
  BY <1>1, <1>3 DEF get_replay_frame, seek
<1>. QED  BY <1>4, FrameGives

\* What the client of a session has been given.
Played(x, i) ==
    LET step == _entry_step(x.began.snapshots[i])
    IN  /\ Steps(x.steps) /\ x.cursor \in x.steps /\ step \in x.steps
        /\ \/ Given(x, "snapshots", i)
           \/ x.purpose = "play" /\ x.cursor <= step
           \/ x.purpose = "rewind" /\ step <= x.cursor

LEMMA PlayedCovered ==
    ASSUME NEW x, x.purpose \in {"play", "rewind"}, x.steps # {}
    PROVE  Covered(x) <=> \A i \in DOMAIN x.began.snapshots : Played(x, i)
BY DEF Covered, Played, Steps, Numbers

LEMMA FramePages ==
    ASSUME ReplayTypeOK, DatedInv, NEW r \in Readers, ReaderOK(reader[r]), PagesOK(reader[r]), AnswerFrame(r),
           NEW y, y = reader'[r]
    PROVE  PagesOK(y)
<1>1. PICK x, a, S, cursor : x = reader[r] /\ a = x.got /\ S = x.steps /\ cursor = x.cursor
  OBVIOUS
<1>2. PICK frame, items, next :
          /\ frame = get_replay_frame(a, cursor, None) /\ items = Snapshots({frame}, a.snapshots)
          /\ next = IF x.purpose = "play" THEN next_frame(S, cursor) ELSE previous_frame(S, cursor)
  OBVIOUS
<1>3. Deliver(r, items, next # cursor, next) /\ x.point = "loaded" /\ x.purpose \in {"play", "rewind"} /\ S # {}
  BY <1>1, <1>2 DEF AnswerFrame, Answers
<1>4. ReaderOK(x) /\ PagesOK(x) /\ Loaded(a) /\ DOMAIN x.began = Paged(x.purpose) /\ (Intact(x) => Covered(x))
  BY <1>1, <1>3, LoadedReader
<1>5. ASSUME Intact(x), NEW i \in DOMAIN x.began.snapshots, NEW step, step = _entry_step(x.began.snapshots[i])
      PROVE  /\ Steps(S) /\ cursor \in S /\ step \in S
             /\ \/ Item("snapshots", i - 1, x.began.snapshots[i]) \in x.seen \cup items
                \/ x.purpose = "play" /\ cursor < step
                \/ x.purpose = "rewind" /\ step < cursor
  <2>1. i \in DOMAIN a.snapshots /\ a.snapshots[i] = x.began.snapshots[i]
    BY <1>1, <1>3, <1>4, <1>5, BeganSnapshots
  <2>2. /\ Steps(S) /\ cursor \in S /\ step \in S
        /\ \/ Given(x, "snapshots", i)
           \/ x.purpose = "play" /\ cursor <= step
           \/ x.purpose = "rewind" /\ step <= cursor
    <3>1. Played(x, i)
      BY <1>1, <1>3, <1>4, <1>5, PlayedCovered
    <3>. QED  BY <1>1, <1>5, <3>1 DEF Played
  <2>3. cursor \in Int /\ step \in Int
    BY <2>2 DEF Steps, Numbers
  <2>4. step = cursor => Item("snapshots", i - 1, x.began.snapshots[i]) \in items
    BY <1>2, <1>4, <1>5, <2>1, StepGiven
  <2>. QED  BY <2>2, <2>3, <2>4 DEF Given
<1>6. ASSUME Steps(S), cursor \in S
      PROVE  /\ next \in S
             /\ \A t \in S : x.purpose = "play" /\ cursor < t => next <= t /\ next # cursor
             /\ \A t \in S : x.purpose = "rewind" /\ t < cursor => t <= next /\ next # cursor
  <2>1. \A t \in S : t \in Int
    BY <1>6 DEF Steps, Numbers
  <2>2. CASE x.purpose = "play"
    <3>1. next \in S /\ (\A t \in S : cursor < t => next <= t) /\ (next = cursor => \A t \in S : t <= cursor)
      BY <1>2, <1>6, <2>2, NextFrame
    <3>. QED  BY <2>1, <2>2, <3>1
  <2>3. CASE x.purpose = "rewind"
    <3>1. next \in S /\ (\A t \in S : t < cursor => t <= next) /\ (next = cursor => \A t \in S : cursor <= t)
      BY <1>2, <1>6, <2>3, PreviousFrame
    <3>. QED  BY <2>1, <2>3, <3>1
  <2>. QED  BY <1>3, <2>2, <2>3
<1>7. ASSUME Intact(x), NextPage(x, y, items, next) PROVE Covered(y)
  <2>1. y.began = x.began /\ y.purpose = x.purpose /\ y.seen = x.seen \cup items /\ y.cursor = next /\ y.steps = S
    BY <1>1, <1>7 DEF NextPage
  <2>2. ASSUME NEW i \in DOMAIN y.began.snapshots PROVE Played(y, i)
    <3>1. PICK step : step = _entry_step(x.began.snapshots[i])
      OBVIOUS
    <3>2. /\ Steps(S) /\ cursor \in S /\ step \in S
          /\ \/ Item("snapshots", i - 1, x.began.snapshots[i]) \in x.seen \cup items
             \/ x.purpose = "play" /\ cursor < step
             \/ x.purpose = "rewind" /\ step < cursor
      BY <1>5, <1>7, <2>1, <3>1
    <3>. QED  BY <1>6, <2>1, <3>1, <3>2 DEF Played, Given
  <2>. QED  BY <1>3, <2>1, <2>2, PlayedCovered
<1>8. ASSUME next = cursor, Intact(x) PROVE AllIn(x.began, x.seen \cup items)
  <2>1. ASSUME NEW i \in DOMAIN x.began.snapshots
        PROVE  Item("snapshots", i - 1, x.began.snapshots[i]) \in x.seen \cup items
    <3>1. PICK step : step = _entry_step(x.began.snapshots[i])
      OBVIOUS
    <3>2. /\ Steps(S) /\ cursor \in S /\ step \in S
          /\ \/ Item("snapshots", i - 1, x.began.snapshots[i]) \in x.seen \cup items
             \/ x.purpose = "play" /\ cursor < step
             \/ x.purpose = "rewind" /\ step < cursor
      BY <1>5, <1>8, <3>1
    <3>. QED  BY <1>6, <1>8, <3>2
  <2>. QED  BY <1>3, <1>4, <2>1, AllSnapshots
<1>. QED  BY <1>1, <1>3, <1>4, <1>7, <1>8, DeliverPages

\* Opening a session gives the snapshots of its first step; its client goes on from there, or
\* from the last step.
LEMMA SessionGives ==
    ASSUME NEW a, Loaded(a), NEW i \in DOMAIN a.snapshots, NEW S, S = _replay_timeline(a),
           NEW step, step = _entry_step(a.snapshots[i]), NEW first,
           first = Snapshots({_build_replay_frame(a, Min(S), None, Range(Categories))}, a.snapshots),
           NEW purpose \in {"play", "rewind"}, NEW cursor,
           cursor = IF purpose = "play" THEN next_frame(S, Min(S)) ELSE seek(S, Max(S))
    PROVE  /\ Steps(S) /\ cursor \in S /\ step \in S
           /\ \/ Item("snapshots", i - 1, a.snapshots[i]) \in first
              \/ purpose = "play" /\ cursor <= step
              \/ purpose = "rewind" /\ step <= cursor
           /\ cursor = Min(S) => Item("snapshots", i - 1, a.snapshots[i]) \in first
<1>1. Steps(S) /\ step \in S
  BY SnapshotSteps
<1>2. PICK lo, hi : lo = Min(S) /\ hi = Max(S)
  OBVIOUS
<1>3. \A t \in S : t \in Int
  BY <1>1 DEF Steps, Numbers
<1>4. lo \in S /\ hi \in S /\ \A t \in S : lo <= t /\ t <= hi
  BY <1>1, <1>2, Extremes DEF Steps
<1>5. step = lo => Item("snapshots", i - 1, a.snapshots[i]) \in first
  BY <1>2, FrameGives
<1>6. CASE purpose = "play"
  <2>1. cursor = next_frame(S, lo)
    BY <1>2, <1>6
  <2>2. cursor \in S /\ (\A t \in S : lo < t => cursor <= t) /\ (cursor = lo => \A t \in S : t <= lo)
    BY <1>1, <1>4, <2>1, NextFrame
  <2>3. cursor = lo => step = lo
    BY <1>1, <1>3, <1>4, <2>2
  <2>4. step = lo \/ cursor <= step
    BY <1>1, <1>3, <1>4, <2>2
  <2>. QED  BY <1>1, <1>2, <1>5, <1>6, <2>2, <2>3, <2>4
<1>7. CASE purpose = "rewind"
  <2>1. cursor = clamp(S, hi)
    BY <1>2, <1>7 DEF seek
  <2>2. cursor = hi
    BY <1>1, <1>3, <1>4, <2>1, Clamped
  <2>3. cursor = lo => step = lo
    BY <1>1, <1>3, <1>4, <2>2
  <2>. QED  BY <1>1, <1>2, <1>4, <1>5, <1>7, <2>2, <2>3
<1>. QED  BY <1>6, <1>7

LEMMA SessionPages ==
    ASSUME ReplayTypeOK, DatedInv, NEW r \in Readers, ReaderOK(reader[r]), PagesOK(reader[r]), AnswerSession(r),
           NEW y, y = reader'[r]
    PROVE  PagesOK(y)
<1>1. PICK x, a, S, lo : x = reader[r] /\ a = x.got /\ S = _replay_timeline(a) /\ lo = Min(S)
  OBVIOUS
<1>2. PICK first, cursor :
          /\ first = Snapshots({_build_replay_frame(a, lo, None, Range(Categories))}, a.snapshots)
          /\ cursor = IF x.purpose = "play" THEN next_frame(S, lo) ELSE seek(S, Max(S))
  OBVIOUS
<1>3. /\ get_replay_session(a).steps = S /\ get_replay_session(a).cursor = lo
      /\ Snapshots({get_replay_session(a).frame}, a.snapshots) = first
  BY <1>1, <1>2 DEF get_replay_session, create
<1>4. /\ x.point = "loaded" /\ x.purpose \in {"play", "rewind"}
      /\ IF cursor = lo THEN Deliver(r, first, FALSE, cursor)
         ELSE reader' = [reader EXCEPT ![r] =
                  [@ EXCEPT !.point = Head(LoadOrder), !.got = Idle.got, !.steps = S,
                            !.cursor = cursor, !.seen = first]]
  BY <1>1, <1>2, <1>3 DEF AnswerSession, Answers
<1>5. /\ ReaderOK(x) /\ PagesOK(x) /\ Loaded(a) /\ Started(x) /\ DOMAIN x.began = Paged(x.purpose)
      /\ x.missed = {}
  BY <1>1, <1>4, LoadedReader
<1>6. ASSUME Intact(x), NEW i \in DOMAIN x.began.snapshots, NEW step, step = _entry_step(x.began.snapshots[i])
      PROVE  /\ Steps(S) /\ cursor \in S /\ step \in S
             /\ \/ Item("snapshots", i - 1, x.began.snapshots[i]) \in first
                \/ x.purpose = "play" /\ cursor <= step
                \/ x.purpose = "rewind" /\ step <= cursor
             /\ cursor = lo => Item("snapshots", i - 1, x.began.snapshots[i]) \in first
  <2>1. i \in DOMAIN a.snapshots /\ a.snapshots[i] = x.began.snapshots[i]
    BY <1>1, <1>4, <1>5, <1>6, BeganSnapshots
  <2>. QED  BY <1>1, <1>2, <1>4, <1>5, <1>6, <2>1, SessionGives
<1>7. CASE cursor = lo
  <2>1. Deliver(r, first, cursor # lo, cursor)
    BY <1>4, <1>7
  <2>2. Intact(x) => AllIn(x.began, x.seen \cup first)
    BY <1>4, <1>5, <1>6, <1>7, AllSnapshots
  <2>. QED  BY <1>1, <1>4, <1>7, <2>1, <2>2, DeliverPages
<1>8. CASE cursor # lo
  <2>1. y = [x EXCEPT !.point = Head(LoadOrder), !.got = Idle.got, !.steps = S,
                            !.cursor = cursor, !.seen = first]
    BY <1>1, <1>4, <1>8 DEF ReplayTypeOK
  <2>2. DOMAIN x = DOMAIN Idle
    BY <1>1 DEF ReplayTypeOK
  <2>3. /\ y.began = x.began /\ y.purpose = x.purpose /\ y.missed = {} /\ DOMAIN y.got = {}
        /\ y.steps = S /\ y.cursor = cursor /\ y.seen = first
    BY <1>5, <2>1, <2>2 DEF Idle
  <2>4. ASSUME Intact(x) PROVE Covered(y)
    <3>1. ASSUME NEW i \in DOMAIN y.began.snapshots PROVE y.steps # {} /\ Played(y, i)
      <4>1. PICK step : step = _entry_step(x.began.snapshots[i])
        OBVIOUS
      <4>2. /\ Steps(S) /\ cursor \in S /\ step \in S
            /\ \/ Item("snapshots", i - 1, x.began.snapshots[i]) \in first
               \/ x.purpose = "play" /\ cursor <= step
               \/ x.purpose = "rewind" /\ step <= cursor
        BY <1>6, <2>3, <2>4, <3>1, <4>1
      <4>. QED  BY <2>3, <4>1, <4>2 DEF Played, Given
    <3>2. CASE DOMAIN y.began.snapshots = {}
      BY <1>4, <2>3, <3>2 DEF Covered
    <3>3. CASE DOMAIN y.began.snapshots # {}
      BY <1>4, <2>3, <3>1, <3>3, PlayedCovered
    <3>. QED  BY <3>2, <3>3
  <2>. QED  BY <1>5, <2>3, <2>4, TurnedPages
<1>. QED  BY <1>7, <1>8

\* An entry is at the place of the timeline that as many entries precede.
LEMMA TimelineHas ==
    ASSUME NEW a, Loaded(a), NEW timeline, timeline = _build_timeline(a), NEW n, n = Cardinality(Entries(a))
    PROVE  /\ n \in Nat /\ timeline \in [1..n -> Entries(a)]
           /\ \A e \in Entries(a) : Preceding(a, e) + 1 \in 1..n /\ timeline[Preceding(a, e) + 1] = e
<1>1. PICK S, below : S = Entries(a) /\ below = Before(a)
  OBVIOUS
<1>2. IsFiniteSet(S) /\ TotalOrder(S, below)
  BY <1>1, EntriesFinite, TimelineOrder
<1>3. PICK rank : rank = [e \in S |-> Cardinality(below[e])]
  OBVIOUS
<1>4. \A e \in S : below[e] = {d \in S : Earlier(d, e)} /\ Cardinality(below[e]) = Preceding(a, e)
  BY <1>1 DEF Before, Preceding
<1>5. timeline = Places(S, rank)
  <2>1. timeline = LET ranked == {<<Preceding(a, e), e>> : e \in S}
                   IN  [i \in 1..Cardinality(S) |-> (CHOOSE r \in ranked : r[1] = i - 1)[2]]
    BY <1>1 DEF _build_timeline, Ordered, Preceding
  <2>2. \A e \in S : rank[e] = Preceding(a, e)
    BY <1>3, <1>4
  <2>3. {<<Preceding(a, e), e>> : e \in S} = {<<rank[e], e>> : e \in S}
    BY <2>2
  <2>. QED  BY <2>1, <2>3 DEF Places
<1>6. n \in Nat /\ timeline \in [1..n -> S]
  BY <1>1, <1>2, <1>3, <1>5, OrderPlaces
<1>7. \A e \in S : Cardinality(below[e]) + 1 \in 1..n /\ timeline[Cardinality(below[e]) + 1] = e
  BY <1>1, <1>2, <1>3, <1>5, OrderPlaces
<1>. QED  BY <1>1, <1>4, <1>6, <1>7

\* Without a filter the timeline is all of it.
LEMMA Unfiltered ==
    ASSUME NEW n \in Nat, NEW s, s = [i \in 1..n |-> s[i]]
    PROVE  _filter_timeline(s, None, None, None) = s
<1>1. {i \in DOMAIN s : TRUE} = 1..n
  OBVIOUS
<1>2. _filter_timeline(s, None, None, None) = Chosen(s, 1..n)
  BY <1>1 DEF _filter_timeline, Where
<1>. QED  BY <1>2, ChosenAll

\* What lies behind the offset is on the page, or behind a page that is full.
LEMMA PageHas ==
    ASSUME NEW n \in Nat, NEW s, s \in Seq(Range(s)), Len(s) = n, NEW limit \in Nat \ {0}, NEW offset \in Nat,
           NEW page, page = _page(s, limit, offset), NEW i \in 1..n, offset < i
    PROVE  s[i] \in Range(page) \/ (Len(page) = limit /\ offset + limit < i)
<1>1. PICK size : size = Cardinality(AfterSkipped(n, offset, limit))
  OBVIOUS
<1>2. limit # None /\ Max({0, limit}) = limit /\ Max({0, offset}) = offset
  BY NoneAssumption, MaxOfTwo
<1>3. Skipped(limit, offset) = offset
  BY <1>2 DEF Skipped
<1>4. page = Part(s, offset, size)
  BY <1>1, <1>3, SamePage
<1>5. PICK l \in Int : l = offset + limit
  OBVIOUS
<1>6. AfterSkipped(n, offset, limit) = PagePlaces(n, offset, l)
  BY <1>2, <1>5 DEF AfterSkipped, PagePlaces
<1>7. size = Extent(offset, Lesser(n, l))
  BY <1>1, <1>6, WindowSize
<1>8. size = IF n <= l THEN n - offset ELSE limit
  BY <1>5, <1>7 DEF Extent, Lesser
<1>9. size \in Nat
  BY <1>8
<1>10. page = [j \in 1..size |-> s[offset + j]]
  BY <1>4 DEF Part
<1>11. Len(page) = size /\ DOMAIN page = 1..size
  BY <1>9, <1>10, FunctionList
<1>12. CASE i <= l
  <2>1. PICK j : j = i - offset
    OBVIOUS
  <2>2. j \in 1..size /\ offset + j = i
    BY <1>5, <1>8, <1>12, <2>1
  <2>3. page[j] = s[i]
    BY <1>10, <2>2
  <2>. QED  BY <1>11, <2>2, <2>3 DEF Range
<1>13. CASE ~(i <= l)
  <2>1. l < i /\ size = limit
    BY <1>5, <1>8, <1>13
  <2>. QED  BY <1>5, <1>11, <2>1
<1>. QED  BY <1>12, <1>13

\* A request of the timeline gives an entry or the next one begins before it.
LEMMA TimelineGives ==
    ASSUME NEW a, Loaded(a), NEW e \in Entries(a), NEW cursor \in Nat, cursor <= Preceding(a, e),
           NEW page, page = get_timeline(a, None, None, None, PageLimit, cursor)
    PROVE  \/ e \in Range(page)
           \/ Len(page) = PageLimit /\ cursor + PageLimit <= Preceding(a, e)
<1>1. PICK s, n, p : s = _build_timeline(a) /\ n = Cardinality(Entries(a)) /\ p = Preceding(a, e)
  OBVIOUS
<1>2. n \in Nat /\ s \in [1..n -> Entries(a)] /\ p + 1 \in 1..n /\ s[p + 1] = e
  BY <1>1, TimelineHas
<1>3. s = [i \in 1..n |-> s[i]]
  BY <1>2
<1>4. page = _page(s, PageLimit, cursor)
  BY <1>1, <1>2, <1>3, Unfiltered DEF get_timeline
<1>5. s \in Seq(Range(s)) /\ Len(s) = n
  BY <1>2, <1>3, FunctionList
<1>6. p \in Nat
  BY <1>1, TimelineGrows, PrefixSelf DEF Extends, Loaded, Dated, IsList
<1>7. PICK i : i = p + 1
  OBVIOUS
<1>8. i \in 1..n /\ cursor < i
  BY <1>1, <1>2, <1>6, <1>7
<1>9. PageLimit \in Nat \ {0}
  BY WindowAssumption
<1>10. s[i] \in Range(page) \/ (Len(page) = PageLimit /\ cursor + PageLimit < i)
  BY <1>2, <1>4, <1>5, <1>8, <1>9, PageHas
<1>. QED  BY <1>1, <1>2, <1>6, <1>7, <1>9, <1>10

\* What a reader of the timeline began with is among the entries of what it has read, with no
\* fewer entries before it than in what was pending, and no more than when it asks again.
LEMMA ReadEntry ==
    ASSUME DatedInv, NEW x, x.point = "loaded", ReaderOK(x), PagesOK(x), Intact(x), x.purpose = "timeline",
           NEW k \in DOMAIN Categories, NEW i \in DOMAIN x.began[Categories[k]],
           NEW y, DOMAIN y.got = {}, y.began = x.began
    PROVE  LET e == _entry(x.got, k, i)
           IN  /\ e \in Entries(x.got)
               /\ Item(e.category, e.sequence, e.payload) = Item(Categories[k], i - 1, x.began[Categories[k]][i])
               /\ Preceding(x.got, e) \in Nat
               /\ Preceding(Pending(x), _entry(Pending(x), k, i)) \in Nat
               /\ Preceding(Pending(y), _entry(Pending(y), k, i)) \in Nat
               /\ Preceding(Pending(x), _entry(Pending(x), k, i)) <= Preceding(x.got, e)
               /\ Preceding(x.got, e) <= Preceding(Pending(y), _entry(Pending(y), k, i))
<1>1. PICK a, p, q, c, s : a = x.got /\ p = Pending(x) /\ q = Pending(y) /\ c = Categories[k] /\ s = x.began[c]
  OBVIOUS
<1>2. /\ Started(x) /\ DOMAIN x.began = Range(Categories) /\ Loaded(a) /\ a.record.config = config
      /\ Range(Categories) \subseteq DOMAIN a /\ \A d \in Range(Categories) : IsPrefix(x.began[d], a[d])
  BY <1>1, LoadedReader DEF Paged
<1>3. Loaded(p) /\ p.record.config = config /\ \A d \in Range(Categories) : p[d] = a[d]
  BY <1>1, <1>2, PendingLists
<1>4. Started(y)
  <2>1. ASSUME NEW d \in DOMAIN y.began PROVE Dated(d, y.began[d]) /\ (Stored => Follows(y, d))
    <3>1. Dated(d, x.began[d]) /\ (Stored => Follows(x, d))
      BY <1>2, <2>1 DEF Started
    <3>. QED  BY <3>1 DEF Follows
  <2>. QED  BY <1>2, <2>1 DEF Started
<1>5. Loaded(q) /\ q.record.config = config /\ \A d \in Range(Categories) : q[d] = run[d]
  BY <1>1, <1>4, PendingLists
<1>6. Extends(p, a)
  <2>1. ASSUME NEW d \in Range(Categories) PROVE IsPrefix(p[d], a[d])
    <3>1. a[d] \in Seq(Range(a[d])) /\ p[d] = a[d]
      BY <1>2, <1>3 DEF Loaded, Dated, IsList
    <3>. QED  BY <3>1, PrefixSelf
  <2>. QED  BY <2>1 DEF Extends
<1>7. Extends(a, q)
  <2>1. ASSUME NEW d \in Range(Categories) PROVE IsPrefix(a[d], run[d])
    BY <1>1, <1>2, ReadBegins
  <2>. QED  BY <1>5, <2>1 DEF Extends
<1>8. c \in Range(Categories) /\ s \in Seq(Range(s)) /\ i \in DOMAIN s
  BY <1>1, <1>2, LoadedLists DEF Started, Dated, IsList
<1>9. At(a, k) = a[c] /\ At(p, k) = a[c]
  BY <1>1, <1>3, <1>8 DEF At
<1>10. IsPrefix(s, At(a, k)) /\ IsPrefix(s, At(p, k))
  BY <1>1, <1>2, <1>8, <1>9
<1>11. PICK e : e = _entry(a, k, i)
  OBVIOUS
<1>12. /\ _entry(p, k, i) = e /\ Preceding(p, e) \in Nat /\ Preceding(a, e) \in Nat
       /\ Preceding(p, e) <= Preceding(a, e)
  BY <1>2, <1>3, <1>6, <1>8, <1>10, <1>11, EntryWaits
<1>13. /\ i \in DOMAIN At(a, k) /\ At(a, k)[i] = s[i] /\ _entry(q, k, i) = e
       /\ Preceding(q, e) \in Nat /\ Preceding(a, e) <= Preceding(q, e)
  BY <1>2, <1>5, <1>7, <1>8, <1>10, <1>11, EntryWaits
<1>14. e \in Entries(a)
  BY <1>11, <1>13, EntryFound
<1>15. e.category = c /\ e.sequence = i - 1 /\ e.payload = s[i]
  BY <1>1, <1>11, <1>13, EntryShape
<1>. QED  BY <1>1, <1>11, <1>12, <1>13, <1>14, <1>15

LEMMA TimelinePages ==
    ASSUME ReplayTypeOK, DatedInv, NEW r \in Readers, ReaderOK(reader[r]), PagesOK(reader[r]), AnswerTimeline(r),
           NEW y, y = reader'[r]
    PROVE  PagesOK(y)
<1>1. PICK x, a, cursor : x = reader[r] /\ a = x.got /\ cursor = x.cursor
  OBVIOUS
<1>2. PICK page : page = get_timeline(a, None, None, None, PageLimit, cursor)
  OBVIOUS
<1>3. PICK items, next : items = {Item(e.category, e.sequence, e.payload) : e \in Range(page)} /\ next = cursor + PageLimit
  OBVIOUS
<1>4. Deliver(r, items, Len(page) = PageLimit, next) /\ x.point = "loaded" /\ x.purpose = "timeline"
  BY <1>1, <1>2, <1>3 DEF AnswerTimeline, Answers
<1>5. /\ ReaderOK(x) /\ PagesOK(x) /\ Loaded(a) /\ DOMAIN x.began = Range(Categories) /\ (Intact(x) => Covered(x))
  BY <1>1, <1>4, LoadedReader DEF Paged
<1>6. PageLimit \in Nat
  BY WindowAssumption
<1>7. ASSUME Intact(x), NEW k \in DOMAIN Categories, NEW i \in DOMAIN x.began[Categories[k]],
             NEW z, DOMAIN z.got = {}, z.began = x.began
      PROVE  \/ Item(Categories[k], i - 1, x.began[Categories[k]][i]) \in x.seen \cup items
             \/ Len(page) = PageLimit /\ next \in Nat /\ next <= Preceding(Pending(z), _entry(Pending(z), k, i))
  <2>1. PICK e, item, p, q :
            /\ e = _entry(a, k, i) /\ item = Item(Categories[k], i - 1, x.began[Categories[k]][i])
            /\ p = Preceding(Pending(x), _entry(Pending(x), k, i))
            /\ q = Preceding(Pending(z), _entry(Pending(z), k, i))
    OBVIOUS
  <2>2. /\ e \in Entries(a) /\ Item(e.category, e.sequence, e.payload) = item
        /\ Preceding(a, e) \in Nat /\ p \in Nat /\ q \in Nat
        /\ p <= Preceding(a, e) /\ Preceding(a, e) <= q
    BY <1>1, <1>4, <1>5, <1>7, <2>1, ReadEntry
  <2>3. cursor \in Nat /\ (item \in x.seen \/ cursor <= p)
    BY <1>1, <1>4, <1>5, <1>7, <2>1 DEF Covered, Given
  <2>4. CASE cursor <= p
    <3>1. cursor <= Preceding(a, e)
      BY <2>2, <2>3, <2>4
    <3>2. \/ e \in Range(page)
          \/ Len(page) = PageLimit /\ next <= Preceding(a, e)
      BY <1>2, <1>3, <1>5, <2>2, <2>3, <3>1, TimelineGives
    <3>3. e \in Range(page) => item \in items
      BY <1>3, <2>2
    <3>4. next \in Nat
      BY <1>3, <1>6, <2>3
    <3>5. next <= Preceding(a, e) => next <= q
      BY <2>2, <3>4
    <3>. QED  BY <2>1, <3>2, <3>3, <3>4, <3>5
  <2>. QED  BY <2>1, <2>3, <2>4
<1>8. ASSUME Len(page) = PageLimit, Intact(x), NextPage(x, y, items, next) PROVE Covered(y)
  <2>1. y.began = x.began /\ y.purpose = x.purpose /\ y.seen = x.seen \cup items /\ y.cursor = next /\ DOMAIN y.got = {}
    BY <1>8 DEF NextPage
  <2>2. next \in Nat
    BY <1>1, <1>3, <1>4, <1>5, <1>6, <1>8 DEF Covered
  <2>3. ASSUME NEW k \in DOMAIN Categories, NEW i \in DOMAIN y.began[Categories[k]]
        PROVE  Given(y, Categories[k], i) \/ y.cursor <= Preceding(Pending(y), _entry(Pending(y), k, i))
    BY <1>7, <1>8, <2>1, <2>3 DEF Given
  <2>. QED  BY <1>4, <2>1, <2>2, <2>3 DEF Covered
<1>9. ASSUME Len(page) # PageLimit, Intact(x) PROVE AllIn(x.began, x.seen \cup items)
  <2>1. ASSUME NEW c \in DOMAIN x.began, NEW i \in DOMAIN x.began[c]
        PROVE  Item(c, i - 1, x.began[c][i]) \in x.seen \cup items
    <3>1. PICK k \in DOMAIN Categories : c = Categories[k]
      BY <1>5 DEF Range
    <3>2. PICK z : z = [got |-> [n \in {} |-> None], began |-> x.began]
      OBVIOUS
    <3>3. DOMAIN z.got = {} /\ z.began = x.began
      BY <3>2
    <3>. QED  BY <1>7, <1>9, <3>1, <3>3
  <2>. QED  BY <2>1 DEF AllIn
<1>. QED  BY <1>1, <1>4, <1>8, <1>9, DeliverPages

-----------------------------------------------------------------------------
(* Paging: the theorem.                                                    *)

\* The steps of a reader that is given something, and the others.
Turn(r) == Query(r) \/ AnswerRange(r) \/ AnswerTimeline(r) \/ AnswerSession(r) \/ AnswerFrame(r)
Turnless(r) == AnswerSummary(r) \/ AnswerVerify(r) \/ StoreVerification(r)

\* Their steps are their own.
LEMMA ReaderAlone ==
    ASSUME ReplayTypeOK, NEW r \in Readers, (\E purpose : Request(r, purpose)) \/ Turn(r) \/ Turnless(r),
           NEW q \in Readers, q # r
    PROVE  reader'[q] = reader[q]
<1>. USE DEF ReplayTypeOK
<1>1. ASSUME reader' = [reader EXCEPT ![r] = reader'[r]] PROVE reader'[q] = reader[q]
  BY <1>1
<1>2. ASSUME NEW items, NEW more, NEW cursor, Deliver(r, items, more, cursor)
      PROVE  reader'[q] = reader[q]
  BY <1>2 DEF Deliver
<1>3. CASE \E purpose : Request(r, purpose)
  BY <1>3 DEF Request
<1>4. CASE Query(r)
  BY <1>4 DEF Query
<1>5. CASE AnswerRange(r) \/ AnswerTimeline(r) \/ AnswerFrame(r)
  BY <1>2, <1>5 DEF AnswerRange, AnswerTimeline, AnswerFrame
<1>6. CASE AnswerSession(r)
  <2>1. PICK session, first, cursor :
            \/ Deliver(r, first, FALSE, cursor)
            \/ reader' = [reader EXCEPT ![r] =
                   [@ EXCEPT !.point = Head(LoadOrder), !.got = Idle.got, !.steps = session.steps,
                             !.cursor = cursor, !.seen = first]]
    BY <1>6 DEF AnswerSession
  <2>. QED  BY <1>2, <2>1
<1>7. CASE Turnless(r)
  <2>1. reader' = [reader EXCEPT ![r] = reader'[r]]
    BY <1>7 DEF Turnless, AnswerSummary, AnswerVerify, StoreVerification
  <2>. QED  BY <1>1, <2>1
<1>. QED  BY <1>3, <1>4, <1>5, <1>6, <1>7 DEF Turn

LEMMA TurnlessPages ==
    ASSUME ReplayTypeOK, NEW r \in Readers, PagesOK(reader[r]), Turnless(r), NEW y, y = reader'[r]
    PROVE  PagesOK(y)
<1>. USE DEF ReplayTypeOK
<1>1. CASE AnswerSummary(r) \/ StoreVerification(r)
  <2>1. CASE AnswerSummary(r)
    <3>1. PICK answer : y = [Idle EXCEPT !.point = "done", !.purpose = "summary", !.answer = answer]
      BY <2>1 DEF AnswerSummary
    <3>2. y.missed = {} /\ y.point = "done"
      BY <3>1 DEF Idle
    <3>. QED  BY <3>2, NotReading
  <2>2. CASE StoreVerification(r)
    <3>1. y = Gone
      BY <2>2 DEF StoreVerification
    <3>2. y.missed = {} /\ y.point = "over"
      BY <3>1 DEF Gone, Idle
    <3>. QED  BY <3>2, NotReading
  <2>. QED  BY <1>1, <2>1, <2>2
<1>2. CASE AnswerVerify(r)
  <2>1. y.missed = reader[r].missed /\ y.point = "store" /\ reader[r].missed = {}
    BY <1>2 DEF AnswerVerify, PagesOK, Idle
  <2>. QED  BY <2>1, NotReading
<1>. QED  BY <1>1, <1>2 DEF Turnless

LEMMA TurnPages ==
    ASSUME ReplayTypeOK, DatedInv, NEW r \in Readers, ReaderOK(reader[r]), PagesOK(reader[r]), Turn(r),
           NEW y, y = reader'[r]
    PROVE  PagesOK(y)
BY QueryPages, RangePages, TimelinePages, SessionPages, FramePages DEF Turn

\* A step that leaves the build as it is, before what it does to the run is taken into account.
LEMMA ReaderPages ==
    ASSUME ReplayTypeOK, DatedInv, ReaderInv, \A r \in Readers : PagesOK(reader[r]), [Next]_vars, build' = build,
           NEW q \in Readers, NEW y, y = reader'[q]
    PROVE  PagesOK(y)
<1>1. CASE UNCHANGED reader
  BY <1>1
<1>2. ASSUME NEW r \in Readers, NEW purpose, Request(r, purpose)
      PROVE  PagesOK(y)
  <2>1. CASE q = r
    BY <1>2, <2>1, RequestPages
  <2>2. CASE q # r
    BY <1>2, <2>2, ReaderAlone
  <2>. QED  BY <2>1, <2>2
<1>3. ASSUME NEW r \in Readers, Turn(r) \/ Turnless(r)
      PROVE  PagesOK(y)
  <2>1. CASE q = r
    <3>1. ReaderOK(reader[r]) /\ PagesOK(reader[r]) /\ y = reader'[r]
      BY <2>1 DEF ReaderInv
    <3>. QED  BY <1>3, <3>1, TurnPages, TurnlessPages
  <2>2. CASE q # r
    BY <1>3, <2>2, ReaderAlone
  <2>. QED  BY <2>1, <2>2
<1>4. CASE \/ \E t \in DOMAIN thread :
                 Open(t) \/ Start(t) \/ Publish(t) \/ Fail(t) \/ StoreResult(t) \/ Complete(t) \/ Crash(t)
           \/ CancelRead \/ CancelWrite \/ DeleteRun \/ Ended \/ UNCHANGED vars
  <2>1. UNCHANGED reader
    BY <1>4 DEF Open, Start, Publish, Fail, StoreResult, Complete, Crash, CancelRead, CancelWrite, DeleteRun,
                Ended, vars
  <2>. QED  BY <1>1, <2>1
<1>5. CASE Deploy
  <2>1. build' = build + 1 /\ build \in Nat
    BY <1>5, ScenariosAssumption, ListShape DEF Deploy, ReplayTypeOK, IsList
  <2>. QED  BY <2>1
<1>6. ASSUME NEW r \in Readers,
             \/ \E purpose \in scenario.requests : Request(r, purpose)
             \/ Query(r) \/ AnswerRange(r) \/ AnswerTimeline(r) \/ AnswerSession(r) \/ AnswerFrame(r)
             \/ AnswerSummary(r) \/ AnswerVerify(r) \/ StoreVerification(r)
      PROVE  PagesOK(y)
  BY <1>2, <1>3, <1>6, Zenon DEF Turn, Turnless
<1>. QED  BY <1>4, <1>5, <1>6, Zenon DEF Next

LEMMA PagingInit == Init => PagingInv
<1>. SUFFICES ASSUME Init PROVE PagingInv
  OBVIOUS
<1>1. ASSUME NEW r \in Readers PROVE PagesOK(reader[r])
  <2>1. PICK x : x = reader[r]
    OBVIOUS
  <2>2. x.missed = {} /\ x.point = "idle"
    BY <2>1 DEF Init, Idle
  <2>. QED  BY <2>1, <2>2, NotReading
<1>. QED  BY <1>1, VerdictInit, WholeInit, DatedInit DEF PagingInv

LEMMA PagingNext ==
    ASSUME PagingInv, [Next]_vars
    PROVE  PagingInv'
<1>1. /\ ReplayTypeOK /\ ReaderInv /\ WholeInv /\ DatedInv /\ \A r \in Readers : PagesOK(reader[r])
      /\ VerdictInv' /\ ReplayTypeOK'
  BY VerdictNext DEF PagingInv, VerdictInv
<1>2. WholeInv' /\ DatedInv'
  BY <1>1, WholeNext, DatedNext
<1>3. ASSUME NEW q \in Readers, NEW y, y = reader'[q]
      PROVE  PagesOK(y)'
  <2>1. CASE build' = build
    <3>1. PagesOK(y)
      BY <1>1, <1>3, <2>1, ReaderPages
    <3>. QED  BY <1>1, <1>2, <2>1, <3>1, PagesStay
  <2>2. CASE build' # build
    <3>1. Deploy
      <4>1. ASSUME NEW t, \/ Open(t) \/ Start(t) \/ Publish(t) \/ Fail(t) \/ StoreResult(t) \/ Complete(t) \/ Crash(t)
            PROVE  build' = build
        BY <4>1 DEF Open, Start, Publish, Fail, StoreResult, Complete, Crash
      <4>2. ASSUME CancelRead \/ CancelWrite \/ DeleteRun \/ Ended \/ UNCHANGED vars
            PROVE  build' = build
        BY <4>2 DEF CancelRead, CancelWrite, DeleteRun, Ended, vars
      <4>3. ASSUME NEW r, \/ \E purpose \in scenario.requests : Request(r, purpose)
                          \/ Query(r) \/ AnswerRange(r) \/ AnswerTimeline(r) \/ AnswerSession(r) \/ AnswerFrame(r)
                          \/ AnswerSummary(r) \/ AnswerVerify(r) \/ StoreVerification(r)
            PROVE  build' = build
        BY <4>3 DEF Request, Query, AnswerRange, AnswerTimeline, AnswerSession, AnswerFrame, AnswerSummary,
                    AnswerVerify, StoreVerification, Deliver
      <4>. QED  BY <2>2, <4>1, <4>2, <4>3, Zenon DEF Next
    <3>2. y.missed = {} /\ y.point \in {"idle", "over"}
      BY <1>3, <3>1 DEF Deploy, Gone, Idle
    <3>. QED  BY <3>2, Queried DEF PagesOK, Reading
  <2>. QED  BY <2>1, <2>2
<1>4. ASSUME NEW q \in Readers PROVE PagesOK(reader[q])'
  <2>1. PICK y : y = reader'[q]
    OBVIOUS
  <2>2. PagesOK(y)'
    BY <1>3, <2>1
  <2>. QED  BY <2>1, <2>2 DEF PagesOK
<1>. QED  BY <1>1, <1>2, <1>4 DEF PagingInv

\* Paging misses nothing: of any number of artifacts, windows and pages of any size, whatever
\* attempts, cancel requests and other clients store between two pages, a client that came to
\* the end was given everything that was stored when it began, unless the run was deleted or
\* another build's result took its place.
THEOREM PagingMissesNothing == Spec => []PagesMissNothing
<1>1. PagingInv => PagesMissNothing
  BY DEF PagingInv, PagesOK, PagesMissNothing
<1>. QED  BY <1>1, PagingInit, PagingNext, PTL DEF Spec
=============================================================================
