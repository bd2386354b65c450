--------------------------- MODULE TournamentPlan ---------------------------
(***************************************************************************)
(* sim/api/tournaments.py: how a tournament request is expanded into child *)
(* runs, and how the records of the children become the ranked report.     *)
(*                                                                         *)
(* A text is the sequence of its character codes.  Seeds, counts and       *)
(* volatilities are given as the texts they are rendered to, and so are    *)
(* the values of parameters; the parameters are in the order of their      *)
(* names.                                                                  *)
(***************************************************************************)
EXTENDS Naturals, Sequences, FiniteSets, SequencesExt

CONSTANT Spelling   \* the texts of the words the code puts into keys and requests

Plus == 43
Comma == 44
Equals == 61
Bar == 124

Text == Seq(Nat)
Plain == Seq(Nat \ {Bar})   \* the texts of numbers, and of the words of the code
Words == {"none", "parameters", "participants", "scenario", "seed", "session_participants",
          "strategy", "symbols", "volatility"}

ASSUME SpellingAssumption == Spelling \in [Words -> Plain]

\* The order of texts: at the first difference, or by length.
Before(a, b) ==
    \/ \E i \in DOMAIN a \cap DOMAIN b :
           (\A j \in 1..(i - 1) : a[j] = b[j]) /\ a[i] < b[i]
    \/ Len(a) < Len(b) /\ \A i \in DOMAIN a : a[i] = b[i]

\* separator.join(texts)
Joined(texts, separator) ==
    FlattenSeq([i \in DOMAIN texts |-> IF i = 1 THEN texts[i] ELSE <<separator>> \o texts[i]])

Item(name, text) == name \o <<Equals>> \o text

\* Mutant of Combination: only the first parameter is rendered.
CombinationFirst(parameters, values) ==
    IF parameters = <<>> THEN Spelling["none"] ELSE Item(parameters[1].name, values[1])

\* How _key renders a dict of parameters.  Nothing is escaped, here or below.
Combination(parameters, values) ==
    IF parameters = <<>> THEN Spelling["none"]
    ELSE Joined([i \in DOMAIN parameters |-> Item(parameters[i].name, values[i])], Comma)

\* The parts as <<name, text>>, in the order of their names; a list is joined by Plus.
_key(parts) == Joined([i \in DOMAIN parts |-> Item(Spelling[parts[i][1]], parts[i][2])], Bar)

\* itertools.product: one position of every list.
Picks(lists) ==
    {p \in [DOMAIN lists -> UNION {DOMAIN lists[i] : i \in DOMAIN lists}] :
        \A i \in DOMAIN lists : p[i] \in DOMAIN lists[i]}

Values(lists, p) == [i \in DOMAIN lists |-> lists[i][p[i]]]

\* One child per pick, under the key of the picked texts.
Product(lists, key, type) ==
    {[pick |-> p, key |-> key[p], type |-> type] : p \in Picks(lists)}

_strategy_backtests(c) ==
    LET lists == <<c.seeds, c.strategies>>
        v(p) == Values(lists, p)
    IN  Product(lists, [p \in Picks(lists) |->
                    _key(<<<<"parameters", Spelling["none"]>>, <<"seed", v(p)[1]>>,
                           <<"strategy", v(p)[2]>>, <<"symbols", Joined(c.symbols, Plus)>>>>)],
                "backtest")

_scenario_sessions(c) ==
    LET strategies == IF c.strategies = <<>> THEN <<Spelling["session_participants"]>> ELSE c.strategies
        lists == <<c.participant_counts, c.scenarios, c.seeds, strategies, c.volatility_ranges>>
        v(p) == Values(lists, p)
    IN  Product(lists, [p \in Picks(lists) |->
                    _key(<<<<"participants", v(p)[1]>>, <<"scenario", v(p)[2]>>, <<"seed", v(p)[3]>>,
                           <<"strategy", v(p)[4]>>, <<"volatility", v(p)[5]>>>>)],
                "session")

\* A value of every parameter, and a seed.
_parameter_sweep(c) ==
    LET strategy == IF c.sweep.on THEN c.sweep.strategy ELSE Head(c.strategies)
        parameters == IF c.sweep.on THEN c.sweep.parameters ELSE c.strategy_parameters
        lists == Append([i \in DOMAIN parameters |-> parameters[i].values], c.seeds)
        v(p) == Values(lists, p)
    IN  Product(lists, [p \in Picks(lists) |->
                    _key(<<<<"parameters", Combination(parameters, v(p))>>, <<"seed", Last(v(p))>>,
                           <<"strategy", strategy>>, <<"symbols", Joined(c.symbols, Plus)>>>>)],
                "backtest")

\* Every symbol alone, and all of them joined if there are several.
SymbolSets(symbols) ==
    symbols \o IF Len(symbols) > 1 THEN <<Joined(symbols, Plus)>> ELSE <<>>

_multi_symbol_sweep(c) ==
    LET lists == <<c.seeds, c.strategies, SymbolSets(c.symbols)>>
        v(p) == Values(lists, p)
    IN  Product(lists, [p \in Picks(lists) |->
                    _key(<<<<"seed", v(p)[1]>>, <<"strategy", v(p)[2]>>, <<"symbols", v(p)[3]>>>>)],
                "backtest")

\* The fields of TournamentConfig; parameters is one of the two dicts of parameters.
IsParameters(parameters) ==
    /\ parameters \in Seq(Range(parameters))
    /\ \A i \in DOMAIN parameters : parameters[i].name \in Text /\ parameters[i].values \in Seq(Text)

IsConfig(c) ==
    /\ c.type \in {"strategy_vs_strategy", "strategy_vs_scenario", "parameter_sweep", "multi_symbol_sweep"}
    /\ c.strategies \in Seq(Text) /\ c.scenarios \in Seq(Text) /\ c.symbols \in Seq(Text)
    /\ c.seeds \in Seq(Plain) /\ c.participant_counts \in Seq(Plain)
    /\ c.volatility_ranges \in Seq(Plain) /\ IsParameters(c.strategy_parameters)
    /\ c.sweep.on \in BOOLEAN /\ c.sweep.strategy \in Text /\ IsParameters(c.sweep.parameters)

\* What the validators of TournamentConfig and ParameterSweepConfig accept.  The lists of
\* strategy_parameters may be empty, any list may repeat a value, and texts may contain
\* the separators.
WellFormed(c) ==
    /\ c.seeds # <<>> /\ c.participant_counts # <<>> /\ c.volatility_ranges # <<>>
    /\ <<>> \notin Range(c.strategies) \cup Range(c.scenarios) \cup Range(c.symbols)
    /\ c.sweep.on =>
           /\ c.sweep.strategy # <<>>
           /\ \A i \in DOMAIN c.sweep.parameters :
                  c.sweep.parameters[i].name # <<>> /\ c.sweep.parameters[i].values # <<>>

\* What _require asks of the lists a tournament type uses.
Expandable(c) ==
    /\ c.symbols # <<>>
    /\ c.type = "strategy_vs_scenario" => c.scenarios # <<>>
    /\ c.type \in {"strategy_vs_strategy", "multi_symbol_sweep"} => c.strategies # <<>>
    /\ c.type = "parameter_sweep" /\ ~c.sweep.on => c.strategies # <<>>

expand_tournament(c) ==
    CASE c.type = "strategy_vs_strategy" -> _strategy_backtests(c)
      [] c.type = "strategy_vs_scenario" -> _scenario_sessions(c)
      [] c.type = "parameter_sweep" -> _parameter_sweep(c)
      [] c.type = "multi_symbol_sweep" -> _multi_symbol_sweep(c)

-----------------------------------------------------------------------------
Terminal == {"completed", "failed", "canceled"}

\* Links as [key, run]; read: the records that were found, [status, metrics] by run.
StatusIn(read, r) == IF r \in DOMAIN read THEN read[r].status ELSE "failed"

\* Completed children by descending (score, ending equity, key), the others by key.
Ranked(links, read) ==
    LET standing(l) == read[l.run].metrics \o l.key
    IN  SetToSortSeq({l \in links : StatusIn(read, l.run) = "completed"},
                     LAMBDA l, m : Before(standing(m), standing(l)))

Failures(links, read) ==
    SetToSortSeq({l \in links : StatusIn(read, l.run) \in {"failed", "canceled"}},
                 LAMBDA l, m : Before(l.key, m.key))

\* Mutant of build_report: failed children are not terminal.
BuildReportUnfailed(links, read) ==
    LET number(statuses) == Cardinality({l \in links : StatusIn(read, l.run) \in statuses})
    IN  [status |-> CASE links = {} -> "failed"
                      [] number({"completed", "canceled"}) = Cardinality(links) -> "completed"
                      [] OTHER -> "running",
         completed |-> number({"completed"}), failed |-> number({"failed"}),
         results |-> Ranked(links, read), failures |-> Failures(links, read)]

build_report(links, read) ==
    LET number(statuses) == Cardinality({l \in links : StatusIn(read, l.run) \in statuses})
    IN  [status |-> CASE links = {} -> "failed"
                      [] number(Terminal) = Cardinality(links) -> "completed"
                      [] OTHER -> "running",
         completed |-> number({"completed"}), failed |-> number({"failed"}),
         results |-> Ranked(links, read), failures |-> Failures(links, read)]
=============================================================================
