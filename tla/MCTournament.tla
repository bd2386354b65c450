---------------------------- MODULE MCTournament ----------------------------
(***************************************************************************)
(* Requests of every tournament type, among them one that is refused and   *)
(* one that expands to nothing.                                            *)
(***************************************************************************)
EXTENDS TournamentProperties

One == <<49>>
Two == <<50>>
Letter == <<97>>
MCSpelling == [word \in Words |-> Letter]

Parameter(name, values) == [name |-> name, values |-> values]
NoSweep == [on |-> FALSE, strategy |-> Letter, parameters |-> <<>>]
Sweep(parameters) == [on |-> TRUE, strategy |-> Letter, parameters |-> parameters]

Request(type, strategies, seeds, symbols) ==
    [type |-> type, strategies |-> strategies, seeds |-> seeds, symbols |-> symbols,
     scenarios |-> <<Letter>>, participant_counts |-> <<One>>, volatility_ranges |-> <<One>>,
     strategy_parameters |-> <<>>, sweep |-> NoSweep]

\* The values of the last are 2 and 12.
TwoParameters ==
    <<Parameter(Letter, <<One>>), Parameter(<<98>>, <<Two, One \o Two>>)>>

MCConfigs ==
    {Request("strategy_vs_strategy", <<Letter>>, <<One>>, <<Letter>>),
     Request("strategy_vs_strategy", <<>>, <<One>>, <<Letter>>),
     Request("strategy_vs_scenario", <<>>, <<One>>, <<Letter>>),
     [Request("parameter_sweep", <<Letter>>, <<One>>, <<Letter>>)
         EXCEPT !.strategy_parameters = <<Parameter(Letter, <<>>)>>],
     [Request("parameter_sweep", <<>>, <<One>>, <<Letter>>) EXCEPT !.sweep = Sweep(TwoParameters)],
     Request("multi_symbol_sweep", <<Letter>>, <<One>>, <<Letter>>)}

\* The premises of EveryChildLinked hold of these requests.
ASSUME KeysDiffer == \A c \in MCConfigs : RepeatFree(c) /\ Separated(c)

\* Why they are needed: a repeated text, and the request {a: ["1", "1,b=2"], b: ["3", "2,b=3"]},
\* that repeats none, give two children one key.
Colliding(c) == WellFormed(c) /\ \E s, t \in expand_tournament(c) : s # t /\ s.key = t.key
ASSUME KeysCollide ==
    LET b == <<98>>
        three == <<51>>
        rest == <<Comma>> \o Item(b, Two)
        parameters == <<Parameter(Letter, <<One, One \o rest>>),
                        Parameter(b, <<three, Two \o <<Comma>> \o Item(b, three)>>)>>
        repeated == Request("strategy_vs_strategy", <<Letter>>, <<One, One>>, <<Letter>>)
        unescaped == [Request("parameter_sweep", <<>>, <<One>>, <<Letter>>) EXCEPT !.sweep = Sweep(parameters)]
    IN  Colliding(repeated) /\ Colliding(unescaped) /\ RepeatFree(unescaped)

MCRuns == 1..2
MCMetrics == {<<1, 1>>}
=============================================================================
