----------------------------- MODULE MarketRuns -----------------------------
(***************************************************************************)
(* sim/session/runner.py, sim/backtest/runner.py and the services that     *)
(* call them: the artifacts of a run, from what the engine answered.       *)
(*                                                                         *)
(* The loops over steps and symbols are sequences of visits; the tape      *)
(* holds for every visit the commands given to the engine (a side and the  *)
(* events each returned), the events of the market calls (halt, uncross)   *)
(* and the book after them, the prices of its levels, best first.  Cash    *)
(* is counted from the initial cash, equity and P&L are kept twice their   *)
(* value (a mid price may be a half), and no fee schedule is configured.   *)
(***************************************************************************)
EXTENDS EventModels, Selections, SequencesExt, FiniteSetsExt

\* The sum of f over a sequence.
Total(s, f(_)) == SumFunction([i \in DOMAIN s |-> f(s[i])])
Count(s, test(_)) == Len(Where(s, test))
OfType(type, e) == e.type = type
IsTrade(e) == OfType("TradeExecuted", e)
Qty(e) == e.data.qty
Notional(e) == e.data.price * e.data.qty
Sign(side) == IF side = "BUY" THEN 1 ELSE IF side = "SELL" THEN -1 ELSE 0

\* execute_command: the engine's answer, parsed.
execute_command(answers, symbol) ==
    [i \in DOMAIN answers |-> parse_event(event_to_py(answers[i], symbol))]

\* What the trades of a command do to the book-keeping of the run.
Bought(command, symbol) ==
    Sign(command.side) * Total(Where(execute_command(command.events, symbol), IsTrade), Qty)
Paid(command, symbol) ==
    Sign(command.side) * Total(Where(execute_command(command.events, symbol), IsTrade), Notional)

-----------------------------------------------------------------------------
(* A session: every step visits every symbol.                              *)

Visits(config) ==
    LET n == Len(config.symbols)
    IN  [i \in 1..(config.steps * n) |->
            [step |-> (i - 1) \div n, symbol |-> config.symbols[((i - 1) % n) + 1]]]

\* The events of a visit, in the order of the calls: halt, commands, uncross.
VisitEvents(answer, symbol) ==
    execute_command(answer.halt \o FlattenSeq([c \in DOMAIN answer.commands |->
                                                  answer.commands[c].events]) \o answer.uncross, symbol)

Mid2(book) == IF book.bids # <<>> /\ book.asks # <<>> THEN book.bids[1] + book.asks[1] ELSE 0

\* halted_symbols.add and .discard: the last of the symbol's halts and resumptions is a halt.
StillHalted(events, symbol) ==
    \E i \in DOMAIN events :
        /\ OfType("SymbolHalted", events[i]) /\ events[i].data.symbol = symbol
        /\ \A j \in i..Len(events) :
              ~(OfType("SymbolResumed", events[j]) /\ events[j].data.symbol = symbol)

SessionReport(config, tape) ==
    LET visits == Visits(config)
        At(symbol) == {i \in DOMAIN visits : visits[i].symbol = symbol}
        step(i) == VisitEvents(tape[i], visits[i].symbol)
        events == FlattenSeq([i \in DOMAIN visits |-> step(i)])
        trades == Where(events, IsTrade)
        Over(f(_, _), i) == Total(tape[i].commands, LAMBDA c : f(c, visits[i].symbol))
        position(s) == MapThenSumSet(LAMBDA i : Over(Bought, i), At(s))
        pnl == [s \in Range(config.symbols) |-> position(s) * Mid2(tape[Max(At(s))].book)]
        cash == -MapThenSumSet(LAMBDA i : Over(Paid, i), DOMAIN visits)
    IN  [total_steps |-> config.steps,
         total_orders |-> Total(tape, LAMBDA a : Len(a.commands)),
         total_trades |-> Len(trades),
         total_volume |-> Total(trades, Qty),
         traded_notional |-> Total(trades, Notional),
         per_symbol_volume |-> [s \in Range(config.symbols) |->
             MapThenSumSet(LAMBDA i : Total(Where(step(i), IsTrade), Qty), At(s))],
         rejected_orders |-> Count(events, LAMBDA e : OfType("OrderRejected", e)),
         halt_count |-> Count(events, LAMBDA e : OfType("SymbolHalted", e)),
         halted_symbols |-> {s \in Range(config.symbols) : StillHalted(events, s)},
         per_symbol_pnl |-> pnl,
         realized_pnl |-> cash,
         final_equity |-> 2 * cash + MapThenSumSet(LAMBDA s : pnl[s], DOMAIN pnl)]

SessionAccount(report) ==
    [cash |-> report.realized_pnl, positions |-> [s \in {} |-> 0],
     mark_to_market |-> report.per_symbol_pnl, equity |-> report.final_equity]

\* The services: what is handed to store_result.
run_session(config, tape) ==
    LET visits == Visits(config)
        report == SessionReport(config, tape)
    IN  [report |-> report,
         events |-> FlattenSeq([i \in DOMAIN visits |->
             LET events == VisitEvents(tape[i], visits[i].symbol)
             IN  [j \in DOMAIN events |-> serialize_event(events[j])]]),
         snapshots |-> [i \in DOMAIN visits |->
             [step |-> visits[i].step, symbol |-> visits[i].symbol, snapshot |-> tape[i].book]],
         accounts |-> <<SessionAccount(report)>>]

-----------------------------------------------------------------------------
(* A backtest: one step per command of the strategy.  The strategies order *)
(* the default symbol, whatever symbols the run is configured with.        *)

Trades(tape, i) == Where(execute_command(tape[i].commands[1].events, DEFAULT_SYMBOL), IsTrade)

\* The default symbol gets a position with its first trade.
BacktestPositions(config, tape, n) ==
    [s \in Range(config.symbols)
           \cup {d \in {DEFAULT_SYMBOL} : \E i \in 1..n : Trades(tape, i) # <<>>} |->
        IF s = DEFAULT_SYMBOL
        THEN MapThenSumSet(LAMBDA i : Bought(tape[i].commands[1], s), 1..n) ELSE 0]

\* Nothing is ever ordered of another symbol.
BacktestBook(answer, symbol) ==
    IF symbol = DEFAULT_SYMBOL THEN answer.book ELSE [bids |-> <<>>, asks |-> <<>>]

\* BacktestRunner._mid: a whole number; one side is enough.
BacktestMid2(book) ==
    CASE book.bids # <<>> /\ book.asks # <<>> -> 2 * ((book.bids[1] + book.asks[1]) \div 2)
      [] book.bids = <<>> /\ book.asks # <<>> -> 2 * book.asks[1]
      [] book.bids # <<>> /\ book.asks = <<>> -> 2 * book.bids[1]
      [] OTHER -> 0

\* Only configured symbols have a snapshot to be marked with.
BacktestAccount(config, tape, n) ==
    LET cash == -MapThenSumSet(LAMBDA i : Paid(tape[i].commands[1], DEFAULT_SYMBOL), 1..n)
        positions == BacktestPositions(config, tape, n)
        value(s) == positions[s] * BacktestMid2(BacktestBook(tape[n], s))
    IN  [cash |-> cash, positions |-> positions,
         equity |-> 2 * cash + MapThenSumSet(value, Range(config.symbols))]

run_backtest(config, tape) ==
    LET answer(i) == execute_command(tape[i].commands[1].events, DEFAULT_SYMBOL)
        events == FlattenSeq([i \in DOMAIN tape |-> answer(i)])
        trades == Where(events, IsTrade)
        accounts == [i \in DOMAIN tape |-> BacktestAccount(config, tape, i)]
    IN  [report |-> [ending_equity |-> Last(accounts).equity,
                     cash_balance |-> Last(accounts).cash,
                     per_symbol_position |-> Last(accounts).positions,
                     total_traded_notional |-> Total(trades, Notional),
                     total_trades |-> Len(trades),
                     total_orders |-> Len(tape),
                     rejected_orders |-> Count(events, LAMBDA e : OfType("OrderRejected", e))],
         events |-> [i \in DOMAIN events |-> serialize_event(events[i])],
         snapshots |-> [i \in DOMAIN tape |->
             [step |-> i, symbols |-> [s \in Range(config.symbols) |-> BacktestBook(tape[i], s)]]],
         accounts |-> accounts]

\* Every answer of the engine is one that parse_events takes.
Readable(config, tape) ==
    \A i \in DOMAIN tape : \A s \in Range(config.symbols) \cup {DEFAULT_SYMBOL} :
        LET answers == tape[i].halt \o tape[i].uncross
                           \o FlattenSeq([c \in DOMAIN tape[i].commands |-> tape[i].commands[c].events])
        IN  \A j \in DOMAIN answers : Parses(event_to_py(answers[j], s))

Artifacts(config, tape) ==
    IF config.run_type = "session" THEN run_session(config, tape) ELSE run_backtest(config, tape)

\* The steps at which the runners report progress: the first, every progress_interval-th
\* and the last one, counted from one.
ProgressSteps(config, tape) ==
    LET last == IF config.run_type = "session" THEN config.steps ELSE Len(tape)
    IN  {s \in 1..last : s = 1 \/ s = last \/ s % config.progress_interval = 0}
=============================================================================
