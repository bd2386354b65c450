------------------------------ MODULE MCReplay ------------------------------
(***************************************************************************)
(* Sessions and backtests of one and of two symbols, on an engine whose    *)
(* next build answers alike, trades elsewhere, or gives other prices.      *)
(***************************************************************************)
EXTENDS ReplayProperties

Trade(price, qty) == [type |-> "TradeExecuted", price |-> price, qty |-> qty]
Rested == [type |-> "OrderAccepted"]
Rejected == [type |-> "OrderRejected"]
Halt == [type |-> "SymbolHalted"]
Uncross == [type |-> "AuctionUncross", price |-> 2, qty |-> 1]
NoBook == [bids |-> <<>>, asks |-> <<>>]

Answer(side, events, book) ==
    [commands |-> <<[side |-> side, events |-> events]>>, halt |-> <<>>, uncross |-> <<>>, book |-> book]

Quiet == Answer("BUY", <<Rested>>, NoBook)
Buys(price) == Answer("BUY", <<Rested, Trade(price, 1)>>, [bids |-> <<1>>, asks |-> <<>>])
Sells == Answer("SELL", <<Rejected, Trade(2, 2)>>, [bids |-> <<1>>, asks |-> <<2>>])
Auction == [Sells EXCEPT !.halt = <<Halt>>, !.uncross = <<Trade(1, 1), Uncross>>]

Config(type, symbols, steps, stream) ==
    [run_type |-> type, symbols |-> symbols, steps |-> steps, progress_interval |-> 2,
     stream_snapshots |-> stream]

MCScenarios ==
    {[config |-> Config("session", <<"A">>, 2, FALSE), requests |-> {"range", "timeline", "play", "rewind"},
      tapes |-> <<<<Quiet, Auction>>, <<Quiet, Auction>>>>],
     [config |-> Config("session", <<"DEFAULT", "A">>, 1, FALSE), requests |-> {"summary", "verify"},
      tapes |-> <<<<Sells, Quiet>>, <<Sells, Buys(2)>>>>],
     [config |-> Config("session", <<"A">>, 1, TRUE), requests |-> {"range"},
      tapes |-> <<<<Buys(2)>>, <<Buys(1)>>>>],
     [config |-> Config("backtest", <<"DEFAULT">>, 0, FALSE), requests |-> {"summary", "verify"},
      tapes |-> <<<<Buys(2)>>, <<Buys(1)>>>>],
     [config |-> Config("backtest", <<"A">>, 0, FALSE), requests |-> {"summary", "verify"},
      tapes |-> <<<<Sells>>, <<Quiet>>>>]}

\* No filter and two; pages that begin before the first artifact and after it.
MCQueries ==
    {[symbol |-> filter[1], type |-> filter[2], account |-> filter[3], limit |-> page[1], offset |-> page[2]] :
        filter \in {<<None, None, None>>, <<"DEFAULT", "TradeExecuted", None>>, <<"A", None, "trader">>},
        page \in {<<2, -1>>, <<None, 1>>}}

\* Why StoresAgree excepts the account filter "None": an account without account_id, as every
\* stored one is, matches it in memory and not in SQLite.
ASSUME NoneMatches ==
    LET accounts == <<[positions |-> [A |-> 1]]>>
        q == [symbol |-> None, type |-> None, account |-> "None", limit |-> None, offset |-> 0]
    IN  /\ MemoryGet("accounts", accounts, q) = accounts
        /\ SQLiteGet("accounts", accounts, q) = <<>>

Symmetry == Permutations(Attempts)
=============================================================================
