----------------------------- MODULE EventModels -----------------------------
(***************************************************************************)
(* sim/tes_models/events.py and sim/tes_serialization/events.py: the       *)
(* events of the engine as Python sees them.                               *)
(*                                                                         *)
(* A dict is a function from its keys.  Of an event's data only the        *)
(* symbol, the price and the quantity have a value here; the parser wants  *)
(* the other keys to be there.                                             *)
(***************************************************************************)
EXTENDS Integers, Sequences

CONSTANT None   \* Python's None

ASSUME NoneAssumption == None \notin Int

DEFAULT_SYMBOL == "DEFAULT"

\* dict.get
Get(dict, key) == IF key \in DOMAIN dict THEN dict[key] ELSE None

\* The keys of the events whose symbol may be left out.
OrderData == [
    OrderAccepted |-> {"order_id", "side", "price", "qty"},
    HiddenOrderAccepted |-> {"order_id", "side", "price", "total_qty"},
    IcebergOrderAccepted |-> {"order_id", "side", "price", "total_qty", "display_qty",
                              "reserve_qty", "hidden_remaining", "current_visible_qty"},
    IcebergReplenished |-> {"order_id", "side", "price", "replenished_qty", "reserve_qty",
                            "hidden_remaining", "total_remaining_qty"},
    OrderCanceled |-> {"order_id"},
    OrderRejected |-> {"side", "price", "qty", "reason"},
    CancelRejected |-> {"order_id", "reason"},
    TradeExecuted |-> {"price", "qty", "maker_order_id", "taker_order_id"},
    OrderPartiallyFilled |-> {"order_id", "last_fill_qty", "remaining_qty"},
    OrderFilled |-> {"order_id", "last_fill_qty"},
    OrderExpired |-> {"order_id"},
    StopOrderAccepted |-> {"order_id", "side", "stop_price", "qty", "limit_price"},
    StopOrderTriggered |-> {"order_id", "resulting_order_id", "side", "stop_price", "qty",
                            "limit_price"},
    TopOfBook |-> {"best_bid", "best_ask"}]

\* The keys of the events that must name their symbol.
MarketData == [
    AuctionStarted |-> {"symbol", "phase"},
    AuctionEnded |-> {"symbol", "phase"},
    AuctionUncross |-> {"symbol", "price", "qty", "imbalance"},
    SymbolHalted |-> {"symbol", "reason"},
    SymbolResumed |-> {"symbol"},
    PriceBandUpdated |-> {"symbol", "lower_price", "upper_price"},
    CircuitBreakerTriggered |-> {"symbol", "price", "reason"},
    IndicativePriceUpdated |-> {"symbol", "price", "qty", "imbalance"}]

TesEngineEvent == DOMAIN OrderData \cup DOMAIN MarketData

\* The binding: every event names its symbol.
event_to_py(e, symbol) ==
    LET keys == IF e.type \in DOMAIN OrderData THEN OrderData[e.type] ELSE MarketData[e.type]
    IN  [type |-> e.type,
         data |-> [k \in keys \cup {"symbol"} |->
                      IF k = "symbol" THEN symbol ELSE IF k \in DOMAIN e THEN e[k] ELSE None]]

_require_event_keys(data, expected) == DOMAIN data \in {expected, expected \cup {"symbol"}}

\* The branches of the events whose symbol may be left out, and of those that name it.
ParsesOrder(raw) == raw.type \in DOMAIN OrderData /\ _require_event_keys(raw.data, OrderData[raw.type])
ParsesMarket(raw) == raw.type \in DOMAIN MarketData /\ DOMAIN raw.data = MarketData[raw.type]

\* Whether parse_event accepts a dict: exactly a type and data, of a type it knows, with the
\* keys of the type.
Parses(raw) ==
    /\ DOMAIN raw = {"type", "data"}
    /\ ParsesOrder(raw) \/ ParsesMarket(raw)

_optional_symbol(data) == IF "symbol" \in DOMAIN data THEN data.symbol ELSE DEFAULT_SYMBOL

\* The object it returns.
parse_event(raw) ==
    [raw EXCEPT !.data = [k \in DOMAIN raw.data \cup {"symbol"} |->
                             IF k = "symbol" THEN _optional_symbol(raw.data) ELSE raw.data[k]]]

\* What is stored: the default symbol is left out, whatever the type.
serialize_event(e) ==
    [e EXCEPT !.data = [k \in (IF e.data.symbol = DEFAULT_SYMBOL THEN DOMAIN e.data \ {"symbol"}
                               ELSE DOMAIN e.data) |-> e.data[k]]]
=============================================================================
