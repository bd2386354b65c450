---------------------------- MODULE ReplayViews -----------------------------
(***************************************************************************)
(* sim/api/services/replay_service.py and sim/tes_replay/playback.py: the  *)
(* answers computed from the artifacts that load_run returned, a record    *)
(* of record (the run's config and status), report, events, snapshots,     *)
(* accounts and logs.  Texts, timestamps and the values derived only for   *)
(* display are left out.                                                   *)
(***************************************************************************)
EXTENDS ArtifactStores

Categories == <<"events", "snapshots", "accounts", "logs">>   \* in _CATEGORY_ORDER
SetOrNone(value) == {value} \ {None}
_event_data(payload) == IF "data" \in DOMAIN payload THEN payload.data ELSE [k \in {} |-> None]
\* Python's `or` between integers, None being one.
Or(a, b) == IF a \in {None, 0} THEN b ELSE a

\* Of a payload and, for want of it, of its data.
_entry_step(payload) ==
    IF Get(payload, "step") # None THEN payload.step ELSE Get(_event_data(payload), "step")

-----------------------------------------------------------------------------
(* Symbols.                                                                *)

_payload_references_symbol(payload, symbol) ==
    \/ Get(payload, "symbol") = symbol
    \/ Get(_event_data(payload), "symbol") = symbol
    \/ \E key \in {"symbols", "positions", "mark_to_market"} : symbol \in Keys(payload, key)

_snapshot_symbols(snapshot) == SetOrNone(Get(snapshot, "symbol")) \cup Keys(snapshot, "symbols")

_entry_symbol(category, payload, default) ==
    LET own == CASE category = "events" ->
                       IF Get(_event_data(payload), "symbol") # None THEN payload.data.symbol
                       ELSE Get(payload, "symbol")
                 [] category = "snapshots" ->
                       IF Get(payload, "symbol") = None /\ Cardinality(Keys(payload, "symbols")) = 1
                       THEN Only(Keys(payload, "symbols")) ELSE Get(payload, "symbol")
                 [] category = "accounts" -> _account_symbol(payload)
                 [] category = "logs" -> Get(payload, "symbol")
    IN  IF own # None THEN own ELSE default

_single_symbol(symbols) == IF Len(symbols) = 1 THEN symbols[1] ELSE None

_symbols_from_artifacts(a) ==
    Range(a.record.config.symbols)
        \cup UNION {SetOrNone(_entry_symbol("events", e, None)) : e \in Range(a.events)}
        \cup UNION {_snapshot_symbols(s) : s \in Range(a.snapshots)}
        \cup UNION {SetOrNone(_account_symbol(c)) \cup Keys(c, "positions") \cup Keys(c, "mark_to_market") :
                        c \in Range(a.accounts)}

-----------------------------------------------------------------------------
(* The timeline: all artifacts in one sequence.                            *)

_entry_type(category, payload) ==
    IF category = "logs" /\ Get(payload, "level") # None THEN payload.level ELSE Get(payload, "type")

_entry(a, c, i) ==
    LET payload == a[Categories[c]][i]
    IN  [step |-> _entry_step(payload), sequence |-> i - 1, rank |-> c, category |-> Categories[c],
         symbol |-> _entry_symbol(Categories[c], payload, _single_symbol(a.record.config.symbols)),
         type |-> _entry_type(Categories[c], payload), payload |-> payload]

_sort_step(entry) == IF entry.step # None THEN entry.step ELSE entry.sequence

\* The key they are sorted by: step, sequence, rank.
Earlier(d, e) ==
    LET first == _sort_step(d)
        second == _sort_step(e)
    IN  \/ first < second
        \/ first = second /\ d.sequence < e.sequence
        \/ first = second /\ d.sequence = e.sequence /\ d.rank < e.rank
Entries(a) == UNION {{_entry(a, c, i) : i \in DOMAIN a[Categories[c]]} : c \in DOMAIN Categories}
_build_timeline(a) == Ordered(Entries(a), Earlier)

_filter_timeline(entries, symbol, category, type) ==
    Where(entries, LAMBDA e :
        /\ symbol = None \/ e.symbol = symbol \/ _payload_references_symbol(e.payload, symbol)
        /\ category = None \/ e.category = category
        /\ type = None \/ e.type = type)

get_timeline(a, symbol, category, type, limit, offset) ==
    _page(_filter_timeline(_build_timeline(a), symbol, category, type), limit, offset)

-----------------------------------------------------------------------------
(* ReplayTimeline and ReplayPlaybackController: a timeline is its set of   *)
(* steps, a cursor one of them.                                            *)

_replay_timeline(a) ==
    LET steps == {_entry_step(p) : p \in UNION {Range(a[c]) : c \in Range(Categories)}} \ {None}
        max_step == Or(Get(a.report, "total_steps"), 0)
    IN  IF steps # {} THEN steps ELSE 0..max_step

clamp(steps, step) == Min({Max({step, Min(steps)}), Max(steps)})
next_step(steps, step) == Min({s \in steps : s > step} \cup {Max(steps)})
previous_step(steps, step) == Max({s \in steps : s < step} \cup {Min(steps)})
seek(steps, step) == clamp(steps, step)
create(steps) == Min(steps)
next_frame(steps, cursor) == seek(steps, next_step(steps, cursor))
previous_frame(steps, cursor) == seek(steps, previous_step(steps, cursor))

-----------------------------------------------------------------------------
(* Replay frames.                                                          *)

_step_items(items, step, symbol) ==
    Where(items, LAMBDA item :
        /\ _entry_step(item) = step
        /\ symbol = None \/ _payload_references_symbol(item, symbol)
                         \/ _entry_symbol("snapshots", item, None) = symbol)

_frame_symbols(symbol, frame, a) ==
    LET named == UNION {SetOrNone(_entry_symbol("events", e, None)) : e \in Range(frame.events)}
                    \cup UNION {_snapshot_symbols(s) : s \in Range(frame.snapshots)}
                    \cup UNION {SetOrNone(_account_symbol(c)) \cup Keys(c, "positions") : c \in Range(frame.accounts)}
    IN  IF symbol # None THEN {symbol} ELSE IF named # {} THEN named ELSE _symbols_from_artifacts(a)

\* The book a snapshot shows of a symbol it names.
Book(snapshot, symbol) ==
    IF symbol \in Keys(snapshot, "symbols") THEN snapshot.symbols[symbol] ELSE snapshot.snapshot

\* For every symbol the last snapshot up to the step that names it; of one step the last stored.
Latest(snapshots, step, symbols) ==
    LET Shows(s) == {i \in DOMAIN snapshots : _entry_step(snapshots[i]) <= step
                                              /\ s \in _snapshot_symbols(snapshots[i])}
        Newest(s) == CHOOSE i \in Shows(s) : \A j \in Shows(s) :
            \/ _entry_step(snapshots[j]) < _entry_step(snapshots[i])
            \/ _entry_step(snapshots[j]) = _entry_step(snapshots[i]) /\ j <= i
    IN  [s \in {t \in symbols : Shows(t) # {}} |-> Book(snapshots[Newest(s)], s)]

\* The first of the keys the dict has.
_first_int(dict, keys) ==
    LET found == {k \in DOMAIN keys : Get(dict, keys[k]) # None}
    IN  IF found = {} THEN None ELSE dict[keys[Min(found)]]

\* The books of the engine have bids and asks and no other of these keys.
_book_payload(book) ==
    LET bid == _first_int(book, <<"best_bid", "bid", "bid_price">>)
        ask == _first_int(book, <<"best_ask", "ask", "ask_price">>)
    IN  [bid |-> bid, ask |-> ask, bids |-> book.bids, asks |-> book.asks,
         spread |-> IF bid # None /\ ask # None THEN ask - bid ELSE None]

_top_of_book_for_frame(snapshots, step, symbols) ==
    LET books == Latest(snapshots, step, symbols) IN [s \in DOMAIN books |-> _book_payload(books[s])]

_build_replay_frame(a, step, symbol, include) ==
    LET items(c) == IF c \in include THEN _step_items(a[c], step, symbol) ELSE <<>>
        frame == [c \in Range(Categories) \ {"logs"} |-> items(c)]
        trades == Where(frame.events, IsTrade)
        symbols == _frame_symbols(symbol, frame, a)
    IN  [step |-> step, symbols |-> symbols, events |-> frame.events,
         snapshots |-> frame.snapshots, accounts |-> frame.accounts,
         trades |-> trades, volume |-> Total(trades, Qty), notional |-> Total(trades, Notional),
         top_of_book |-> _top_of_book_for_frame(a.snapshots, step, symbols)]

_frame_has_payload(frame) == frame.snapshots # <<>> \/ frame.accounts # <<>> \/ frame.events # <<>>

get_replay_frame(a, step, symbol) ==
    _build_replay_frame(a, seek(_replay_timeline(a), step), symbol, Range(Categories))

\* Mutant of get_replay_range: the next request starts one step too far.
RangeSkipping(a, start_step, end_step, symbol, include) ==
    LET steps == _replay_timeline(a)
        ends == {clamp(steps, start_step), clamp(steps, end_step)}
        inside == {s \in steps : Min(ends) <= s /\ s <= Max(ends)}
        later == {s \in steps : s > Max(ends) + 1}
        frames == {_build_replay_frame(a, s, symbol, include) : s \in inside}
    IN  [frames |-> {f \in frames : _frame_has_payload(f)},
         next_start_step |-> IF later = {} THEN None ELSE Min(later), total_frames |-> Cardinality(inside)]

\* The frames are in the order of their steps, so a set of them is enough.
get_replay_range(a, start_step, end_step, symbol, include) ==
    LET steps == _replay_timeline(a)
        ends == {clamp(steps, start_step), clamp(steps, end_step)}
        inside == {s \in steps : Min(ends) <= s /\ s <= Max(ends)}
        later == {s \in steps : s > Max(ends)}
        frames == {_build_replay_frame(a, s, symbol, include) : s \in inside}
    IN  [frames |-> {f \in frames : _frame_has_payload(f)},
         next_start_step |-> IF later = {} THEN None ELSE Min(later), total_frames |-> Cardinality(inside)]

\* What opening a replay answers.
get_replay_session(a) ==
    LET steps == _replay_timeline(a)
    IN  [steps |-> steps, cursor |-> create(steps),
         frame |-> _build_replay_frame(a, create(steps), None, Range(Categories))]

-----------------------------------------------------------------------------
(* Summaries.                                                              *)

\* Every stored event has exactly a type and data.
_validate_replay_events(events) == \A e \in Range(events) : DOMAIN e = {"type", "data"}

_count_orders(events) ==
    Count(events, LAMBDA e : e.type \in {"OrderAccepted", "HiddenOrderAccepted", "IcebergOrderAccepted",
                                         "StopOrderAccepted", "OrderRejected"})
_count_event_type(events, type) == Count(events, LAMBDA e : OfType(type, e))
\* The types that end in "Rejected".
_count_rejections(events) == Count(events, LAMBDA e : e.type \in {"OrderRejected", "CancelRejected"})
_max_step(a) == Max({0} \cup (UNION {{_entry_step(p) : p \in Range(a[c])} : c \in Range(Categories)} \ {None}))

\* Twice a middle of two prices, which may be a half.
_snapshot_price(book) ==
    LET quoted == _first_int(book, <<"last_price", "price", "mid", "mid_price">>)
        bid == Or(Get(book, "best_bid"), Get(book, "bid"))
        ask == Or(Get(book, "best_ask"), Get(book, "ask"))
    IN  CASE quoted # None -> 2 * quoted
          [] quoted = None /\ bid # None /\ ask # None -> bid + ask
          [] quoted = None /\ bid # None /\ ask = None -> 2 * bid
          [] OTHER -> IF ask # None THEN 2 * ask ELSE None

_final_prices(a) ==
    LET books == Latest(a.snapshots, _max_step(a), _symbols_from_artifacts(a))
    IN  [s \in DOMAIN books |-> _snapshot_price(books[s])]

\* The positions of the last account: no report has final_positions.
_final_positions(accounts) ==
    IF accounts = <<>> THEN [s \in {} |-> 0] ELSE Last(accounts).positions

summarize_run(a) ==
    LET report(key) == Get(a.report, key)
        trades == Where(a.events, IsTrade)
    IN  [status |-> a.record.status, symbols |-> _symbols_from_artifacts(a),
         total_steps |-> Or(report("total_steps"), _max_step(a)),
         total_orders |-> Or(report("total_orders"), _count_orders(a.events)),
         total_events |-> Len(a.events),
         total_trades |-> Or(report("total_trades"), _count_event_type(a.events, "TradeExecuted")),
         total_snapshots |-> Len(a.snapshots),
         total_rejections |-> Or(Or(report("total_rejections"), report("rejected_orders")),
                                 _count_rejections(a.events)),
         total_volume |-> IF report("total_volume") # None THEN report("total_volume")
                          ELSE Total(trades, Qty),
         traded_notional |-> IF report("traded_notional") # None THEN report("traded_notional")
                             ELSE Total(trades, Notional),
         final_prices |-> _final_prices(a), final_positions |-> _final_positions(a.accounts)]

\* replay_run and get_replay_summary.
replay_run(a) ==
    IF \A c \in Range(Categories) : a[c] = <<>> THEN "unavailable" ELSE "reconstructed"
get_replay_summary(a, verification) ==
    [symbols |-> _symbols_from_artifacts(a), start_step |-> Min(_replay_timeline(a)),
     end_step |-> Max(_replay_timeline(a)), total_frames |-> Cardinality(_replay_timeline(a)),
     total_trades |-> _count_event_type(a.events, "TradeExecuted"),
     first_divergence_step |-> Get(verification, "first_divergence_step"),
     available_event_types |-> {e.type : e \in Range(a.events)}]
=============================================================================
