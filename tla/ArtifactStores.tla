--------------------------- MODULE ArtifactStores ---------------------------
(***************************************************************************)
(* The artifact queries of the two run stores: InMemoryRunStore filters    *)
(* the payloads themselves, SQLiteRunStore the columns it derived from     *)
(* them when they were stored.                                             *)
(*                                                                         *)
(* A query is a record of symbol, type, account, limit and offset; None is *)
(* a filter that is not given.  Payloads are dicts with string keys, which *)
(* JSON gives back unchanged.                                              *)
(***************************************************************************)
EXTENDS MarketRuns

\* isinstance(value, dict): the keys of an optional nested dict.
Keys(payload, key) == IF key \in DOMAIN payload THEN DOMAIN payload[key] ELSE {}
Only(set) == CHOOSE x \in set : set = {x}

-----------------------------------------------------------------------------
(* InMemoryRunStore.                                                       *)

\* items[start:] and items[start : start + max(0, limit)]
_page(items, limit, offset) ==
    LET start == Max({0, offset})
        stop == IF limit = None THEN Len(items) ELSE Min({Len(items), start + Max({0, limit})})
    IN  SubSeq(items, start + 1, stop)

_matches_event(event, q) ==
    /\ q.type = None \/ event.type = q.type
    /\ q.symbol = None \/ Get(event.data, "symbol") = q.symbol

_matches_symbol(payload, symbol) ==
    symbol = None \/ Get(payload, "symbol") = symbol \/ symbol \in Keys(payload, "symbols")

\* str() of a text or of a value that is missing.
Str(value) == IF value = None THEN "None" ELSE value

_matches_account(payload, q) ==
    /\ q.account = None \/ Str(Get(payload, "account_id")) = q.account
    /\ \/ q.symbol = None
       \/ q.symbol \in Keys(payload, "positions") \cup Keys(payload, "mark_to_market")

MemoryGet(kind, items, q) ==
    LET Matches(item) == CASE kind = "events" -> _matches_event(item, q)
                           [] kind = "snapshots" -> _matches_symbol(item, q.symbol)
                           [] kind = "accounts" -> _matches_account(item, q)
    IN  _page(Where(items, Matches), q.limit, q.offset)

-----------------------------------------------------------------------------
(* SQLiteRunStore.                                                         *)

\* Mutant of _snapshot_rows: the column of a snapshot by symbols is left empty.
SnapshotRowsDirect(snapshots) ==
    [i \in DOMAIN snapshots |->
        [sequence |-> i, step |-> snapshots[i].step, symbol |-> Get(snapshots[i], "symbol"),
         payload |-> snapshots[i]]]

_event_rows(events) ==
    [i \in DOMAIN events |->
        [sequence |-> i, type |-> events[i].type,
         symbol |-> IF Get(events[i], "symbol") # None THEN events[i].symbol
                    ELSE Get(events[i].data, "symbol"),
         payload |-> events[i]]]

_snapshot_rows(snapshots) ==
    [i \in DOMAIN snapshots |->
        [sequence |-> i, step |-> snapshots[i].step,
         symbol |-> IF Cardinality(Keys(snapshots[i], "symbols")) = 1
                    THEN Only(Keys(snapshots[i], "symbols")) ELSE Get(snapshots[i], "symbol"),
         payload |-> snapshots[i]]]

\* _account_symbol, of the store and of the replay service alike.
_account_symbol(account) ==
    LET named == IF Cardinality(Keys(account, "positions")) = 1
                 THEN Keys(account, "positions") ELSE Keys(account, "mark_to_market")
    IN  IF Get(account, "symbol") # None THEN account.symbol
        ELSE IF Cardinality(named) = 1 THEN Only(named) ELSE None

_account_rows(accounts) ==
    [i \in DOMAIN accounts |->
        [sequence |-> i, account_id |-> Get(accounts[i], "account_id"),
         symbol |-> _account_symbol(accounts[i]), payload |-> accounts[i]]]

\* SELECT payload_json ... ORDER BY order_by, sequence LIMIT ... OFFSET ... of the selected rows.
_fetch_payloads(selected, order_by, limit, offset) ==
    LET Precedes(r, s) ==
            r[order_by] < s[order_by] \/ (r[order_by] = s[order_by] /\ r.sequence < s.sequence)
        found == Ordered(selected, Precedes)
        skipped == IF limit # None \/ offset > 0 THEN Max({0, offset}) ELSE 0
        page == {i \in DOMAIN found : i > skipped /\ (limit # None => i <= skipped + Max({0, limit}))}
    IN  [i \in 1..Cardinality(page) |-> found[skipped + i].payload]

SQLiteGet(kind, items, q) ==
    LET OfSymbol(r) == q.symbol = None \/ r.symbol = q.symbol
        OfEvent(r) == OfSymbol(r) /\ (q.type = None \/ r.type = q.type)
        OfAccount(r) == OfSymbol(r) /\ (q.account = None \/ r.account_id = q.account)
        selected ==
            CASE kind = "events" -> {r \in Range(_event_rows(items)) : OfEvent(r)}
              [] kind = "snapshots" -> {r \in Range(_snapshot_rows(items)) : OfSymbol(r)}
              [] kind = "accounts" -> {r \in Range(_account_rows(items)) : OfAccount(r)}
    IN  _fetch_payloads(selected, IF kind = "snapshots" THEN "step" ELSE "sequence", q.limit, q.offset)
=============================================================================
