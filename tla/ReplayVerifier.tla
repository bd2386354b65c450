--------------------------- MODULE ReplayVerifier ---------------------------
(***************************************************************************)
(* sim/tes_replay/verification.py: a stored run against a second           *)
(* execution.  A hash stands for what was hashed: SHA-256 is taken to tell *)
(* different values apart.                                                 *)
(***************************************************************************)
EXTENDS ReplayViews

_STREAM_NAMES == <<"events", "snapshots", "accounts">>
_TIMESTAMP_KEYS == {"timestamp", "created_at", "started_at", "completed_at", "generated_at", "updated_at"}

\* The keys of the reports whose values are numbers.
Metrics == {"total_steps", "total_orders", "total_trades", "total_volume", "traded_notional",
            "rejected_orders", "halt_count", "realized_pnl", "final_equity", "ending_equity",
            "cash_balance", "total_traded_notional"}

\* Timestamps are not compared.
_normalize(dict) == [k \in DOMAIN dict \ _TIMESTAMP_KEYS |-> dict[k]]
hash_stream(items) == [i \in DOMAIN items |-> _normalize(items[i])]

_step(item) == _entry_step(item)

_sequence_numbers(a) ==
    [s \in Range(_STREAM_NAMES) |->
        [i \in DOMAIN a[s] |-> [step |-> _step(a[s][i]), type |-> Get(a[s][i], "type")]]]

hash_summary(a) ==
    [event_hash |-> hash_stream(a.events), snapshot_hash |-> hash_stream(a.snapshots),
     account_hash |-> hash_stream(a.accounts), report_hash |-> _normalize(a.report),
     sequence_hash |-> _sequence_numbers(a),
     event_count |-> Len(a.events), snapshot_count |-> Len(a.snapshots),
     account_count |-> Len(a.accounts), trade_count |-> _count_event_type(a.events, "TradeExecuted")]

\* The fields of two summaries that differ.
_comparisons(left, right) == {f \in DOMAIN left : left[f] # right[f]}

\* The numbers of two reports that differ, and by how much.
metric_deltas(left, right) ==
    [k \in {m \in Metrics \cap DOMAIN left \cap DOMAIN right : left[m] # right[m]} |-> right[k] - left[k]]

\* A step 0 counts as none: `_step(lval) or _step(rval) or index + 1`.
_stream_divergence_step(left, right) ==
    LET here == {i \in 1..Max({Len(left), Len(right)}) :
                    \/ i > Len(left) \/ i > Len(right)
                    \/ _normalize(left[i]) # _normalize(right[i])}
        i == Min(here)
        StepOf(items) == IF i > Len(items) THEN None ELSE _step(items[i])
    IN  IF here = {} THEN None ELSE Or(Or(StepOf(left), StepOf(right)), i)

first_divergence_step(left, right) ==
    LET Diverged(k) == _stream_divergence_step(left[_STREAM_NAMES[k]], right[_STREAM_NAMES[k]])
        diverging == {k \in DOMAIN _STREAM_NAMES : Diverged(k) # None}
    IN  IF diverging = {} THEN None ELSE Diverged(Min(diverging))

\* An execution that raised has nothing to compare with.
verify(original, replayed) ==
    LET mismatched == _comparisons(hash_summary(original), hash_summary(replayed))
                          \cup {m \in {"report_metrics"} : DOMAIN metric_deltas(original.report, replayed.report) # {}}
    IN  IF replayed = None
        THEN [status |-> "failed", mismatched_fields |-> {"rerun"}, first_divergence_step |-> None,
              original_hashes |-> hash_summary(original)]
        ELSE [status |-> IF mismatched = {} THEN "verified" ELSE "mismatch",
              mismatched_fields |-> mismatched,
              first_divergence_step |-> first_divergence_step(original, replayed),
              original_hashes |-> hash_summary(original)]

\* The P&L figures both reports have and that differ.
_pnl_divergence(left, right) ==
    {k \in {"realized_pnl", "ending_equity", "final_equity", "cash_balance"}
            \cap DOMAIN left.report \cap DOMAIN right.report : left.report[k] # right.report[k]}

diff_runs(left, right) ==
    LET mismatched == _comparisons(hash_summary(left), hash_summary(right))
                          \cup {m \in {"report_metrics"} : DOMAIN metric_deltas(left.report, right.report) # {}}
    IN  [status |-> IF mismatched = {} THEN "matching" ELSE "mismatch",
         mismatched_fields |-> mismatched,
         first_divergence_step |-> first_divergence_step(left, right),
         pnl_divergence |-> _pnl_divergence(left, right)]
=============================================================================
