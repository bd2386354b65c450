------------------------------- MODULE MCRuns -------------------------------
(***************************************************************************)
(* Small instances of queued execution for TLC.                            *)
(***************************************************************************)
EXTENDS RunProperties

CONSTANT r1

\* A benchmark, enqueued with priority 10, beside a session with priority 0.
BenchmarkFirst == [r \in Runs |-> IF r = r1 THEN 10 ELSE 0]
=============================================================================
