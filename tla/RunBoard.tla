------------------------------ MODULE RunBoard ------------------------------
(***************************************************************************)
(* What distributed execution promises, without queue rows, locks, leases  *)
(* or timeouts: a board of posted runs.  A run waits until one worker      *)
(* takes it, goes back if that worker is gone, may be dropped while it     *)
(* waits, and is done at most once and for ever.                           *)
(***************************************************************************)
CONSTANTS Runs, Workers

VARIABLES
    stage,   \* [Runs -> Stages]
    keeper   \* [Runs -> SUBSET Workers]: who executes the run

vars == <<stage, keeper>>

Stages == {"absent", "waiting", "held", "done"}

Init == stage = [r \in Runs |-> "absent"] /\ keeper = [r \in Runs |-> {}]

\* A run moves to another stage, and its keepers become ks.
Move(r, from, to, ks) ==
    /\ stage[r] = from
    /\ stage' = [stage EXCEPT ![r] = to]
    /\ keeper' = [keeper EXCEPT ![r] = ks]

Post(r) == Move(r, "absent", "waiting", {})
\* A worker without a run takes one that nobody executes.
Take(r, w) == (\A q \in Runs : w \notin keeper[q]) /\ Move(r, "waiting", "held", {w})
GiveBack(r) == Move(r, "held", "waiting", {})
Settle(r) == Move(r, "held", "done", {})
Drop(r) == Move(r, "waiting", "done", {})

Next == \E r \in Runs :
            \/ Post(r) \/ GiveBack(r) \/ Settle(r) \/ Drop(r)
            \/ \E w \in Workers : Take(r, w)

Spec == Init /\ [][Next]_vars
=============================================================================
