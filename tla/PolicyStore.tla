---------------------------- MODULE PolicyStore ----------------------------
(***************************************************************************)
(* What the dashboard is promised of its settings: a request is applied to *)
(* the policy once and whole, on top of every request applied before it,   *)
(* or not at all; and 200 is answered only for what a restart would find.  *)
(***************************************************************************)
EXTENDS Options

CONSTANTS
    Callers, Configs, FirstConfig,
    Jobs          \* what may be asked: the config each makes of a config, or none to refuse it

VARIABLES
    policy, job,
    stage         \* of each request: "asked", "stored", answered "ok" or "failed", or "idle"

vars == <<policy, job, stage>>

Init == /\ policy = FirstConfig
        /\ job \in [Callers -> Jobs]
        /\ stage = [c \in Callers |-> "idle"]

Moves(c, from, to) == stage[c] = from /\ stage' = [stage EXCEPT ![c] = to]

Ask(c) ==
    /\ \E s \in {"idle", "ok", "failed"} : Moves(c, s, "asked")
    /\ \E j \in Jobs : job' = [job EXCEPT ![c] = j]
    /\ UNCHANGED policy

Store(c) ==
    /\ Moves(c, "asked", "stored")
    /\ \E new \in job[c][policy] : policy' = new
    /\ UNCHANGED job

\* A request that asks for what is stored already has nothing to wait for.
Confirm(c) ==
    /\ \/ Moves(c, "stored", "ok")
       \/ Moves(c, "asked", "ok") /\ job[c][policy] = {policy}
    /\ UNCHANGED <<policy, job>>

Refuse(c) == Moves(c, "asked", "failed") /\ UNCHANGED <<policy, job>>

\* Requests whose clients are not there to be answered any more.
Forget(gone) ==
    /\ stage' = [c \in Callers |-> IF c \in gone THEN "idle" ELSE stage[c]]
    /\ UNCHANGED <<policy, job>>

Next ==
    \/ \E c \in Callers : Ask(c) \/ Store(c) \/ Confirm(c) \/ Refuse(c)
    \/ \E gone \in SUBSET Callers : Forget(gone)

Spec == Init /\ [][Next]_vars

=============================================================================
