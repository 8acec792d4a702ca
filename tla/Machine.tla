------------------------------ MODULE Machine ------------------------------
(***************************************************************************)
(* The child's PC as the two enforcers of nestwatch see it: the one slot   *)
(* Windows keeps for a pending shutdown, the power, the console session,   *)
(* and the parent's policy as each tick would read it at that instant.     *)
(*                                                                         *)
(* shutdown.exe is outside the repository.  It is modelled from how        *)
(* control/windows.rs uses it: a schedule call may be refused (a non-zero  *)
(* exit becomes ControlError::Op), an abort of an empty slot is not an     *)
(* error, and a shutdown whose countdown is zero cannot be aborted.        *)
(*                                                                         *)
(* Time is counted in units of CHECK_INTERVAL.  An Option<Instant> is a    *)
(* set with at most one element, the time left until that instant; a       *)
(* negative value is how long ago it passed, counted no further than the   *)
(* slack that the enforcers compare it with.                               *)
(***************************************************************************)
EXTENDS Integers, Options

CONSTANTS
    Warn,           \* warn_secs of both policies, in units of CHECK_INTERVAL
    Slack,          \* CHECK_INTERVAL itself: the slack run_*_enforcer passes to decide
    CallsFail,      \* whether a call into the operating system may be refused
    Budgets,        \* the readings of the day's budget a tick may take
    BudgetActions   \* the EnforceActions the parent may have chosen

ASSUME WarnAssumption == Warn \in Nat
ASSUME SlackAssumption == Slack \in Nat \ {0}
ASSUME CallsFailAssumption == CallsFail \in BOOLEAN
ASSUME BudgetsAssumption == Budgets \subseteq {"unlimited", "under", "spent"}
ASSUME BudgetActionsAssumption == BudgetActions \subseteq {"Warn", "Lock", "Shutdown"}

VARIABLES
    slot,       \* the pending shutdown, {} for none: [by, left]
    power,      \* "on" or "off"
    active,     \* session_state is Active: someone is signed in and the screen is unlocked
    curfew,     \* Curfew::is_active_at(clock::now()) for the config in memory
    paused,     \* Rules::tick_mode is StandDown
    budget,     \* the tally against effective_budget_mins
    budgetAction

machineVars == <<slot, power, active>>
policyVars  == <<curfew, paused, budget, budgetAction>>

(* Who scheduled the pending shutdown.  "orphan" is a mark of history, put  *)
(* on a shutdown by the step after which no enforcer answers for it; the    *)
(* operating system does not know it.                                       *)
Issuers == {"curfew", "budget", "parent", "orphan"}

Delays == 0 .. (Warn + 1)

Deadlines == -Slack .. Warn

MachineTypeOK ==
    /\ slot \in Option([by : Issuers, left : Delays])
    /\ power \in {"on", "off"}
    /\ active \in BOOLEAN
    /\ curfew \in BOOLEAN
    /\ paused \in BOOLEAN
    /\ budget \in Budgets
    /\ budgetAction \in BudgetActions

MachineInit ==
    /\ slot = {}
    /\ power = "on"
    /\ active \in BOOLEAN
    /\ curfew \in BOOLEAN
    /\ paused \in BOOLEAN
    /\ budget \in Budgets
    /\ budgetAction \in BudgetActions

-----------------------------------------------------------------------------
(* Calls of the SystemControl trait, as the part of a step they make true.  *)

\* control.shutdown(delay) returning Ok: it takes the place of one still counting down.
ShutdownAccepted(by, delay) ==
    /\ \A s \in slot : s.left > 0
    /\ slot' = {[by |-> by, left |-> delay]}

\* control.shutdown(delay) returning Err: whatever was pending is still pending.
ShutdownRefused == CallsFail /\ UNCHANGED slot

\* control.abort_shutdown returning Ok.  A shutdown with no countdown left is past aborting.
AbortDone == slot' = {s \in slot : s.left = 0}

\* The countdown of `by` is left to itself: from here on no enforcer would cancel it.
Orphan(s, by) == [s EXCEPT !.by = IF @ = by /\ s.left > 0 THEN "orphan" ELSE @]

Orphaned(by) == {Orphan(s, by) : s \in slot}

\* control.abort_shutdown returning Err, or its worker panicking: both loops log it and go on.
AbortFailed(by) == CallsFail /\ slot' = Orphaned(by)

-----------------------------------------------------------------------------
(* The environment. *)

Older(s) == [s EXCEPT !.left = IF @ > 0 THEN @ - 1 ELSE @]

\* The countdown of the pending shutdown reaches its end and the machine powers off.
PowerOff ==
    /\ power = "on"
    /\ \E s \in slot : s.left = 0
    /\ power' = "off"
    /\ slot' = {}
    /\ UNCHANGED active

\* `shutdown /a` typed at the PC: it takes no privilege a standard user lacks.
ChildCancels ==
    /\ power = "on"
    /\ \E s \in slot : s.left > 0
    /\ slot' = {}
    /\ UNCHANGED <<power, active>>

\* The child locks the screen, signs out, or comes back.
SessionChanges ==
    /\ power = "on"
    /\ active' = ~active
    /\ UNCHANGED <<slot, power>>

\* api::shutdown: the parent turns the machine off from the dashboard, with five seconds' notice.
ParentShutsDown ==
    /\ power = "on"
    /\ ShutdownAccepted("parent", 1)
    /\ UNCHANGED <<power, active>>

\* A window opens or ends, or the parent edits, extends or disables the curfew.
CurfewChanges ==
    /\ curfew' = ~curfew
    /\ UNCHANGED <<paused, budget, budgetAction>>

\* The parent pauses or resumes the rules.
PauseChanges ==
    /\ paused' = ~paused
    /\ UNCHANGED <<curfew, budget, budgetAction>>

\* The tally grows past the budget, the day turns, or the parent grants time or edits the limit.
BudgetChanges ==
    /\ budget' \in Budgets \ {budget}
    /\ UNCHANGED <<curfew, paused, budgetAction>>

\* The parent picks another EnforceAction.
ActionChanges ==
    /\ budgetAction' \in BudgetActions \ {budgetAction}
    /\ UNCHANGED <<curfew, paused, budget>>

=============================================================================
