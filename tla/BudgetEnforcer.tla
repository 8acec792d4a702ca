--------------------------- MODULE BudgetEnforcer ---------------------------
(***************************************************************************)
(* The budget half of rules::RulesEnforcer and the part of the loop        *)
(* run_rules_enforcer that acts on it.  A tick is several steps, because   *)
(* the loop awaits between them: it takes a snapshot of the config, asks   *)
(* the operating system who is at the machine and what runs, decides,      *)
(* carries out the decision, and only then reads the curfew to see whether *)
(* a shutdown it scheduled earlier is to be cancelled.  The parent, the    *)
(* child and the curfew loop move between any two of those steps.          *)
(*                                                                         *)
(* The tally itself is DayTally's: here the budget is unlimited, under or  *)
(* spent.  Killing programs does not touch the state below.                *)
(***************************************************************************)
EXTENDS Machine

VARIABLES
    rulesPc,         \* where the loop is in its tick
    snapshot,        \* the policy read at the top of the tick: {} between ticks
    occupied,        \* the session as this tick read it, before it waited for the process list
    budgetDeadline,  \* RulesEnforcer::budget_deadline
    episodeWarned,   \* RulesEnforcer::episode_warned
    prevWanted,      \* prev_shutdown_wanted
    lockGrace        \* history: what is left of the grace the first lock warning gave

enforcerVars == <<budgetDeadline, episodeWarned, lockGrace>>

budgetVars == <<rulesPc, snapshot, occupied, prevWanted, enforcerVars>>

Snapshots == [paused : BOOLEAN, budget : Budgets, action : BudgetActions]

Places == {"idle", "observe", "list", "Shutdown", "ShutdownNow", "LockScreen", "edge", "abort"}

BudgetTypeOK ==
    /\ rulesPc \in Places
    /\ snapshot \in Option(Snapshots)
    /\ occupied \in BOOLEAN
    /\ budgetDeadline \in Option(Deadlines)
    /\ episodeWarned \in BOOLEAN
    /\ prevWanted \in BOOLEAN
    /\ lockGrace \in Option(0 .. Warn)

BudgetInit ==
    /\ rulesPc = "idle"
    /\ snapshot = {}
    /\ occupied = FALSE
    /\ budgetDeadline = {}
    /\ episodeWarned = FALSE
    /\ prevWanted = FALSE
    /\ lockGrace = {}

-----------------------------------------------------------------------------
\* The config snapshot at the top of the loop; a paused tick goes straight to its falling edge.
RulesTick ==
    /\ power = "on"
    /\ rulesPc = "idle"
    /\ snapshot' = {[paused |-> paused, budget |-> budget, action |-> budgetAction]}
    /\ rulesPc' = IF paused THEN "edge" ELSE "observe"
    /\ UNCHANGED <<occupied, prevWanted, enforcerVars>>

\* session_state; a session that cannot be read counts as active.
RulesObserves ==
    /\ power = "on"
    /\ rulesPc = "observe"
    /\ rulesPc' = "list"
    /\ occupied' \in {active} \union (IF CallsFail THEN {TRUE} ELSE {})
    /\ UNCHANGED <<snapshot, prevWanted, enforcerVars>>

\* The tick is over: what it read is forgotten, and whether it wanted a shutdown remembered.
TickEnds(wanted) ==
    /\ rulesPc' = "idle"
    /\ snapshot' = {}
    /\ occupied' = FALSE
    /\ prevWanted' = wanted

\* running_processes failed: the rest of the tick is skipped.
RulesTickAbandoned ==
    /\ power = "on"
    /\ CallsFail
    /\ rulesPc = "list"
    /\ TickEnds(prevWanted)
    /\ UNCHANGED enforcerVars

-----------------------------------------------------------------------------
(* RulesEnforcer::decide, the budget part: one operator per arm, each      *)
(* naming the next place of the loop, the deadline and the warned flag.    *)

\* Wrong on purpose: stepping away launders the warning.
DecideAbsentForgets ==
    /\ rulesPc' = "edge"
    /\ budgetDeadline' = {}
    /\ episodeWarned' = FALSE
    /\ UNCHANGED lockGrace

\* An unlimited day, or nobody at the machine: disarmed, but the warning given stays given.
DecideAbsent ==
    /\ rulesPc' = "edge"
    /\ budgetDeadline' = {}
    /\ UNCHANGED <<episodeWarned, lockGrace>>

\* Under budget: the episode is over.
DecideUnder ==
    /\ rulesPc' = "edge"
    /\ budgetDeadline' = {}
    /\ episodeWarned' = FALSE
    /\ lockGrace' = {}

\* EnforceAction::Warn
DecideWarn ==
    /\ rulesPc' = "edge"
    /\ budgetDeadline' = {}
    /\ lockGrace' = {}
    /\ UNCHANGED episodeWarned

\* EnforceAction::Lock
DecideLock ==
    \/ /\ budgetDeadline = {} /\ episodeWarned
       /\ rulesPc' = "LockScreen"
       /\ UNCHANGED <<budgetDeadline, episodeWarned, lockGrace>>
    \/ /\ budgetDeadline = {} /\ ~episodeWarned
       /\ rulesPc' = "edge"
       /\ budgetDeadline' = {Warn}
       /\ episodeWarned' = TRUE
       /\ lockGrace' = IF lockGrace = {} THEN {Warn} ELSE lockGrace
    \/ /\ budgetDeadline # {}
       /\ rulesPc' = IF \E d \in budgetDeadline : d <= 0 THEN "LockScreen" ELSE "edge"
       /\ UNCHANGED <<budgetDeadline, episodeWarned, lockGrace>>

\* Wrong on purpose: a cancelled shutdown is never issued again.
DecideShutdownOnce ==
    /\ budgetDeadline' = IF budgetDeadline = {} THEN {Warn} ELSE budgetDeadline
    /\ rulesPc' = IF budgetDeadline = {} THEN "Shutdown" ELSE "edge"
    /\ lockGrace' = {}
    /\ UNCHANGED episodeWarned

\* EnforceAction::Shutdown
DecideShutdown ==
    /\ lockGrace' = {}
    /\ UNCHANGED episodeWarned
    /\ \/ /\ budgetDeadline = {}
          /\ rulesPc' = "Shutdown"
          /\ budgetDeadline' = {Warn}
       \/ /\ \E d \in budgetDeadline : d <= -Slack
          /\ rulesPc' = "ShutdownNow"
          /\ budgetDeadline' = {Warn}
       \/ /\ \E d \in budgetDeadline : d > -Slack
          /\ rulesPc' = "edge"
          /\ UNCHANGED budgetDeadline

RulesDecide ==
    /\ power = "on"
    /\ rulesPc = "list"
    /\ \E p \in snapshot :
          \/ (p.budget = "unlimited" \/ ~occupied) /\ DecideAbsent
          \/ p.budget = "under" /\ occupied /\ DecideUnder
          \/ p.budget = "spent" /\ occupied /\ p.action = "Warn" /\ DecideWarn
          \/ p.budget = "spent" /\ occupied /\ p.action = "Lock" /\ DecideLock
          \/ p.budget = "spent" /\ occupied /\ p.action = "Shutdown" /\ DecideShutdown
    /\ UNCHANGED <<snapshot, occupied, prevWanted>>

-----------------------------------------------------------------------------
(* Carrying the decision out.  Unlike the curfew loop, this one leaves its *)
(* deadline armed when the call fails.                                     *)

RulesIssues ==
    /\ power = "on"
    /\ \/ rulesPc = "Shutdown" /\ ShutdownAccepted("budget", Warn)
       \/ rulesPc = "ShutdownNow" /\ ShutdownAccepted("budget", 0)
    /\ rulesPc' = "edge"
    /\ UNCHANGED <<snapshot, occupied, prevWanted, enforcerVars, power, active>>

RulesRefused ==
    /\ power = "on"
    /\ rulesPc \in {"Shutdown", "ShutdownNow"}
    /\ ShutdownRefused
    /\ rulesPc' = "edge"
    /\ UNCHANGED <<snapshot, occupied, prevWanted, enforcerVars, power, active>>

\* lock_workstation: on success the session stops being active.
RulesLocks ==
    /\ power = "on"
    /\ rulesPc = "LockScreen"
    /\ active' = FALSE \/ (CallsFail /\ UNCHANGED active)
    /\ rulesPc' = "edge"
    /\ UNCHANGED <<snapshot, occupied, prevWanted, enforcerVars, slot, power>>

-----------------------------------------------------------------------------
(* maybe_abort_budget_shutdown *)

\* Whether this tick's snapshot calls for a budget shutdown: spent_today, with the action Shutdown.
WantedNow == \E p \in snapshot : ~p.paused /\ p.budget = "spent" /\ p.action = "Shutdown"

FallingEdge == prevWanted /\ ~WantedNow

\* should_abort_budget_shutdown: the falling edge, unless the curfew calls for the shutdown.
\* A shutdown handed to the curfew this way is one this loop will never cancel again.
RulesEdge ==
    /\ power = "on"
    /\ rulesPc = "edge"
    /\ IF FallingEdge /\ ~curfew
       THEN rulesPc' = "abort" /\ UNCHANGED <<slot, snapshot, occupied, prevWanted>>
       ELSE /\ TickEnds(WantedNow)
            /\ slot' = IF FallingEdge THEN Orphaned("budget") ELSE slot
    /\ UNCHANGED <<enforcerVars, power, active>>

\* The abort itself, the reading of the curfew behind it already taken.
RulesAborts ==
    /\ power = "on"
    /\ rulesPc = "abort"
    /\ AbortDone \/ AbortFailed("budget")
    /\ TickEnds(FALSE)
    /\ UNCHANGED <<enforcerVars, power, active>>

=============================================================================
