---------------------------- MODULE Enforcement ----------------------------
(***************************************************************************)
(* The two enforcer loops of the service on one machine.  They share no    *)
(* state of their own: each reads the config, and both write the single    *)
(* pending shutdown the operating system keeps.  An abort by either        *)
(* cancels whatever is pending, whoever scheduled it.                      *)
(***************************************************************************)
EXTENDS CurfewEnforcer, BudgetEnforcer

CONSTANTS
    Restarts,   \* whether the service may be stopped and started while the machine stays on
    Stalls      \* whether a unit of time may pass in the middle of a tick

ASSUME RestartsAssumption == Restarts \in BOOLEAN
ASSUME StallsAssumption == Stalls \in BOOLEAN

vars == <<machineVars, policyVars, curfewVars, budgetVars>>

TypeOK == MachineTypeOK /\ CurfewTypeOK /\ BudgetTypeOK

Init == MachineInit /\ CurfewInit /\ BudgetInit

-----------------------------------------------------------------------------
(* The loops. *)

CurfewLoopTicks == CurfewTick /\ UNCHANGED <<machineVars, policyVars, budgetVars>>

CurfewLoopActs == CurfewStep /\ UNCHANGED <<policyVars, budgetVars>>

RulesLoopThinks ==
    /\ RulesTick \/ RulesObserves \/ RulesTickAbandoned \/ RulesDecide
    /\ UNCHANGED <<machineVars, policyVars, curfewVars>>

RulesLoopActs ==
    /\ RulesIssues \/ RulesRefused \/ RulesLocks \/ RulesEdge \/ RulesAborts
    /\ UNCHANGED <<policyVars, curfewVars>>

-----------------------------------------------------------------------------
(* Everything else that moves. *)

\* One unit of time passes.  A countdown that has reached zero powers the machine off within it.
Pass ==
    /\ power = "on"
    /\ Stalls \/ (curfewAction = "None" /\ rulesPc = "idle")
    /\ \A s \in slot : s.left > 0
    /\ slot' = {Older(s) : s \in slot}
    /\ curfewDeadline' = Later(curfewDeadline)
    /\ budgetDeadline' = Later(budgetDeadline)
    /\ lockGrace' = {IF g > 0 THEN g - 1 ELSE g : g \in lockGrace}
    /\ UNCHANGED <<power, active, policyVars, curfewAction, curfewWarned, rulesPc, snapshot,
                   occupied, episodeWarned, prevWanted>>

PolicyChanges ==
    /\ CurfewChanges \/ PauseChanges \/ BudgetChanges \/ ActionChanges
    /\ UNCHANGED <<machineVars, curfewVars, budgetVars>>

PersonActs ==
    /\ SessionChanges \/ ParentShutsDown
    /\ UNCHANGED <<policyVars, curfewVars, budgetVars>>

ChildCancelsShutdown == ChildCancels /\ UNCHANGED <<policyVars, curfewVars, budgetVars>>

\* Both loops start from nothing: Enforcer::new, RulesEnforcer::new, prev_shutdown_wanted = false.
MemoryLost ==
    /\ curfewDeadline' = {} /\ curfewAction' = "None" /\ curfewWarned' = FALSE
    /\ TickEnds(FALSE) /\ budgetDeadline' = {} /\ episodeWarned' = FALSE /\ lockGrace' = {}

MachineOff == PowerOff /\ MemoryLost /\ UNCHANGED policyVars

Boot ==
    /\ power = "off"
    /\ power' = "on"
    /\ UNCHANGED <<slot, active, policyVars, curfewVars, budgetVars>>

Forgotten(s) == [s EXCEPT !.by = IF @ = "parent" THEN @ ELSE "orphan"]

\* The service is restarted.  What it scheduled is still pending, and nobody remembers it.
Restart ==
    /\ Restarts
    /\ power = "on"
    /\ MemoryLost
    /\ slot' = {Forgotten(s) : s \in slot}
    /\ UNCHANGED <<power, active, policyVars>>

Next ==
    \/ CurfewLoopTicks
    \/ CurfewLoopActs
    \/ RulesLoopThinks
    \/ RulesLoopActs
    \/ Pass
    \/ PolicyChanges
    \/ PersonActs
    \/ ChildCancelsShutdown
    \/ MachineOff
    \/ Boot
    \/ Restart

(* Both loops are tasks of a running service, driven by a timer, and are    *)
(* never starved; a countdown at zero fires.  The strong conditions say     *)
(* that the operating system does not refuse for ever: a shutdown offered   *)
(* again and again is accepted some time, the process list is read some     *)
(* time.  Time itself is under strong fairness because a stage of a tick    *)
(* and a unit of time take turns.  Nothing is assumed of the parent, the    *)
(* child or a restart.                                                      *)
Fairness ==
    /\ WF_vars(CurfewLoopTicks)
    /\ WF_vars(CurfewLoopActs)
    /\ SF_vars(CurfewLoopActs /\ CurfewIssues /\ curfewAction = "Shutdown")
    /\ SF_vars(CurfewLoopActs /\ CurfewIssues /\ curfewAction = "ShutdownNow")
    /\ WF_vars(RulesLoopThinks)
    /\ WF_vars(RulesLoopActs)
    /\ SF_vars(RulesLoopThinks /\ RulesDecide)
    /\ SF_vars(RulesLoopActs /\ RulesIssues /\ rulesPc = "ShutdownNow")
    /\ SF_vars(Pass)
    /\ WF_vars(MachineOff)

Spec == Init /\ [][Next]_vars

FairSpec == Spec /\ Fairness

-----------------------------------------------------------------------------
(* A countdown that an enforcer scheduled is one an enforcer would still    *)
(* cancel: the curfew's while it is armed or aborting, the budget's         *)
(* while this tick or the last one wanted it.  A mid-tick budget loop has   *)
(* not yet answered for what it issued.  (curfew.rs tick; rules.rs          *)
(* maybe_abort_budget_shutdown.)                                            *)
PendingIsAnsweredFor ==
    \A s \in {t \in slot : t.left > 0} :
        /\ s.by = "curfew" => curfewDeadline # {} \/ curfewAction = "Abort"
        /\ s.by = "budget" => prevWanted \/ (rulesPc = "edge" /\ WantedNow)

(* The curfew never powers the machine off at once unless, in the same      *)
(* episode, it was armed by a countdown the operating system accepted: a    *)
(* call that failed is no warning.  (curfew.rs disarm.)                     *)
CurfewWarnsFirst == curfewAction = "ShutdownNow" => curfewWarned

(* Once the grace of a lock warning has run out, the next decision taken    *)
(* with someone at the machine, the action still Lock and the budget still  *)
(* spent, locks the screen: leaving and coming back buys no second grace.   *)
(* (rules.rs decide, the Lock arm and episode_warned.)                      *)
GraceIsNotRenewed ==
    [][ (/\ rulesPc = "list" /\ rulesPc' \notin {"list", "idle"} /\ occupied /\ lockGrace = {0}
         /\ \E p \in snapshot : p.budget = "spent" /\ p.action = "Lock")
            => rulesPc' = "LockScreen" ]_vars

(* A curfew that stays in force powers the machine off, however often the   *)
(* child cancels.  (curfew.rs decide, the re-issue past deadline + slack.)  *)
CurfewIsEnforced == ~<>[](curfew /\ power = "on")

(* A spent budget with the action Shutdown powers the machine off when the  *)
(* child stays at it, whatever is cancelled or refused on the way.          *)
(* (rules.rs decide, the Shutdown arm.)                                     *)
BudgetIsEnforced ==
    ~<>[](power = "on" /\ active /\ ~paused /\ budget = "spent" /\ budgetAction = "Shutdown")

-----------------------------------------------------------------------------
(* The inductive invariant behind the safety properties, part by part.      *)

\* What the curfew's deadline and the action it decided on say of each other.
CurfewAgrees ==
    /\ curfewAction \in {"Shutdown", "ShutdownNow"} => curfewDeadline # {}
    /\ curfewAction = "Abort" => curfewDeadline = {}
    /\ curfewAction = "ShutdownNow" => curfewWarned
    /\ curfewAction = "None" /\ curfewDeadline # {} => curfewWarned

\* A grace once given is remembered, and a deadline never outlasts it.
GraceAgrees ==
    \A g \in lockGrace : episodeWarned /\ \A d \in budgetDeadline : d <= g

\* A curfew countdown runs no longer than the deadline armed with it, and no second call is
\* decided on while it runs.  True only of a system where calls take no time.
CurfewCountdownAgrees ==
    /\ curfewAction = "Shutdown" => curfewDeadline = {Warn}
    /\ \A s \in slot : s.by = "curfew" /\ s.left > 0 =>
          /\ curfewAction \in {"None", "Abort"}
          /\ curfewAction = "None" => \E d \in curfewDeadline : d >= s.left

\* The budget loop is about to schedule a shutdown only in a tick that wants one.
BudgetAgrees ==
    /\ rulesPc \in {"observe", "list"} => \A p \in snapshot : ~p.paused
    /\ rulesPc \in {"Shutdown", "ShutdownNow"} => WantedNow
    /\ rulesPc = "abort" => prevWanted
    /\ \A s \in slot : s.by = "budget" /\ s.left > 0 => prevWanted \/ (rulesPc = "edge" /\ WantedNow)

=============================================================================
