--------------------------- MODULE CurfewEnforcer ---------------------------
(***************************************************************************)
(* curfew::Enforcer and the loop that drives it, run_enforcer.  A tick     *)
(* reads the config and decides in one step, because the loop holds no     *)
(* await between the two; the call it decided on happens in a later step,  *)
(* on the blocking pool, with the rest of the system running in between.   *)
(***************************************************************************)
EXTENDS Machine

VARIABLES
    curfewDeadline,   \* Enforcer::deadline
    curfewAction,     \* the Action decided this tick and not carried out yet
    curfewWarned      \* history: a countdown of this episode reached the child's screen

curfewVars == <<curfewDeadline, curfewAction, curfewWarned>>

Actions == {"None", "Shutdown", "ShutdownNow", "Abort"}

CurfewTypeOK ==
    /\ curfewDeadline \in Option(Deadlines)
    /\ curfewAction \in Actions
    /\ curfewWarned \in BOOLEAN

CurfewInit ==
    /\ curfewDeadline = {}
    /\ curfewAction = "None"
    /\ curfewWarned = FALSE

\* What is left of a deadline one unit later.
Later(deadline) == {IF d > -Slack THEN d - 1 ELSE d : d \in deadline}

\* now >= deadline + slack: still running well past when the machine should have powered off.
Overdue(deadline) == \E d \in deadline : d <= -Slack

-----------------------------------------------------------------------------
\* Wrong on purpose: an overdue deadline is left alone.
CurfewDecideOnce(isActive) ==
    /\ curfewDeadline' = IF ~isActive THEN {} ELSE IF curfewDeadline = {} THEN {Warn} ELSE curfewDeadline
    /\ curfewAction' = CASE isActive /\ curfewDeadline = {} -> "Shutdown"
                         [] ~isActive /\ curfewDeadline # {} -> "Abort"
                         [] OTHER -> "None"

\* Wrong on purpose: a window that ends disarms the enforcer and aborts nothing.
CurfewDecideSilently(isActive) ==
    \/ isActive /\ CurfewDecideOnce(isActive)
    \/ ~isActive /\ curfewDeadline' = {} /\ UNCHANGED curfewAction

\* Enforcer::decide
CurfewDecide(isActive) ==
    \/ /\ isActive /\ curfewDeadline = {}
       /\ curfewDeadline' = {Warn}
       /\ curfewAction' = "Shutdown"
    \/ /\ isActive /\ Overdue(curfewDeadline)
       /\ curfewDeadline' = {Warn}
       /\ curfewAction' = "ShutdownNow"
    \/ /\ isActive /\ curfewDeadline # {} /\ ~Overdue(curfewDeadline)
       /\ UNCHANGED <<curfewDeadline, curfewAction>>
    \/ /\ ~isActive /\ curfewDeadline # {}
       /\ curfewDeadline' = {}
       /\ curfewAction' = "Abort"
    \/ /\ ~isActive /\ curfewDeadline = {}
       /\ UNCHANGED <<curfewDeadline, curfewAction>>

\* One pass of the loop up to the call: the timer fired or a config change woke it.
CurfewTick ==
    /\ power = "on"
    /\ curfewAction = "None"
    /\ CurfewDecide(curfew)
    /\ UNCHANGED curfewWarned

\* The delay run_enforcer hands to the operating system.
CurfewDelay == IF curfewAction = "Shutdown" THEN Warn ELSE 0

\* Wrong on purpose: the deadline of a countdown that was refused still runs.
CurfewStaysArmed ==
    /\ curfewWarned' = FALSE
    /\ UNCHANGED curfewDeadline

\* Enforcer::disarm, after a call that failed: nothing is pending, the next active tick re-issues.
CurfewDisarm ==
    /\ curfewDeadline' = {}
    /\ curfewWarned' = FALSE

CurfewIssues ==
    /\ power = "on"
    /\ curfewAction \in {"Shutdown", "ShutdownNow"}
    /\ ShutdownAccepted("curfew", CurfewDelay)
    /\ curfewAction' = "None"
    /\ curfewWarned' = TRUE
    /\ UNCHANGED <<curfewDeadline, power, active>>

CurfewRefused ==
    /\ power = "on"
    /\ curfewAction \in {"Shutdown", "ShutdownNow"}
    /\ ShutdownRefused
    /\ curfewAction' = "None"
    /\ CurfewDisarm
    /\ UNCHANGED <<power, active>>

CurfewAborts ==
    /\ power = "on"
    /\ curfewAction = "Abort"
    /\ AbortDone \/ AbortFailed("curfew")
    /\ curfewAction' = "None"
    /\ curfewWarned' = FALSE
    /\ UNCHANGED <<curfewDeadline, power, active>>

CurfewStep == CurfewIssues \/ CurfewRefused \/ CurfewAborts

=============================================================================
