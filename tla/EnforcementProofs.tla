------------------------- MODULE EnforcementProofs -------------------------
(***************************************************************************)
(* What holds of Enforcement for every warning time, slack and policy, and *)
(* of Programs for every set of processes, names, rules and reports.       *)
(***************************************************************************)
EXTENDS Enforcement, Programs, FiniteSetTheorems, TLAPS

Pending == [by : Issuers, left : Delays]

\* The slot is a slot whatever a call or the passing of a unit makes of it.
LEMMA SlotAfterCalls ==
    ASSUME slot \in Option(Pending)
    PROVE  /\ \A by \in Issuers, d \in Delays : {[by |-> by, left |-> d]} \in Option(Pending)
           /\ {s \in slot : s.left = 0} \in Option(Pending)
           /\ \A by : Orphaned(by) \in Option(Pending)
           /\ {Older(s) : s \in slot} \in Option(Pending)
           /\ {Forgotten(s) : s \in slot} \in Option(Pending)
<1>1. \A by \in Issuers, d \in Delays : {[by |-> by, left |-> d]} \in Option(Pending)
  BY DEF Pending, Option
<1>2. \A p \in Pending : Older(p) \in Pending /\ Forgotten(p) \in Pending
  BY WarnAssumption DEF Pending, Older, Forgotten, Issuers, Delays
<1>3. \A by : \A p \in Pending : Orphan(p, by) \in Pending
  BY DEF Pending, Orphan, Issuers
<1>4. CASE slot = {}
  <2>1. /\ {s \in slot : s.left = 0} = {}
        /\ \A by : Orphaned(by) = {}
        /\ {Older(s) : s \in slot} = {}
        /\ {Forgotten(s) : s \in slot} = {}
    BY <1>4 DEF Orphaned
  <2> QED BY <2>1, <1>1 DEF Option
<1>5. CASE \E p \in Pending : slot = {p}
  <2>1. PICK p \in Pending : slot = {p}
    BY <1>5
  <2>2. {s \in slot : s.left = 0} \in Option(Pending)
    BY <2>1, {s \in slot : s.left = 0} \in {{}, {p}} DEF Option
  <2>3. {Older(s) : s \in slot} \in Option(Pending)
    BY <2>1, <1>2, {Older(s) : s \in slot} = {Older(p)} DEF Option
  <2>4. {Forgotten(s) : s \in slot} \in Option(Pending)
    BY <2>1, <1>2, {Forgotten(s) : s \in slot} = {Forgotten(p)} DEF Option
  <2>5. ASSUME NEW by
        PROVE  Orphaned(by) \in Option(Pending)
    <3>1. Orphaned(by) = {Orphan(p, by)}
      BY <2>1 DEF Orphaned
    <3> QED BY <3>1, <1>3 DEF Option
  <2> QED BY <1>1, <2>2, <2>3, <2>4, <2>5
<1> QED BY <1>4, <1>5 DEF Option

\* A deadline stays one while time passes.
LEMMA DeadlineAfterTime ==
    ASSUME NEW d \in Option(Deadlines)
    PROVE  Later(d) \in Option(Deadlines)
<1>1. CASE d = {}
  BY <1>1 DEF Later, Option
<1>2. ASSUME NEW x \in Deadlines, d = {x}
      PROVE  Later(d) \in Option(Deadlines)
  <2>1. (IF x > -Slack THEN x - 1 ELSE x) \in Deadlines
    BY WarnAssumption, SlackAssumption DEF Deadlines
  <2>2. Later(d) = {IF x > -Slack THEN x - 1 ELSE x}
    BY <1>2 DEF Later
  <2> QED BY <2>1, <2>2 DEF Option
<1> QED BY <1>1, <1>2 DEF Option

\* The warning time, and none at all, are deadlines.
LEMMA WarnIsADeadline == Warn \in Deadlines /\ {Warn} \in Option(Deadlines) /\ {} \in Option(Deadlines)
<1>1. Warn \in Deadlines
  BY WarnAssumption, SlackAssumption DEF Deadlines
<1> QED BY <1>1 DEF Option

\* The delays the enforcers ask for are delays the slot can hold.
LEMMA DelaysAreDelays == Warn \in Delays /\ 0 \in Delays /\ 1 \in Delays
  BY WarnAssumption DEF Delays

-----------------------------------------------------------------------------
(* Type correctness, one step per action. *)

\* The first state has the declared types.
LEMMA TypeInit == Init => TypeOK
<1> SUFFICES ASSUME Init PROVE TypeOK
  OBVIOUS
<1>1. MachineTypeOK
  BY DEF Init, MachineInit, MachineTypeOK, Option
<1>2. CurfewTypeOK
  BY DEF Init, CurfewInit, CurfewTypeOK, Actions, Option
<1>3. BudgetTypeOK
  BY DEF Init, BudgetInit, BudgetTypeOK, Places, Option
<1> QED BY <1>1, <1>2, <1>3 DEF TypeOK

\* The curfew loop keeps the types.
LEMMA TypeCurfewLoop ==
    ASSUME TypeOK, CurfewLoopTicks \/ CurfewLoopActs
    PROVE  TypeOK'
<1> USE DEF TypeOK
<1>1. BudgetTypeOK'
  BY DEF CurfewLoopTicks, CurfewLoopActs, BudgetTypeOK, budgetVars, enforcerVars
<1>2. CASE CurfewLoopTicks
  <2>1. MachineTypeOK'
    BY <1>2 DEF CurfewLoopTicks, MachineTypeOK, machineVars, policyVars
  <2>2. CurfewTypeOK'
    BY <1>2, WarnIsADeadline
    DEF CurfewLoopTicks, CurfewTick, CurfewDecide, CurfewTypeOK, Actions
  <2> QED BY <1>1, <2>1, <2>2
<1>3. CASE CurfewLoopActs
  <2>1. CurfewTypeOK'
    BY <1>3, WarnIsADeadline
    DEF CurfewLoopActs, CurfewStep, CurfewIssues, CurfewRefused, CurfewAborts, CurfewDisarm,
        CurfewTypeOK, Actions
  <2>2. slot' \in Option(Pending)
    <3>1. CASE CurfewIssues
      BY <3>1, SlotAfterCalls, DelaysAreDelays
      DEF CurfewIssues, CurfewDelay, ShutdownAccepted, MachineTypeOK, Pending, Issuers
    <3>2. CASE CurfewRefused
      BY <3>2 DEF CurfewRefused, ShutdownRefused, MachineTypeOK, Pending
    <3>3. CASE CurfewAborts
      BY <3>3, SlotAfterCalls DEF CurfewAborts, AbortDone, AbortFailed, MachineTypeOK, Pending
    <3> QED BY <1>3, <3>1, <3>2, <3>3 DEF CurfewLoopActs, CurfewStep
  <2>3. MachineTypeOK'
    BY <1>3, <2>2
    DEF CurfewLoopActs, CurfewStep, CurfewIssues, CurfewRefused, CurfewAborts, MachineTypeOK,
        policyVars, Pending
  <2> QED BY <1>1, <2>1, <2>3
<1> QED BY <1>2, <1>3

\* The rules loop keeps the types while it decides.
LEMMA TypeRulesLoopThinks ==
    ASSUME TypeOK, RulesLoopThinks
    PROVE  TypeOK'
<1>1. MachineTypeOK' /\ CurfewTypeOK'
  BY DEF RulesLoopThinks, TypeOK, MachineTypeOK, CurfewTypeOK, machineVars, policyVars, curfewVars
<1> USE DEF TypeOK, BudgetTypeOK, Places
<1>2. CASE RulesTick
  <2>1. [paused |-> paused, budget |-> budget, action |-> budgetAction] \in Snapshots
    BY DEF MachineTypeOK, Snapshots
  <2> QED BY <1>1, <1>2, <2>1 DEF RulesTick, enforcerVars, Option
<1>3. CASE RulesObserves
  BY <1>1, <1>3 DEF RulesObserves, enforcerVars, MachineTypeOK
<1>4. CASE RulesTickAbandoned
  BY <1>1, <1>4 DEF RulesTickAbandoned, TickEnds, enforcerVars, Option
<1>5. CASE RulesDecide
  <2>1. {} \in Option(0 .. Warn) /\ {Warn} \in Option(0 .. Warn)
    <3>1. Warn \in 0 .. Warn
      BY WarnAssumption
    <3> QED BY <3>1 DEF Option
  <2>2. /\ rulesPc' \in Places
        /\ budgetDeadline' \in Option(Deadlines)
        /\ episodeWarned' \in BOOLEAN
        /\ lockGrace' \in Option(0 .. Warn)
    BY <1>5, <2>1, WarnIsADeadline
    DEF RulesDecide, DecideAbsent, DecideUnder, DecideWarn, DecideLock, DecideShutdown
  <2> QED BY <1>1, <1>5, <2>2 DEF RulesDecide
<1> QED BY <1>2, <1>3, <1>4, <1>5 DEF RulesLoopThinks

\* The rules loop keeps the types while it makes its calls.
LEMMA TypeRulesLoopActs ==
    ASSUME TypeOK, RulesLoopActs
    PROVE  TypeOK'
<1>1. CurfewTypeOK'
  BY DEF RulesLoopActs, TypeOK, CurfewTypeOK, curfewVars
<1>2. WantedNow \in BOOLEAN
  BY DEF WantedNow
<1>3. BudgetTypeOK'
  BY <1>2 DEF TypeOK, BudgetTypeOK, Places, RulesLoopActs, RulesIssues, RulesRefused, RulesLocks,
     RulesEdge, RulesAborts, TickEnds, enforcerVars, Option
<1>4. slot' \in Option(Pending)
  <2>1. CASE RulesIssues
    BY <2>1, SlotAfterCalls, DelaysAreDelays
    DEF RulesIssues, ShutdownAccepted, TypeOK, MachineTypeOK, Pending, Issuers
  <2>2. CASE RulesRefused \/ RulesLocks
    BY <2>2 DEF RulesRefused, RulesLocks, ShutdownRefused, TypeOK, MachineTypeOK, Pending
  <2>3. CASE RulesEdge
    BY <2>3, SlotAfterCalls DEF RulesEdge, TypeOK, MachineTypeOK, Pending
  <2>4. CASE RulesAborts
    BY <2>4, SlotAfterCalls DEF RulesAborts, AbortDone, AbortFailed, TypeOK, MachineTypeOK, Pending
  <2> QED BY <2>1, <2>2, <2>3, <2>4 DEF RulesLoopActs
<1>5. MachineTypeOK'
  BY <1>4
  DEF RulesLoopActs, RulesIssues, RulesRefused, RulesLocks, RulesEdge, RulesAborts, TypeOK,
      MachineTypeOK, policyVars, Pending
<1> QED BY <1>1, <1>3, <1>5 DEF TypeOK

\* A unit of time keeps the types.
LEMMA TypePass ==
    ASSUME TypeOK, Pass
    PROVE  TypeOK'
<1>1. MachineTypeOK'
  BY SlotAfterCalls DEF Pass, TypeOK, MachineTypeOK, policyVars, Pending
<1>2. CurfewTypeOK'
  BY DeadlineAfterTime DEF Pass, TypeOK, CurfewTypeOK
<1>3. lockGrace' \in Option(0 .. Warn)
  <2>1. CASE lockGrace = {}
    BY <2>1 DEF Pass, Option
  <2>2. CASE \E g \in 0 .. Warn : lockGrace = {g}
    <3>1. PICK g \in 0 .. Warn : lockGrace = {g}
      BY <2>2
    <3>2. lockGrace' = {IF g > 0 THEN g - 1 ELSE g}
      BY <3>1 DEF Pass
    <3>3. (IF g > 0 THEN g - 1 ELSE g) \in 0 .. Warn
      BY WarnAssumption
    <3> QED BY <3>2, <3>3 DEF Option
  <2> QED BY <2>1, <2>2 DEF TypeOK, BudgetTypeOK, Option
<1>4. BudgetTypeOK'
  BY <1>3, DeadlineAfterTime DEF Pass, TypeOK, BudgetTypeOK
<1> QED BY <1>1, <1>2, <1>4 DEF TypeOK

\* The parent, the person at the machine and the child keep the types.
LEMMA TypeEnvironment ==
    ASSUME TypeOK, PolicyChanges \/ PersonActs \/ ChildCancelsShutdown
    PROVE  TypeOK'
<1>1. CurfewTypeOK' /\ BudgetTypeOK'
  BY DEF TypeOK, CurfewTypeOK, BudgetTypeOK, PolicyChanges, PersonActs, ChildCancelsShutdown,
         curfewVars, budgetVars, enforcerVars
<1>2. slot' \in Option(Pending)
  BY SlotAfterCalls, DelaysAreDelays DEF TypeOK, MachineTypeOK, Pending, Issuers, PolicyChanges,
     PersonActs, ChildCancelsShutdown, SessionChanges, ParentShutsDown, ShutdownAccepted,
     ChildCancels, machineVars, Option
<1>3. MachineTypeOK'
  BY <1>2
  DEF TypeOK, MachineTypeOK, Pending, PolicyChanges, PersonActs, ChildCancelsShutdown,
      SessionChanges, ParentShutsDown, ChildCancels, CurfewChanges, PauseChanges, BudgetChanges,
      ActionChanges, machineVars, policyVars
<1> QED BY <1>1, <1>3 DEF TypeOK

\* Going off, booting and restarting the service keep the types.
LEMMA TypeRestart ==
    ASSUME TypeOK, MachineOff \/ Boot \/ Restart
    PROVE  TypeOK'
<1>1. CurfewTypeOK' /\ BudgetTypeOK'
  BY DEF TypeOK, CurfewTypeOK, BudgetTypeOK, Actions, Places, MachineOff, Boot, Restart,
     MemoryLost, TickEnds, curfewVars, budgetVars, enforcerVars, Option
<1>2. slot' \in Option(Pending)
  BY SlotAfterCalls DEF TypeOK, MachineTypeOK, Pending, MachineOff, PowerOff, Boot, Restart, Option
<1>3. MachineTypeOK'
  BY <1>2
  DEF TypeOK, MachineTypeOK, Pending, MachineOff, PowerOff, Boot, Restart, policyVars
<1> QED BY <1>1, <1>3 DEF TypeOK

\* No step leaves the declared types.
LEMMA TypeStep == TypeOK /\ [Next]_vars => TypeOK'
<1> SUFFICES ASSUME TypeOK, [Next]_vars PROVE TypeOK'
  OBVIOUS
<1>1. CASE UNCHANGED vars
  BY <1>1
  DEF vars, machineVars, policyVars, curfewVars, budgetVars, enforcerVars, TypeOK, MachineTypeOK,
      CurfewTypeOK, BudgetTypeOK
<1> QED
  BY <1>1, TypeCurfewLoop, TypeRulesLoopThinks, TypeRulesLoopActs, TypePass, TypeEnvironment,
     TypeRestart
  DEF Next

(* Every variable keeps its type, whatever the loops, the people and the    *)
(* power do, for every warning time, slack and policy.                      *)
THEOREM TypeCorrect == Spec => []TypeOK
  BY TypeInit, TypeStep, PTL DEF Spec

-----------------------------------------------------------------------------
(* The curfew's own bookkeeping. *)

\* Every step keeps the curfew loop in agreement with its deadline.
LEMMA CurfewAgreesStep ==
    ASSUME TypeOK, CurfewAgrees, [Next]_vars
    PROVE  CurfewAgrees'
<1> USE DEF CurfewAgrees
<1>1. CASE CurfewLoopTicks
  BY <1>1 DEF CurfewLoopTicks, CurfewTick, CurfewDecide, Overdue
<1>2. CASE CurfewLoopActs
  BY <1>2 DEF CurfewLoopActs, CurfewStep, CurfewIssues, CurfewRefused, CurfewAborts, CurfewDisarm
<1>3. CASE Pass
  <2>1. curfewDeadline' = {} <=> curfewDeadline = {}
    BY <1>3 DEF Pass, Later
  <2> QED BY <1>3, <2>1 DEF Pass
<1>4. CASE MachineOff \/ Restart
  BY <1>4 DEF MachineOff, Restart, MemoryLost
<1>5. CASE UNCHANGED curfewVars
  BY <1>5 DEF curfewVars
<1> QED
  BY <1>1, <1>2, <1>3, <1>4, <1>5
  DEF Next, vars, RulesLoopThinks, RulesLoopActs, PolicyChanges, PersonActs, ChildCancelsShutdown, Boot

(* A curfew never powers the machine off at once in an episode in which no  *)
(* countdown of its own was accepted: what Enforcer::disarm is for.         *)
THEOREM CurfewAlwaysWarnsFirst == Spec => []CurfewWarnsFirst
<1>1. Init => CurfewAgrees
  BY DEF Init, CurfewInit, CurfewAgrees
<1>2. TypeOK /\ CurfewAgrees /\ [Next]_vars => CurfewAgrees'
  BY CurfewAgreesStep
<1>3. CurfewAgrees => CurfewWarnsFirst
  BY DEF CurfewAgrees, CurfewWarnsFirst
<1> QED BY <1>1, <1>2, <1>3, TypeCorrect, PTL DEF Spec

-----------------------------------------------------------------------------
(* The grace before a lock. *)

\* Every step keeps the budget's deadline in agreement with its grace.
LEMMA GraceAgreesStep ==
    ASSUME TypeOK, GraceAgrees, [Next]_vars
    PROVE  GraceAgrees'
<1> USE DEF GraceAgrees
<1>1. CASE RulesLoopThinks
  <2>1. CASE RulesDecide
    <3>1. CASE DecideAbsent
      BY <3>1 DEF DecideAbsent
    <3>2. CASE DecideUnder \/ DecideWarn \/ DecideShutdown
      BY <3>2 DEF DecideUnder, DecideWarn, DecideShutdown
    <3>3. CASE DecideLock
      <4>1. CASE UNCHANGED <<budgetDeadline, episodeWarned, lockGrace>>
        BY <4>1
      <4>2. CASE budgetDeadline' = {Warn} /\ episodeWarned' /\ lockGrace' = {Warn}
        BY <4>2, WarnAssumption
      <4> QED BY <3>3, <4>1, <4>2 DEF DecideLock
    <3> QED BY <2>1, <3>1, <3>2, <3>3 DEF RulesDecide
  <2>2. CASE RulesTick \/ RulesObserves \/ RulesTickAbandoned
    <3>1. UNCHANGED enforcerVars
      BY <2>2 DEF RulesTick, RulesObserves, RulesTickAbandoned
    <3> QED BY <3>1 DEF enforcerVars
  <2> QED BY <1>1, <2>1, <2>2 DEF RulesLoopThinks
<1>2. CASE Pass
  <2> SUFFICES ASSUME NEW g \in lockGrace'
               PROVE  episodeWarned' /\ \A d \in budgetDeadline' : d <= g
    OBVIOUS
  <2>1. PICK h \in lockGrace : g = IF h > 0 THEN h - 1 ELSE h
    BY <1>2 DEF Pass
  <2>2. h \in 0 .. Warn /\ \A d \in budgetDeadline : d \in Deadlines
    BY <2>1 DEF TypeOK, BudgetTypeOK, Option
  <2>3. episodeWarned'
    BY <1>2, <2>1 DEF Pass
  <2>4. ASSUME NEW d \in budgetDeadline' PROVE d <= g
    <3>1. PICK c \in budgetDeadline : d = IF c > -Slack THEN c - 1 ELSE c
      BY <1>2 DEF Pass, Later
    <3>2. c <= h /\ c \in Int /\ c >= -Slack
      BY <2>1, <2>2, <3>1, WarnAssumption, SlackAssumption DEF Deadlines
    <3> QED BY <2>1, <2>2, <3>1, <3>2, WarnAssumption, SlackAssumption
  <2> QED BY <2>3, <2>4
<1>3. CASE MachineOff \/ Restart
  BY <1>3 DEF MachineOff, Restart, MemoryLost
<1>4. CASE UNCHANGED enforcerVars
  BY <1>4 DEF enforcerVars
<1> QED
  BY <1>1, <1>2, <1>3, <1>4
  DEF Next, vars, budgetVars, CurfewLoopTicks, CurfewLoopActs, RulesLoopActs, RulesIssues,
      RulesRefused, RulesLocks, RulesEdge, RulesAborts, PolicyChanges, PersonActs,
      ChildCancelsShutdown, Boot

(* Leaving the machine and coming back never earns a second grace: once the *)
(* first has run out, the next decision taken in front of a spent budget    *)
(* locks the screen.                                                        *)
THEOREM GraceIsGivenOnce == Spec => GraceIsNotRenewed
<1>1. Init => GraceAgrees
  BY DEF Init, BudgetInit, GraceAgrees
<1>2. TypeOK /\ GraceAgrees /\ [Next]_vars => GraceAgrees'
  BY GraceAgreesStep
<1>3. ASSUME TypeOK, GraceAgrees, [Next]_vars,
             rulesPc = "list", rulesPc' \notin {"list", "idle"}, occupied, lockGrace = {0},
             \E p \in snapshot : p.budget = "spent" /\ p.action = "Lock"
      PROVE  rulesPc' = "LockScreen"
  <2>1. RulesDecide
    BY <1>3
    DEF Next, vars, budgetVars, CurfewLoopTicks, CurfewLoopActs, RulesLoopThinks, RulesTick,
        RulesObserves, RulesTickAbandoned, TickEnds, RulesLoopActs, RulesIssues, RulesRefused,
        RulesLocks, RulesEdge, RulesAborts, Pass, PolicyChanges, PersonActs, ChildCancelsShutdown,
        MachineOff, MemoryLost, Boot, Restart
  <2>2. PICK p \in snapshot : snapshot = {p} /\ p.budget = "spent" /\ p.action = "Lock"
    BY <1>3 DEF TypeOK, BudgetTypeOK, Option
  <2>3. DecideLock
    BY <1>3, <2>1, <2>2 DEF RulesDecide
  <2>4. episodeWarned /\ \A d \in budgetDeadline : d <= 0
    BY <1>3 DEF GraceAgrees
  <2> QED BY <2>3, <2>4 DEF DecideLock
<1>4. TypeOK /\ GraceAgrees /\ [Next]_vars =>
        [ (/\ rulesPc = "list" /\ rulesPc' \notin {"list", "idle"} /\ occupied /\ lockGrace = {0}
           /\ \E p \in snapshot : p.budget = "spent" /\ p.action = "Lock")
              => rulesPc' = "LockScreen" ]_vars
  BY <1>3
<1> QED BY <1>1, <1>2, <1>4, TypeCorrect, PTL DEF Spec, GraceIsNotRenewed

-----------------------------------------------------------------------------
(* Who answers for the pending shutdown. *)

\* A shutdown left to itself, or inherited by a new run of the service, is nobody's.
LEMMA NobodysShutdown ==
    ASSUME slot \in Option(Pending)
    PROVE  /\ \A by \in {"curfew", "budget"} : \A s \in Orphaned(by) :
                 s.left > 0 => s.by # by /\ (s.by # "orphan" => s \in slot)
           /\ \A s \in {Forgotten(r) : r \in slot} : s.by \notin {"curfew", "budget"}
<1>1. \A r \in slot : r \in Pending
  BY DEF Option
<1>2. ASSUME NEW by \in {"curfew", "budget"}, NEW r \in Pending, NEW s, s = Orphan(r, by), s.left > 0
      PROVE  s.by # by /\ (s.by # "orphan" => s = r)
  <2>1. CASE r.by = by
    <3>1. s.left = r.left
      BY <1>2 DEF Orphan, Pending
    <3> QED BY <1>2, <2>1, <3>1 DEF Orphan, Pending
  <2>2. CASE r.by # by
    BY <1>2, <2>2 DEF Orphan, Pending
  <2> QED BY <2>1, <2>2
<1>3. \A r \in Pending : Forgotten(r).by \in {"parent", "orphan"}
  BY DEF Forgotten, Pending
<1> QED BY <1>1, <1>2, <1>3 DEF Orphaned

\* Without stalls, every step keeps a curfew's countdown answered for.
LEMMA CurfewCountdownStep ==
    ASSUME TypeOK, CurfewAgrees, ~Stalls, CurfewCountdownAgrees, [Next]_vars
    PROVE  CurfewCountdownAgrees'
<1>1. slot \in Option(Pending) /\ \A s \in slot : s \in Pending
  BY DEF TypeOK, MachineTypeOK, Pending, Option
<1>2. \A c, d \in curfewDeadline : c = d /\ c \in Int
  BY WarnAssumption, SlackAssumption DEF TypeOK, CurfewTypeOK, Option, Deadlines
<1> USE DEF CurfewCountdownAgrees
<1>3. CASE CurfewLoopTicks
  <2>1. UNCHANGED slot /\ CurfewDecide(curfew) /\ curfewAction = "None"
    BY <1>3 DEF CurfewLoopTicks, CurfewTick, machineVars
  <2>2. \A s \in slot : s.left \in Nat
    BY <1>1, WarnAssumption DEF Pending, Delays
  <2> QED BY <1>2, <2>1, <2>2, SlackAssumption DEF CurfewDecide, Overdue
<1>4. CASE CurfewLoopActs
  <2>1. CASE CurfewIssues
    BY <2>1, <1>1, WarnAssumption DEF CurfewIssues, ShutdownAccepted, CurfewDelay
  <2>2. CASE CurfewRefused
    BY <2>2 DEF CurfewRefused, ShutdownRefused
  <2>3. CASE CurfewAborts
    BY <2>3, <1>1, NobodysShutdown DEF CurfewAborts, AbortDone, AbortFailed
  <2> QED BY <1>4, <2>1, <2>2, <2>3 DEF CurfewLoopActs, CurfewStep
<1>5. CASE RulesLoopActs
  <2>1. UNCHANGED curfewVars
    BY <1>5 DEF RulesLoopActs
  <2>2. \A s \in slot' : s.by = "curfew" /\ s.left > 0 => s \in slot
    <3>1. CASE RulesIssues \/ RulesRefused \/ RulesLocks
      BY <3>1 DEF RulesIssues, RulesRefused, RulesLocks, ShutdownAccepted, ShutdownRefused
    <3>2. CASE RulesEdge \/ RulesAborts
      <4>1. UNCHANGED slot \/ slot' = {s \in slot : s.left = 0} \/ slot' = Orphaned("budget")
        BY <3>2 DEF RulesEdge, RulesAborts, AbortDone, AbortFailed
      <4> QED BY <1>1, <4>1, NobodysShutdown
    <3> QED BY <1>5, <3>1, <3>2 DEF RulesLoopActs
  <2> QED BY <2>1, <2>2 DEF curfewVars
<1>6. CASE Pass
  <2>1. curfewAction = "None" /\ curfewAction' = "None"
    BY <1>6 DEF Pass
  <2>2. ASSUME NEW s \in slot', s.by = "curfew", s.left > 0
        PROVE  \E d \in curfewDeadline' : d >= s.left
    <3>1. PICK r \in slot : s = Older(r)
      BY <1>6, <2>2 DEF Pass
    <3>2. r.by = "curfew" /\ r.left \in Nat /\ r.left > 0 /\ s.left = r.left - 1
      BY <1>1, <2>2, <3>1, WarnAssumption DEF Older, Pending, Delays
    <3>3. PICK d \in curfewDeadline : d >= r.left
      BY <2>1, <3>2
    <3>4. d - 1 \in curfewDeadline'
      BY <1>2, <1>6, <3>2, <3>3, SlackAssumption DEF Pass, Later
    <3> QED BY <1>2, <3>2, <3>3, <3>4
  <2> QED BY <2>1, <2>2
<1>7. CASE MachineOff \/ Restart
  BY <1>1, <1>7, NobodysShutdown DEF MachineOff, PowerOff, Restart, MemoryLost
<1>8. CASE PersonActs \/ ChildCancelsShutdown
  BY <1>8
  DEF PersonActs, SessionChanges, ParentShutsDown, ShutdownAccepted, ChildCancelsShutdown,
      ChildCancels, curfewVars
<1>9. CASE UNCHANGED <<slot, curfewVars>>
  BY <1>9 DEF curfewVars
<1> QED
  BY <1>3, <1>4, <1>5, <1>6, <1>7, <1>8, <1>9
  DEF Next, vars, machineVars, RulesLoopThinks, PolicyChanges, Boot

\* Every step keeps the budget's countdown answered for.
LEMMA BudgetAgreesStep ==
    ASSUME TypeOK, BudgetAgrees, [Next]_vars
    PROVE  BudgetAgrees'
<1>1. slot \in Option(Pending)
  BY DEF TypeOK, MachineTypeOK, Pending
<1> USE DEF BudgetAgrees
<1>2. CASE RulesLoopThinks
  <2>1. UNCHANGED slot
    BY <1>2 DEF RulesLoopThinks, machineVars
  <2>2. CASE RulesTick \/ RulesObserves \/ RulesTickAbandoned
    <3>1. CASE RulesTick
      BY <2>1, <3>1 DEF RulesTick
    <3>2. CASE RulesObserves
      BY <2>1, <3>2 DEF RulesObserves
    <3>3. CASE RulesTickAbandoned
      BY <2>1, <3>3 DEF RulesTickAbandoned, TickEnds
    <3> QED BY <2>2, <3>1, <3>2, <3>3
  <2>3. CASE RulesDecide
    <3>1. /\ UNCHANGED prevWanted /\ rulesPc = "list" /\ WantedNow' = WantedNow
          /\ rulesPc' \notin {"abort", "observe", "list"}
      BY <2>3
      DEF RulesDecide, WantedNow, DecideAbsent, DecideUnder, DecideWarn, DecideLock, DecideShutdown
    <3>2. rulesPc' \in {"Shutdown", "ShutdownNow"} => WantedNow
      <4>1. PICK p \in snapshot :
              \/ DecideAbsent \/ DecideUnder \/ DecideWarn \/ DecideLock
              \/ p.budget = "spent" /\ p.action = "Shutdown"
        BY <2>3 DEF RulesDecide
      <4>2. CASE DecideAbsent \/ DecideUnder \/ DecideWarn \/ DecideLock
        BY <4>2 DEF DecideAbsent, DecideUnder, DecideWarn, DecideLock
      <4>3. CASE p.budget = "spent" /\ p.action = "Shutdown"
        BY <3>1, <4>3 DEF WantedNow
      <4> QED BY <4>1, <4>2, <4>3
    <3> QED BY <2>1, <3>1, <3>2
  <2> QED BY <1>2, <2>2, <2>3 DEF RulesLoopThinks
<1>3. CASE RulesLoopActs
  <2>1. CASE RulesIssues \/ RulesRefused \/ RulesLocks
    <3>1. UNCHANGED prevWanted /\ WantedNow' = WantedNow /\ rulesPc' = "edge"
      BY <2>1 DEF RulesIssues, RulesRefused, RulesLocks, WantedNow
    <3>2. rulesPc # "edge"
      BY <2>1 DEF RulesIssues, RulesRefused, RulesLocks
    <3>3. CASE RulesIssues
      BY <3>1, <3>3 DEF RulesIssues
    <3>4. CASE RulesRefused \/ RulesLocks
      BY <3>1, <3>2, <3>4 DEF RulesRefused, RulesLocks, ShutdownRefused
    <3> QED BY <2>1, <3>3, <3>4
  <2>2. CASE RulesEdge
    BY <2>2, <1>1, NobodysShutdown DEF RulesEdge, TickEnds, FallingEdge
  <2>3. CASE RulesAborts
    BY <2>3, <1>1, NobodysShutdown DEF RulesAborts, TickEnds, AbortDone, AbortFailed
  <2> QED BY <1>3, <2>1, <2>2, <2>3 DEF RulesLoopActs
<1>4. CASE CurfewLoopActs
  <2>1. UNCHANGED <<rulesPc, snapshot, prevWanted>>
    BY <1>4 DEF CurfewLoopActs, budgetVars
  <2>2. \A s \in slot' : s.by = "budget" /\ s.left > 0 => s \in slot
    BY <1>1, <1>4, NobodysShutdown
    DEF CurfewLoopActs, CurfewStep, CurfewIssues, CurfewRefused, CurfewAborts, ShutdownAccepted,
        ShutdownRefused, AbortDone, AbortFailed
  <2> QED BY <2>1, <2>2 DEF WantedNow
<1>5. CASE Pass
  <2>1. UNCHANGED <<rulesPc, snapshot, prevWanted>>
    BY <1>5 DEF Pass
  <2>2. \A s \in slot' : s.by = "budget" /\ s.left > 0 => \E r \in slot : r.by = "budget" /\ r.left > 0
    BY <1>5 DEF Pass, Older, TypeOK, MachineTypeOK, Option
  <2> QED BY <2>1, <2>2 DEF WantedNow
<1>6. CASE MachineOff \/ Restart
  BY <1>1, <1>6, NobodysShutdown DEF MachineOff, PowerOff, Restart, MemoryLost, TickEnds
<1>7. CASE PersonActs \/ ChildCancelsShutdown
  BY <1>7
  DEF PersonActs, SessionChanges, ParentShutsDown, ShutdownAccepted, ChildCancelsShutdown,
      ChildCancels, budgetVars, WantedNow
<1>8. CASE UNCHANGED <<slot, budgetVars>>
  BY <1>8 DEF budgetVars, WantedNow
<1> QED
  BY <1>2, <1>3, <1>4, <1>5, <1>6, <1>7, <1>8
  DEF Next, vars, machineVars, CurfewLoopTicks, PolicyChanges, Boot

(* A countdown an enforcer scheduled is one an enforcer would still cancel, *)
(* as long as no unit of time passes in the middle of a tick.               *)
THEOREM PendingIsAlwaysAnsweredFor == ~Stalls => (Spec => []PendingIsAnsweredFor)
<1> SUFFICES ASSUME ~Stalls PROVE Spec => []PendingIsAnsweredFor
  OBVIOUS
<1> DEFINE J == CurfewAgrees /\ CurfewCountdownAgrees /\ BudgetAgrees
<1>1. Init => J
  BY DEF Init, MachineInit, CurfewInit, BudgetInit, CurfewAgrees, CurfewCountdownAgrees, BudgetAgrees
<1>2. TypeOK /\ J /\ [Next]_vars => J'
  BY CurfewAgreesStep, CurfewCountdownStep, BudgetAgreesStep
<1>3. J => PendingIsAnsweredFor
  BY DEF CurfewAgrees, CurfewCountdownAgrees, BudgetAgrees, PendingIsAnsweredFor
<1> QED BY <1>1, <1>2, <1>3, TypeCorrect, PTL DEF Spec

-----------------------------------------------------------------------------
(* Programs: what a tick announces, and what it closes. *)

\* A threshold a tick crosses is one of WARN_AT_MINS, between what is left and what was.
LEMMA SaidOnTheWayDown ==
    ASSUME NEW last, NEW left, NEW t \in Observed(last, left)
    PROVE  t \in WarnAt /\ left <= t /\ \E before \in last : before > t
  BY DEF Observed, Crossed

\* A policy a behaviour draws on has a budget in minutes.
LEMMA BudgetsAreMinutes ==
    ASSUME NEW it \in Plays, NEW r \in it.rules
    PROVE  r.budget \in Nat
  BY PlaysAssumption

\* How many sessions an edge closes: the one that was open.
LEMMA SessionsOfAnEdge ==
    Cardinality({}) = 0 /\ \A b : Cardinality({b}) = 1
  BY FS_EmptySet, FS_Singleton

\* The first state agrees with itself.
LEMMA ProgramsInvInit == ProgramsInit => ProgramsIInv
<1> SUFFICES ASSUME ProgramsInit PROVE ProgramsIInv
  OBVIOUS
<1>1. FiguresTypeOK
  BY DEF ProgramsInit, FiguresTypeOK, Fresh, Unprimed, Option
<1>2. AnnouncementsAgree /\ CountdownAgrees /\ SessionAgrees
  BY DEF ProgramsInit, AnnouncementsAgree, CountdownAgrees, SessionAgrees
<1>3. KillsAreOfTheTick
  BY DEF ProgramsInit, KillsAreOfTheTick, WordsReachOnlyTheChilds
<1> QED BY <1>1, <1>2, <1>3 DEF ProgramsIInv

\* Beginning a tick, or standing down, keeps every part.
LEMMA ProgramsInvBegins ==
    ASSUME ProgramsIInv, Begins
    PROVE  ProgramsIInv'
<1>1. /\ FiguresTypeOK /\ AnnouncementsAgree /\ CountdownAgrees /\ SessionAgrees
      /\ kills = {} /\ kills' = {} /\ step = "idle"
  BY DEF ProgramsIInv, KillsAreOfTheTick, Begins
<1>2. KillsAreOfTheTick'
  BY <1>1 DEF KillsAreOfTheTick, WordsReachOnlyTheChilds
<1>3. CountdownAgrees'
  BY <1>1 DEF CountdownAgrees, Begins
<1>4. /\ UNCHANGED <<play, policy, extra, countdown, said>> /\ since' = 0
  BY DEF Begins, worldVars
<1>5. CASE StandsDown
  <2>1. AnnouncementsAgree'
    <3>1. CASE usage.day = {date}
      BY <1>1, <1>5, <3>1 DEF StandsDown, Retired, Remembers, DayTurns, AnnouncementsAgree
    <3>2. CASE usage.day # {date}
      BY <1>5, <3>2 DEF StandsDown, Retired, Remembers, DayTurns, AnnouncementsAgree
    <3> QED BY <3>1, <3>2
  <2>2. SessionAgrees'
    <3>1. opened' = opened - Stops(prevActive) /\ prevActive' = {}
      BY <1>5 DEF StandsDown
    <3>2. opened = Stops(prevActive) /\ Stops(prevActive) \in Int
      BY <1>1 DEF Stops, SessionAgrees
    <3>3. {} # {TRUE}
      OBVIOUS
    <3>4. opened' = 0
      BY <3>1, <3>2
    <3> QED BY <3>1, <3>3, <3>4 DEF SessionAgrees
  <2>3. usage'.total \in Nat
    BY <1>1, <1>5 DEF StandsDown, Fresh, FiguresTypeOK
  <2>4. prevActive' \in Option(BOOLEAN) /\ step' = "idle"
    BY <1>5 DEF StandsDown, Option
  <2>5. FiguresTypeOK'
    BY <1>1, <1>4, <2>3, <2>4 DEF FiguresTypeOK
  <2> QED BY <1>2, <1>3, <2>1, <2>2, <2>5 DEF ProgramsIInv
<1>6. CASE ~ StandsDown
  <2> DEFINE elapsed == IF since > MaxCharge THEN MaxCharge ELSE since
  <2>1. /\ UNCHANGED <<usage, announced, prevActive, opened, told, closed, watched>>
        /\ tick' = [NothingRead EXCEPT !.elapsed = elapsed, !.day = date, !.rules = policy,
                              !.extra = extra, !.reported = feed]
    BY <1>6 DEF Begins
  <2>2. elapsed \in Nat
    BY <1>1 DEF FiguresTypeOK, MaxCharge
  <2>3. policy.budget \in Nat
    BY <1>1, BudgetsAreMinutes DEF FiguresTypeOK
  <2> HIDE DEF elapsed
  <2>4. /\ tick'.elapsed = elapsed /\ tick'.extra = extra /\ tick'.rules = policy /\ tick'.active = TRUE
    BY <2>1 DEF NothingRead
  <2>5. FiguresTypeOK'
    BY <1>1, <1>4, <2>1, <2>2, <2>3, <2>4 DEF FiguresTypeOK
  <2>6. AnnouncementsAgree' /\ SessionAgrees'
    BY <1>1, <2>1 DEF AnnouncementsAgree, SessionAgrees
  <2> QED BY <1>2, <1>3, <2>5, <2>6 DEF ProgramsIInv
<1> QED BY <1>5, <1>6

\* Reading keeps every part.
LEMMA ProgramsInvReads ==
    ASSUME ProgramsIInv, SeesSession \/ ReadsList \/ ListFails \/ ReadsOwners
    PROVE  ProgramsIInv'
<1>1. /\ step # "act" /\ step # "idle" /\ step' # "act"
      /\ UNCHANGED <<play, policy, extra, usage, since, prevActive, countdown, said, announced, closed,
                     told, repeated, opened, kills>>
  BY DEF SeesSession, ReadsList, ListFails, ReadsOwners, readingUnchanged, worldVars, pastVars
<1>2. AnnouncementsAgree' /\ CountdownAgrees' /\ SessionAgrees'
  BY <1>1 DEF ProgramsIInv, AnnouncementsAgree, CountdownAgrees, SessionAgrees
<1>3. KillsAreOfTheTick'
  BY <1>1 DEF ProgramsIInv, KillsAreOfTheTick, WordsReachOnlyTheChilds
<1>4. step' # "idle" => /\ tick'.elapsed \in Nat /\ tick'.extra \in Nat /\ tick'.rules.budget \in Nat
                        /\ tick'.active \in BOOLEAN
  <2>1. CASE SeesSession
    BY <1>1, <2>1 DEF SeesSession, ProgramsIInv, FiguresTypeOK
  <2>2. CASE ReadsList
    BY <1>1, <2>2 DEF ReadsList, ProgramsIInv, FiguresTypeOK
  <2>3. CASE ListFails
    BY <2>3 DEF ListFails
  <2>4. CASE ReadsOwners
    BY <1>1, <2>4 DEF ReadsOwners, ProgramsIInv, FiguresTypeOK
  <2> QED BY <2>1, <2>2, <2>3, <2>4
<1>5. FiguresTypeOK'
  BY <1>1, <1>4 DEF ProgramsIInv, FiguresTypeOK
<1> QED BY <1>2, <1>3, <1>5 DEF ProgramsIInv

\* Closing a process leaves the others, of the same tick; after the last the tick is over.
LEMMA WhatClosingLeaves ==
    ASSUME Closes
    PROVE  /\ kills' \subseteq kills /\ step = "act" /\ UNCHANGED <<policy, extra, since>>
           /\ (step' = "act" /\ tick' = tick) \/ (step' = "idle" /\ kills' = {})
<1>1. \E o \in kills : /\ kills' = kills \ {o}
                      /\ step' = (IF kills = {o} THEN "idle" ELSE "act")
                      /\ tick' = (IF kills = {o} THEN NothingRead ELSE tick)
  BY Zenon DEF Closes
<1>2. PICK o \in kills : /\ kills' = kills \ {o}
                        /\ step' = (IF kills = {o} THEN "idle" ELSE "act")
                        /\ tick' = (IF kills = {o} THEN NothingRead ELSE tick)
  BY <1>1
<1>3. CASE kills = {o}
  <2>1. kills' = {} /\ step' = "idle"
    BY <1>2, <1>3
  <2> QED BY <2>1 DEF Closes
<1>4. CASE kills # {o}
  <2>1. step' = "act" /\ tick' = tick
    BY <1>2, <1>4, Zenon
  <2>2. kills' \subseteq kills
    BY <1>2
  <2> QED BY <2>1, <2>2 DEF Closes
<1> QED BY <1>3, <1>4

\* Closing, and what the tick does not wait for, keep every part.
LEMMA ProgramsInvRest ==
    ASSUME ProgramsIInv,
           \/ Closes \/ TimePasses \/ Midnight
           \/ \E p \in Pids, process \in Process : Starts(p, process)
           \/ \E p \in Pids : Exits(p)
           \/ \E sample \in play.samples : Reports(sample)
           \/ \E rules \in play.rules : ParentChanges(rules)
           \/ \E minutes \in play.extras : Grants(minutes)
           \/ UNCHANGED programVars
    PROVE  ProgramsIInv'
<1> USE DEF ProgramsIInv
<1>1. UNCHANGED <<play, usage, announced, countdown, prevActive, opened, told, closed, said, repeated>>
  BY DEF Closes, TimePasses, Midnight, Starts, Exits, Reports, ParentChanges, Grants, programVars,
         worldVars, tickVars, pastVars, serviceUnchanged
<1>2. AnnouncementsAgree' /\ CountdownAgrees' /\ SessionAgrees'
  BY <1>1 DEF AnnouncementsAgree, CountdownAgrees, SessionAgrees
<1>3. CASE Closes
  <2>1. /\ kills' \subseteq kills /\ step = "act" /\ UNCHANGED <<policy, extra, since>>
        /\ (step' = "act" /\ tick' = tick) \/ (step' = "idle" /\ kills' = {})
    BY <1>3, WhatClosingLeaves
  <2>2. CASE step' = "act" /\ tick' = tick
    BY <1>1, <1>2, <2>1, <2>2 DEF FiguresTypeOK, KillsAreOfTheTick, WordsReachOnlyTheChilds
  <2>3. CASE step' = "idle" /\ kills' = {}
    BY <1>1, <1>2, <2>1, <2>3 DEF FiguresTypeOK, KillsAreOfTheTick, WordsReachOnlyTheChilds
  <2> QED BY <2>1, <2>2, <2>3
<1>4. CASE ~ Closes
  <2>1. UNCHANGED <<step, tick, kills>>
    BY <1>4 DEF TimePasses, Midnight, Starts, Exits, Reports, ParentChanges, Grants, programVars,
                tickVars, serviceUnchanged
  <2>2. KillsAreOfTheTick'
    BY <2>1 DEF KillsAreOfTheTick, WordsReachOnlyTheChilds
  <2>3. policy' \in play.rules /\ extra' \in Nat /\ since' \in Nat
    BY <1>4, PlaysAssumption
    DEF FiguresTypeOK, TimePasses, Midnight, Starts, Exits, Reports, ParentChanges, Grants, programVars,
        worldVars, tickVars
  <2>4. FiguresTypeOK'
    BY <1>1, <2>1, <2>3 DEF FiguresTypeOK
  <2> QED BY <1>2, <2>2, <2>4
<1> QED BY <1>3, <1>4

\* A decision keeps the announcements those of what was closed.
LEMMA DecisionAnnounces ==
    ASSUME AnnouncementsAgree, Decides
    PROVE  AnnouncementsAgree'
<1>1. PICK keys : /\ announced' = Retired(usage, tick.day) \union keys
                  /\ told' = [k \in Keys |-> DayTurns(tick.day).told[k] +
                                  (IF k \in keys \ Retired(usage, tick.day) THEN 1 ELSE 0)]
                  /\ closed' = DayTurns(tick.day).closed \union keys
  <2> DEFINE past == DayTurns(tick.day)
             old == Retired(usage, tick.day)
  <2>1. /\ DOMAIN past = {"told", "closed", "watched"}
        /\ past.told = [k \in Keys |-> past.told[k]]
    BY DEF DayTurns, AnnouncementsAgree
  <2>2. PICK keys : /\ announced' = old \union keys
                    /\ \E e : Remembers([past EXCEPT
                           !.told = [k \in Keys |-> @[k] + IF k \in keys \ old THEN 1 ELSE 0],
                           !.closed = @ \union keys, !.watched = @ + e])
    BY DEF Decides
  <2> QED BY <2>1, <2>2 DEF Remembers
<1>2. CASE usage.day = {tick.day}
  BY <1>1, <1>2 DEF Retired, DayTurns, AnnouncementsAgree
<1>3. CASE usage.day # {tick.day}
  BY <1>1, <1>3 DEF Retired, DayTurns, AnnouncementsAgree
<1> QED BY <1>2, <1>3

\* A decision keeps the countdown's record, whatever the tally it was taken on.
LEMMA DecisionCountsDown ==
    ASSUME FiguresTypeOK, CountdownAgrees, step # "idle",
           NEW u, u.total \in Nat, CountsDown(u)
    PROVE  CountdownAgrees' /\ countdown' \subseteq Int /\ said' \subseteq WarnAt
<1> DEFINE allowed == Minutes(Budget(tick.rules, tick.extra))
           left == (allowed - u.total) \div 2
           says == Observed(countdown, left)
           kept == {t \in said : left <= t}
<1>1. allowed \in Int
  BY DEF FiguresTypeOK, Minutes, Budget
<1>2. left \in Int
  <2> HIDE DEF allowed
  <2> QED BY <1>1
<1>3. \/ countdown' = {} /\ UNCHANGED <<said, repeated>>
      \/ /\ countdown' = {left}
         /\ said' = kept \union says /\ repeated' = (repeated \/ says \intersect kept # {})
      \/ UNCHANGED <<countdown, said, repeated>>
  BY DEF CountsDown, Unprimed
<1>4. \A t \in says : t \in WarnAt /\ left <= t /\ \E before \in countdown : before > t
  BY SaidOnTheWayDown
<1> HIDE DEF allowed, left, says
<1>5. says \intersect kept = {}
  <2> SUFFICES ASSUME NEW t \in says, t \in said PROVE FALSE
    OBVIOUS
  <2>1. PICK before \in countdown : before > t
    BY <1>4
  <2>2. before <= t
    BY DEF CountdownAgrees
  <2>3. before \in Int
    BY DEF FiguresTypeOK
  <2>4. t \in Int
    <3>1. t \in WarnAt
      BY <1>4
    <3> QED BY <3>1, ThresholdsAssumption
  <2> QED BY <2>1, <2>2, <2>3, <2>4
<1>6. CASE countdown' = {} /\ UNCHANGED <<said, repeated>>
  BY <1>6 DEF FiguresTypeOK, CountdownAgrees
<1>7. CASE UNCHANGED <<countdown, said, repeated>>
  BY <1>7 DEF FiguresTypeOK, CountdownAgrees
<1>8. CASE /\ countdown' = {left}
           /\ said' = kept \union says /\ repeated' = (repeated \/ says \intersect kept # {})
  <2>1. repeated' = FALSE
    BY <1>5, <1>8 DEF CountdownAgrees
  <2>2. \A t \in said' : t \in WarnAt /\ left <= t
    BY <1>4, <1>8 DEF FiguresTypeOK
  <2>3. countdown' \subseteq Int
    BY <1>2, <1>8
  <2> QED BY <1>8, <2>1, <2>2, <2>3 DEF CountdownAgrees
<1> QED BY <1>3, <1>6, <1>7, <1>8

\* A decision's edge opens a session or closes the one that was open.
LEMMA DecisionMarksTheSession ==
    ASSUME FiguresTypeOK, SessionAgrees, step # "idle", Decides
    PROVE  SessionAgrees'
<1>1. /\ opened' = IF prevActive = {tick.active} THEN opened
                   ELSE IF tick.active THEN opened + 1 ELSE opened - Cardinality(prevActive)
      /\ prevActive' = {tick.active}
  BY DEF Decides
<1>2. tick.active = TRUE \/ tick.active = FALSE
  BY DEF FiguresTypeOK
<1>3. prevActive = {} \/ prevActive = {TRUE} \/ prevActive = {FALSE}
  BY DEF FiguresTypeOK, Option
<1>4. {TRUE} # {FALSE} /\ {} # {TRUE} /\ {} # {FALSE}
  OBVIOUS
<1>5. CASE tick.active = TRUE
  <2>1. CASE prevActive = {TRUE}
    BY <1>1, <1>5, <2>1 DEF SessionAgrees
  <2>2. CASE prevActive # {TRUE}
    <3>1. opened = 0 /\ opened' = opened + 1
      BY <1>1, <1>5, <2>2 DEF SessionAgrees
    <3>2. prevActive' = {TRUE}
      BY <1>1, <1>5
    <3>3. opened' = 1
      BY <3>1
    <3> QED BY <3>2, <3>3 DEF SessionAgrees
  <2> QED BY <2>1, <2>2
<1>6. CASE tick.active = FALSE
  <2>1. opened' = 0
    <3>1. CASE prevActive = {FALSE}
      BY <1>1, <1>4, <1>6, <3>1 DEF SessionAgrees
    <3>2. CASE prevActive = {}
      <4>1. opened = 0 /\ opened' = opened - Cardinality(prevActive)
        BY <1>1, <1>4, <1>6, <3>2 DEF SessionAgrees
      <4> QED BY <3>2, <4>1, SessionsOfAnEdge
    <3>3. CASE prevActive = {TRUE}
      <4>1. opened = 1 /\ opened' = opened - Cardinality(prevActive)
        BY <1>1, <1>4, <1>6, <3>3 DEF SessionAgrees
      <4>2. Cardinality(prevActive) = 1
        BY <3>3, SessionsOfAnEdge
      <4> QED BY <4>1, <4>2
    <3> QED BY <1>3, <3>1, <3>2, <3>3
  <2> QED BY <1>1, <1>4, <1>6, <2>1 DEF SessionAgrees
<1> QED BY <1>2, <1>5, <1>6

\* An order is for a process the tick listed, and one for a word was the child's.
LEMMA OrdersReachTheListed ==
    ASSUME NEW u, NEW web, NEW o \in Orders(u, web), o.byWord
    PROVE  /\ \E mine \in tick.owned : \E n \in mine[o.pid] : Key[n] = o.key
           /\ \E n \in tick.procs[o.pid] : Key[n] = o.key
<1> DEFINE listed == UNION {{[pid |-> p, key |-> Key[n]] : n \in tick.procs[p]} : p \in Pids}
<1>1. PICK l \in listed :
          /\ ClosedByName(u, l.key) \/ ClosedByWord(u, web, l.pid, l.key)
          /\ o = [pid |-> l.pid, key |-> l.key, byWord |-> ~ ClosedByName(u, l.key)]
  BY DEF Orders
<1>2. o.pid = l.pid /\ o.key = l.key /\ (o.byWord = ~ ClosedByName(u, l.key))
  BY <1>1
<1>3. ClosedByWord(u, web, l.pid, l.key)
  BY <1>1, <1>2
<1>4. PICK p \in Pids : \E n \in tick.procs[p] : l = [pid |-> p, key |-> Key[n]]
  OBVIOUS
<1>5. \E n \in tick.procs[l.pid] : Key[n] = l.key
  BY <1>4
<1> HIDE DEF listed
<1> QED BY <1>2, <1>3, <1>5 DEF ClosedByWord, ChildsProcess

\* A decision keeps every part.
LEMMA ProgramsInvDecides ==
    ASSUME ProgramsIInv, Decides
    PROVE  ProgramsIInv'
<1>1. step = "decide" /\ UNCHANGED <<play, policy, extra, since>>
  BY DEF Decides, worldVars
<1>2. \E delta \in Nat : \E web, more :
          /\ CountsDown(Accrue(usage, tick, delta, web))
          /\ usage' = [Accrue(usage, tick, delta, web) EXCEPT !.focus = AccruedCapped(@, more, MaxApps)]
          /\ kills' = Orders(Accrue(usage, tick, delta, web), web)
          /\ \/ step' = "idle" /\ kills' = {}
             \/ step' = "act" /\ tick' = tick
  <2>1. (IF tick.active THEN tick.elapsed ELSE 0) \in Nat
    BY <1>1 DEF ProgramsIInv, FiguresTypeOK
  <2> QED BY <2>1 DEF Decides
<1>3. PICK delta \in Nat : \E web, more :
          /\ CountsDown(Accrue(usage, tick, delta, web))
          /\ usage' = [Accrue(usage, tick, delta, web) EXCEPT !.focus = AccruedCapped(@, more, MaxApps)]
          /\ kills' = Orders(Accrue(usage, tick, delta, web), web)
          /\ \/ step' = "idle" /\ kills' = {}
             \/ step' = "act" /\ tick' = tick
  BY <1>2
<1>10. PICK web, more :
          /\ CountsDown(Accrue(usage, tick, delta, web))
          /\ usage' = [Accrue(usage, tick, delta, web) EXCEPT !.focus = AccruedCapped(@, more, MaxApps)]
          /\ kills' = Orders(Accrue(usage, tick, delta, web), web)
          /\ \/ step' = "idle" /\ kills' = {}
             \/ step' = "act" /\ tick' = tick
  BY <1>3
<1> DEFINE u == Accrue(usage, tick, delta, web)
<1>4. u.total \in Nat /\ usage'.total = u.total
  <2>1. ReadOn(usage, tick.day).total \in Nat
    BY DEF ReadOn, Fresh, ProgramsIInv, FiguresTypeOK
  <2>2. u.total = ReadOn(usage, tick.day).total + delta /\ "total" \in DOMAIN u
    BY DEF Accrue
  <2> HIDE DEF u
  <2>3. usage'.total = u.total
    BY <1>10, <2>2 DEF u
  <2> QED BY <2>1, <2>2, <2>3
<1>5. AnnouncementsAgree'
  BY DecisionAnnounces DEF ProgramsIInv
<1>6. CountdownAgrees' /\ countdown' \subseteq Int /\ said' \subseteq WarnAt
  BY <1>1, <1>10, <1>4, DecisionCountsDown DEF ProgramsIInv
<1>7. SessionAgrees'
  BY <1>1, DecisionMarksTheSession DEF ProgramsIInv
<1>8. KillsAreOfTheTick'
  <2>1. CASE step' = "idle" /\ kills' = {}
    BY <2>1 DEF KillsAreOfTheTick, WordsReachOnlyTheChilds
  <2>2. CASE step' = "act" /\ tick' = tick
    BY <1>10, <2>2, OrdersReachTheListed DEF KillsAreOfTheTick, WordsReachOnlyTheChilds
  <2> QED BY <1>10, <2>1, <2>2
<1>9. FiguresTypeOK'
  <2>1. prevActive' \in Option(BOOLEAN)
    <3>1. prevActive' = {tick.active} /\ tick.active \in BOOLEAN
      BY <1>1 DEF Decides, ProgramsIInv, FiguresTypeOK
    <3> QED BY <3>1 DEF Option
  <2>2. step' # "idle" => tick' = tick
    BY <1>10
  <2> HIDE DEF u
  <2> QED BY <1>1, <1>4, <1>6, <2>1, <2>2 DEF ProgramsIInv, FiguresTypeOK
<1> QED BY <1>5, <1>6, <1>7, <1>8, <1>9 DEF ProgramsIInv

\* Every step keeps every part.
LEMMA ProgramsInvStep == ProgramsIInv /\ [ProgramsNext]_programVars => ProgramsIInv'
<1> SUFFICES ASSUME ProgramsIInv, [ProgramsNext]_programVars PROVE ProgramsIInv'
  OBVIOUS
<1>1. CASE Begins
  BY <1>1, ProgramsInvBegins
<1>2. CASE SeesSession \/ ReadsList \/ ListFails \/ ReadsOwners
  BY <1>2, ProgramsInvReads
<1>3. CASE Decides
  BY <1>3, ProgramsInvDecides
<1>4. CASE ~ (Begins \/ SeesSession \/ ReadsList \/ ListFails \/ ReadsOwners \/ Decides)
  BY <1>4, ProgramsInvRest DEF ProgramsNext
<1> QED BY <1>1, <1>2, <1>3, <1>4

(* What happens once is written once, for every set of rules, programs and  *)
(* ticks: a program closed is announced once on each day it is closed, a    *)
(* threshold once on the way down, a session ended before the next begins.  *)
THEOREM WhatHappensOnceIsWrittenOnce == ProgramsSpec => []WrittenOnce
<1>1. ProgramsIInv => WrittenOnce
  BY DEF ProgramsIInv, AnnouncementsAgree, CountdownAgrees, SessionAgrees, WrittenOnce
<1> QED BY <1>1, ProgramsInvInit, ProgramsInvStep, PTL DEF ProgramsSpec

(* Whatever ids are given again between the reads, and whatever is forged,  *)
(* a word never closes a process that was not the child's, or not listed.   *)
THEOREM WordsAlwaysReachOnlyTheChilds == ProgramsSpec => []WordsReachOnlyTheChilds
<1>1. ProgramsIInv => WordsReachOnlyTheChilds
  BY DEF ProgramsIInv, KillsAreOfTheTick
<1> QED BY <1>1, ProgramsInvInit, ProgramsInvStep, PTL DEF ProgramsSpec

=============================================================================
