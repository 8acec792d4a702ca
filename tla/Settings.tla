------------------------------ MODULE Settings ------------------------------
(***************************************************************************)
(* The household's settings: the rules and the routines that may stand in  *)
(* for them by schedule, bedtime and its extension, the language; what the *)
(* handlers of api.rs make of them, the file they are exported to and      *)
(* restored from, and what parent and child are told of the time left.     *)
(*                                                                         *)
(* One day of it, in half minutes.  That a handler's change of the config  *)
(* is one step is what ConfigStore shows; a routine is applied in two, its *)
(* rules being read before.                                                *)
(***************************************************************************)
EXTENDS Integers, Sequences, FiniteSets, Options

CONSTANTS
    Names, BadName,  \* names of routines, and one that is none: blank, or too long
    Asked,           \* rules that may be asked for, some out of bounds
    Schedules,       \* sequences of windows, each [covers |-> instants, valid |-> whether its times parse]
    Bedtimes,        \* hours of the curfew, each [hours, valid]
    Languages, Tags, \* those there are strings for, and what may be asked for
    Gates,           \* allowances that a practice gate may leave, as Options
    Minute,          \* instants in one
    Grant,           \* minutes of one grant, or of an extension
    Lookahead,       \* LOOKAHEAD_MINS
    MaxLimit,        \* MAX_BUDGET_MINS
    MaxRoutines,     \* MAX_ROUTINES
    MaxWindows,      \* MAX_SCHEDULE_WINDOWS
    Horizon,         \* bound: instants of the day
    MaxMoves         \* bound: things the parent asks for

VARIABLES
    now,             \* clock::now
    used,            \* Usage::total_secs
    config,
    checking,        \* whether the gate's provider can be checked
    applying,        \* apply_routine: the rules it has read
    file,            \* an exported document, and the config it was exported from
    told,            \* the last answer to the parent that says what will happen
    paused,          \* history: whether the parent has last asked for a pause
    moves            \* bound: how many there were

houseVars == <<now, used, config, checking, applying, file, told, paused, moves>>

Instants == 0..Horizon
The(option) == CHOOSE x \in option : TRUE

Stopping == {"lock", "warn"}

RulesType == [enabled : BOOLEAN, limit : Nat, action : Stopping]
Routine == [name : Names, rules : RulesType, schedule : Schedules]
Curfew == [bedtime : Bedtimes, extended : SUBSET Nat]
PolicyType == [curfew : Curfew, rules : RulesType, routines : Seq(Routine), language : Languages]
Config == [curfew : Curfew, rules : RulesType, routines : Seq(Routine), language : Languages,
           extra : Nat, gate : Gates]
File == [policy : PolicyType, was : Config, edited : BOOLEAN]
Answer == [kind : {"saved"}, over : BOOLEAN]
          \union [kind : {"preview"}, rules : RulesType, over : BOOLEAN]
          \union [kind : {"extended"}, note : SUBSET Nat, used : Nat, decided : RulesType \X (Gates \union {{}})]

ASSUME AskedAssumption ==
    /\ Asked \subseteq RulesType /\ BadName \notin Names
    /\ \A schedule \in Schedules : schedule \in Seq([covers : SUBSET Nat, valid : BOOLEAN])
    /\ \A b \in Bedtimes : b.valid \in BOOLEAN
ASSUME GatesAssumption == \A gate \in Gates : gate \subseteq Nat /\ \A m, o \in gate : m = o
ASSUME SettingsBoundsAssumption ==
    /\ Minute \in Nat \ {0} /\ {Grant, Lookahead, MaxLimit, MaxRoutines, MaxWindows} \subseteq Nat
    /\ {Horizon, MaxMoves} \subseteq Nat

HouseTypeOK ==
    /\ now \in Instants /\ used \in 0..now /\ moves \in 0..MaxMoves
    /\ checking \in BOOLEAN /\ paused \in BOOLEAN
    /\ config \in Config /\ Len(config.routines) <= MaxRoutines
    /\ applying \subseteq RulesType /\ file \subseteq File /\ told \subseteq Answer

DefaultRules == [enabled |-> TRUE, limit |-> 0, action |-> "lock"]

HouseInit ==
    /\ now = 0 /\ used = 0 /\ moves = 0
    /\ \E hours \in {b \in Bedtimes : b.valid}, gate \in Gates, language \in Languages :
        config = [curfew |-> [bedtime |-> hours, extended |-> {}], rules |-> DefaultRules,
                  routines |-> <<>>, language |-> language, extra |-> 0, gate |-> gate]
    /\ checking = TRUE /\ paused = FALSE
    /\ applying = {} /\ file = {} /\ told = {}

-----------------------------------------------------------------------------
(* What may be stored.                                                     *)

ValidRules(rules) == rules.limit <= MaxLimit

ValidSchedule(schedule) == \A i \in DOMAIN schedule : schedule[i].valid

\* Policy::validate.  It does not look at the schedules.
ValidPolicy(policy) ==
    /\ policy.curfew.bedtime.valid
    /\ ValidRules(policy.rules)
    /\ Len(policy.routines) <= MaxRoutines
    /\ \A i \in DOMAIN policy.routines :
        policy.routines[i].name \in Names /\ ValidRules(policy.routines[i].rules)

-----------------------------------------------------------------------------
(* What is in force.                                                       *)

Stored(c) == {c.routines[i] : i \in DOMAIN c.routines}

Covers(routine, t) == \E i \in DOMAIN routine.schedule : t \in routine.schedule[i].covers

\* A pause first, then the first match.
ScheduledRoutineAt(c, t) ==
    LET matching == {i \in DOMAIN c.routines : Covers(c.routines[i], t)}
    IN  IF ~c.rules.enabled THEN {}
        ELSE {c.routines[i] : i \in {j \in matching : \A o \in matching : j <= o}}

RulesAt(c, t) ==
    LET scheduled == ScheduledRoutineAt(c, t)
    IN  IF scheduled = {} THEN c.rules ELSE The(scheduled).rules

\* live_gate_cap: a gate that cannot be checked is lifted.
GateCap(c) == IF checking THEN c.gate ELSE {}

\* effective_budget_mins: the cap is put on the base, the extra on top of both,
\* and a day without either has no limit.
Effective(rules, c) ==
    IF rules.limit = 0 /\ GateCap(c) = {} THEN 0
    ELSE c.extra + (CHOOSE m \in GateCap(c) \union ({rules.limit} \ {0}) :
                        \A o \in GateCap(c) \union ({rules.limit} \ {0}) : m <= o)

SpentToday(rules, c) ==
    LET budget == Effective(rules, c)
    IN  rules.enabled /\ budget > 0 /\ used >= budget * Minute

\* What a tick of run_rules_enforcer comes to.
Enforced(c) ==
    LET rules  == RulesAt(c, now)
        budget == Effective(rules, c)
    IN  IF ~rules.enabled THEN "stand down"
        ELSE IF budget = 0 THEN "unlimited"
        ELSE IF used < budget * Minute THEN "counting"
        ELSE rules.action

-----------------------------------------------------------------------------
(* What is said of it.                                                     *)

UsedMins == used \div Minute

RemainingMins(budget) ==
    IF budget = 0 THEN {} ELSE {IF UsedMins < budget THEN budget - UsedMins ELSE 0}

\* today_summary.
TodayCard(rules, active) ==
    [enabled |-> rules.enabled, remaining |-> RemainingMins(Effective(rules, config)), active |-> active]

UsageToday == TodayCard(RulesAt(config, now), {r.name : r \in ScheduledRoutineAt(config, now)})

\* child_status.
ChildStatus ==
    LET rules  == RulesAt(config, now)
        budget == Effective(rules, config)
    IN  [limited |-> rules.enabled /\ budget > 0,
         remaining |-> IF budget = 0 THEN 0 ELSE The(RemainingMins(budget))]

\* list_routines: which have the badge.
ActiveNow ==
    {r \in Stored(config) : r.name \in {s.name : s \in ScheduledRoutineAt(config, now)}}

\* budget_cuts_extension_short, as extension_shadowed_by_budget asks it.
CutsExtensionShort(minutes, c) ==
    LET rules == RulesAt(c, now)
        left  == RemainingMins(Effective(rules, c))
    IN  IF ~rules.enabled \/ rules.action = "warn" THEN {} ELSE {m \in left : m < minutes}

-----------------------------------------------------------------------------
(* The handlers.                                                           *)

\* try_update_config: the settings change, and what was told of the old ones is over.
Stores(c, answer) ==
    /\ moves < MaxMoves
    /\ moves' = moves + 1
    /\ config' = c
    /\ told' = answer

Rest == UNCHANGED <<now, used, checking>>

\* set_rules: as posted, the pause included.  What preview_rules said of them
\* at this instant comes true now.
SetsRules ==
    /\ \E rules \in Asked :
        /\ ValidRules(rules)
        /\ Stores([config EXCEPT !.rules = rules],
                  {[kind |-> "saved", over |-> t.over] :
                      t \in {u \in told : u.kind = "preview" /\ u.rules = rules}})
        /\ paused' = ~rules.enabled
    /\ Rest /\ UNCHANGED <<applying, file>>

\* Wrong on purpose: the candidate as if no routine were in force.
PreviewOf(candidate) == SpentToday(candidate, config)

\* The candidate in a copy of the config.
Preview(candidate) ==
    LET saved == [config EXCEPT !.rules = candidate]
    IN  SpentToday(RulesAt(saved, now), saved)

PreviewsRules ==
    /\ \E candidate \in Asked :
        /\ ValidRules(candidate)
        /\ Stores(config, {[kind |-> "preview", rules |-> candidate, over |-> Preview(candidate)]})
    /\ Rest /\ UNCHANGED <<applying, file, paused>>

SetsCurfew ==
    /\ \E hours \in Bedtimes :
        /\ hours.valid
        /\ Stores([config EXCEPT !.curfew.bedtime = hours], {})
    /\ Rest /\ UNCHANGED <<applying, file, paused>>

\* extend_curfew, from the later of now and what is running, and the note on the budget.
ExtendsCurfew ==
    LET base  == {t \in config.curfew.extended : t > now}
        until == (IF base = {} THEN now ELSE The(base)) + Grant * Minute
        c     == [config EXCEPT !.curfew.extended = {until}]
    IN  /\ Stores(c, {[kind |-> "extended", note |-> CutsExtensionShort(Grant, c),
                       used |-> used, decided |-> <<RulesAt(c, now), GateCap(c)>>]})
        /\ Rest /\ UNCHANGED <<applying, file, paused>>

\* undo_curfew_extension.
UndoesExtension ==
    /\ \E until \in config.curfew.extended :
        /\ until > now
        /\ Stores([config EXCEPT !.curfew.extended =
                      {IF until < now + Lookahead * Minute THEN until ELSE now + Lookahead * Minute}], {})
    /\ Rest /\ UNCHANGED <<applying, file, paused>>

\* What there are no strings for is refused, never served as English.
FromTag(tag) == Languages \intersect {tag}

SetsLanguage ==
    /\ \E tag \in Tags : \E language \in FromTag(tag) : Stores([config EXCEPT !.language = language], {})
    /\ Rest /\ UNCHANGED <<applying, file, paused>>

\* Wrong on purpose: the pause is stored with the routine it was saved from.
PresetAsPosted(rules) == rules

\* The pause is never a property of a routine.
Preset(rules) == [rules EXCEPT !.enabled = TRUE]

\* In the place of the one of its name, or last.
WithRoutine(routines, routine) ==
    LET named == {i \in DOMAIN routines : routines[i].name = routine.name}
    IN  IF named = {} THEN Append(routines, routine)
        ELSE [i \in DOMAIN routines |-> IF i \in named THEN routine ELSE routines[i]]

SavesRoutine ==
    /\ \E name \in Names \union {BadName}, rules \in Asked, schedule \in Schedules :
        /\ name # BadName /\ ValidRules(rules)
        /\ Len(schedule) <= MaxWindows /\ ValidSchedule(schedule)
        /\ name \in {r.name : r \in Stored(config)} \/ Len(config.routines) < MaxRoutines
        /\ Stores([config EXCEPT !.routines =
                      WithRoutine(@, [name |-> name, rules |-> Preset(rules), schedule |-> schedule])], {})
    /\ Rest /\ UNCHANGED <<applying, file, paused>>

\* apply_routine reads the rules, and waits for its turn to change the config.
BeginsApply ==
    /\ applying = {}
    /\ \E routine \in Stored(config) : applying' = {routine.rules}
    /\ Rest /\ UNCHANGED <<config, file, told, paused, moves>>

\* The routine's content, and the pause as it is by then.
Applied(rules) == [config EXCEPT !.rules = [rules EXCEPT !.enabled = config.rules.enabled]]

AppliesRoutine ==
    /\ \E rules \in applying : Stores(Applied(rules), {})
    /\ applying' = {}
    /\ Rest /\ UNCHANGED <<file, paused>>

\* The one of that name, there being no second.
Without(routines, i) == SubSeq(routines, 1, i - 1) \o SubSeq(routines, i + 1, Len(routines))

DeletesRoutine ==
    /\ \E i \in DOMAIN config.routines :
        Stores([config EXCEPT !.routines = Without(@, i)], {})
    /\ Rest /\ UNCHANGED <<applying, file, paused>>

\* Tonight's extension is not a setting, nor is what is of this machine.
Policy(c) == [curfew |-> [c.curfew EXCEPT !.extended = {}], rules |-> c.rules,
              routines |-> c.routines, language |-> c.language]

\* get_policy.
Exports ==
    /\ file' = {[policy |-> Policy(config), was |-> config, edited |-> FALSE]}
    /\ file' # file
    /\ Stores(config, told)
    /\ Rest /\ UNCHANGED <<applying, paused>>

\* A file is copied about, and may come back other than it went.
Edits ==
    /\ \E f \in file :
        /\ ~f.edited
        /\ \E policy \in {[f.policy EXCEPT !.curfew.extended = {Horizon}],
                          [f.policy EXCEPT !.rules.enabled = ~@],
                          [f.policy EXCEPT !.rules.limit = MaxLimit + 1]} :
            file' = {[f EXCEPT !.policy = policy, !.edited = TRUE]}
    /\ Rest /\ UNCHANGED <<config, applying, told, paused, moves>>

\* Wrong on purpose: the document's extension with the rest of it.
PolicyWithExtension(c, policy) ==
    [c EXCEPT !.curfew = policy.curfew, !.rules = [policy.rules EXCEPT !.enabled = c.rules.enabled],
              !.routines = policy.routines, !.language = policy.language]

\* apply_policy: all but the extension and the pause.
ApplyPolicy(c, policy) ==
    [c EXCEPT !.curfew.bedtime = policy.curfew.bedtime,
              !.rules = [policy.rules EXCEPT !.enabled = c.rules.enabled],
              !.routines = policy.routines, !.language = policy.language]

\* set_policy.
Restores ==
    /\ \E f \in file : ValidPolicy(f.policy) /\ Stores(ApplyPolicy(config, f.policy), {})
    /\ Rest /\ UNCHANGED <<applying, file, paused>>

\* Minutes granted, by whichever way; Grants has the ways.
Gives ==
    /\ Stores([config EXCEPT !.extra = @ + Grant], {})
    /\ Rest /\ UNCHANGED <<applying, file, paused>>

\* The provider's probe fails, or answers again.
CheckingChanges ==
    /\ config.gate # {}
    /\ checking' = ~checking
    /\ Stores(config, {t \in told : t.kind = "extended"})
    /\ UNCHANGED <<now, used, applying, file, paused>>

\* Half a minute, in front of the screen or away from it; what a preview said
\* was of its own instant.
TimePasses ==
    /\ now < Horizon
    /\ now' = now + 1
    /\ used' \in {used, used + 1}
    /\ told' = {t \in told : t.kind = "extended"}
    /\ UNCHANGED <<config, checking, applying, file, paused, moves>>

HouseNext ==
    \/ SetsRules \/ PreviewsRules \/ SetsCurfew \/ ExtendsCurfew \/ UndoesExtension
    \/ SetsLanguage \/ SavesRoutine \/ BeginsApply \/ AppliesRoutine \/ DeletesRoutine
    \/ Exports \/ Edits \/ Restores \/ Gives \/ CheckingChanges \/ TimePasses

-----------------------------------------------------------------------------

\* At no instant of the day does a routine that was saved, applied or restored
\* stop the enforcement, or resume it behind a parent who paused it.
OnlyTheParentPauses == \A t \in Instants : RulesAt(config, t).enabled = ~paused

\* An exported file is good for a restore at any later moment, and brings back
\* the household as it was at every instant of the day; edited or not, never
\* tonight's extension, the pause, or what is of the machine.
RestoreIsFaithful ==
    \A f \in file :
        LET back == ApplyPolicy(config, f.policy)
            was  == [f.was EXCEPT !.rules.enabled = config.rules.enabled]
        IN  /\ back.curfew.extended = config.curfew.extended
            /\ <<back.rules.enabled, back.extra, back.gate>> = <<config.rules.enabled, config.extra, config.gate>>
            /\ ~f.edited =>
                  /\ ValidPolicy(f.policy)
                  /\ \A t \in Instants : RulesAt(back, t) = RulesAt(was, t)
                  /\ <<back.curfew.bedtime, back.language>> = <<was.curfew.bedtime, was.language>>

\* The card, the child's page and the badges speak of what the enforcer does.
CardsAgree ==
    LET card == UsageToday
        did  == Enforced(config)
    IN  /\ did \in Stopping <=> card.enabled /\ card.remaining = {0}
        /\ did \in Stopping <=> ChildStatus.limited /\ ChildStatus.remaining = 0
        /\ ChildStatus.limited => card.remaining = {ChildStatus.remaining}
        /\ Cardinality(ActiveNow) = Cardinality(card.active)
        /\ \A r \in ActiveNow : RulesAt(config, now) = r.rules

\* What a preview said is what the save did.
PreviewsComeTrue ==
    \A t \in told : t.kind = "saved" => (t.over <=> Enforced(config) \in Stopping)

\* A bedtime put off without a remark is not cut short by the limit, nor sooner
\* than remarked, while the rules and the gate in force stay as they were:
\* short of a minute, by which what is left is rounded up.
NotesHold ==
    \A t \in told :
        (t.kind = "extended" /\ t.decided = <<RulesAt(config, now), GateCap(config)>>) =>
            LET since == used - t.used
                stops == Enforced(config) = "lock"
            IN  /\ \A left \in t.note : since >= left * Minute => stops
                /\ stops => \E m \in (IF t.note = {} THEN {Grant} ELSE t.note) : since > (m - 1) * Minute

\* usage_today, child_status, list_routines, preview_rules and the note of extend_curfew
\* each compute what the enforcer does: they are right of it.
ToldWhatIsEnforced == CardsAgree /\ PreviewsComeTrue /\ NotesHold

HouseSpec == HouseInit /\ [][HouseNext]_houseVars

=============================================================================
