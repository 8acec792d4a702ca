------------------------------ MODULE DayTally ------------------------------
(***************************************************************************)
(* The day's tally of the rules loop: how a day turns, on an active tick   *)
(* and on a paused one, what reaches usage_state.json, and what the row of *)
(* the day that ended reports.  A tick is several steps, and the machine   *)
(* may go off between any two of them.                                     *)
(*                                                                         *)
(* Time is in fractions of a day, so a whole tick takes none of it.  Use   *)
(* is counted in intervals charged, a refusal is one more day reset that   *)
(* accounting_day turned down; the other counters drain the same way.      *)
(***************************************************************************)
EXTENDS Integers, Options

CONSTANTS
    Dates,        \* the calendar, as integers
    DayLength,    \* units of time in a day
    Gap,          \* MIN_RESET_GAP in those units
    Horizon,      \* bound: the last instant looked at
    MaxCharge,    \* the most one tick charges: chargeable allows two intervals
    MaxMeasured,  \* bound: intervals charged altogether, on one date
    MaxRefusals,  \* bound: refusals counted altogether, on one date
    MaxOutages,   \* bound: times the machine goes off
    Skews,        \* by how many days the trusted clock itself may be out
    Scenarios     \* what may go wrong together

ASSUME DatesAssumption == Dates \subseteq Int /\ 0 \in Dates
ASSUME LengthAssumption == DayLength \in Nat \ {0} /\ Gap \in Nat
ASSUME BoundsAssumption == /\ Horizon \in Nat /\ MaxCharge \in Nat
                           /\ MaxMeasured \in Nat /\ MaxRefusals \in Nat
                           /\ MaxOutages \in Nat
ASSUME SkewsAssumption == Skews \subseteq Int /\ 0 \in Skews

VARIABLES
    faults,        \* what may go wrong: "list", running_processes; "save", write_atomic;
                   \* "crash", the machine going off in the middle of a tick
    time, skew,    \* real time, and by how many days clock::now reads it wrong
    mode,          \* Rules::tick_mode of the config in memory
    up, pc,        \* whether the service runs, and where its loop is
    today,         \* what accounting_day answered this tick
    usage,         \* RulesEnforcer::usage
    lastReset,     \* RulesEnforcer::last_reset
    lastSaved,     \* last_saved_tally
    ended,         \* PreRollover, between decide and record_rollover
    refusals,      \* the process-global counters of refusals.rs
    disk,          \* usage_state.json
    rowUse, rowRefused,  \* screentime.jsonl: what its rows report of each date
    measured, lodged,    \* history: what was charged to each date, and drained onto it
    outages,             \* history: how often the machine went off
    lastTurn             \* history: when usage.day last moved on, in this run of the service

envVars    == <<faults, time, skew, mode>>
tickVars   == <<up, pc, today>>
memoryVars == <<usage, lastReset, lastSaved, ended, refusals>>
storeVars  == <<disk, rowUse, rowRefused>>
pastVars   == <<measured, lodged, outages, lastTurn>>
vars == <<envVars, tickVars, memoryVars, storeVars, pastVars>>

Tallies == [day : Option(Dates), used : Nat, refused : Nat, unmeasured : BOOLEAN]

TypeOK ==
    /\ faults \in Scenarios
    /\ time \in 0 .. Horizon /\ skew \in Skews /\ mode \in {"StandDown", "Measure", "Enforce"}
    /\ up \in BOOLEAN /\ today \in Dates
    /\ pc \in {"idle", "paused", "savePaused", "list", "decide", "save", "record"}
    /\ usage \in Tallies /\ ended \in Tallies
    /\ lastSaved \subseteq Tallies /\ disk \subseteq Tallies
    /\ \A a, b \in lastSaved : a = b
    /\ \A a, b \in disk : a = b
    /\ lastReset \in Option(0 .. Horizon) /\ lastTurn \in Option(0 .. Horizon)
    /\ refusals \in Nat /\ outages \in 0 .. MaxOutages
    /\ rowUse \in [Dates -> Nat] /\ rowRefused \in [Dates -> Nat]
    /\ measured \in [Dates -> Nat] /\ lodged \in [Dates -> Nat]

-----------------------------------------------------------------------------
DefaultTally == [day |-> {}, used |-> 0, refused |-> 0, unmeasured |-> FALSE]

\* Usage::read_on
ReadOn(tally, date) ==
    IF tally.day = {date} THEN tally ELSE [DefaultTally EXCEPT !.day = {date}]

\* Usage::load_or_default: yesterday's tally is loaded as it is, date and all.
Loadable == IF disk = {} THEN {DefaultTally} ELSE disk

\* config::today
WallDate == time \div DayLength + skew

Init ==
    /\ faults \in Scenarios
    /\ time = 0 /\ skew = 0 /\ mode \in {"StandDown", "Measure", "Enforce"}
    /\ up = TRUE /\ pc = "idle" /\ today = 0
    /\ usage = DefaultTally /\ ended = DefaultTally
    /\ lastReset = {} /\ lastSaved = {} /\ refusals = 0 /\ disk = {}
    /\ rowUse = [d \in Dates |-> 0] /\ rowRefused = [d \in Dates |-> 0]
    /\ measured = [d \in Dates |-> 0] /\ lodged = [d \in Dates |-> 0]
    /\ outages = 0 /\ lastTurn = {}

-----------------------------------------------------------------------------
(* The top of a tick. *)

ResetBooked == lastReset' = {time}

\* Wrong on purpose: nothing remembers when the last day began.
AccountingDayFromClock ==
    /\ today' = WallDate
    /\ UNCHANGED <<lastReset, refusals>>

\* RulesEnforcer::accounting_day: the date the clock reads, unless a day began within the gap.
AccountingDay ==
    \/ /\ usage.day \in {{}, {WallDate}}
       /\ today' = WallDate
       /\ UNCHANGED <<lastReset, refusals>>
    \/ /\ usage.day \notin {{}, {WallDate}}
       /\ \A t \in lastReset : time - t >= Gap
       /\ today' = WallDate
       /\ ResetBooked
       /\ UNCHANGED refusals
    \/ /\ \E d \in usage.day \ {WallDate} : today' = d /\ lodged[d] + refusals < MaxRefusals
       /\ \E t \in lastReset : time - t < Gap
       /\ refusals' = refusals + 1
       /\ UNCHANGED lastReset

TickTop ==
    /\ up /\ pc = "idle"
    /\ WallDate \in Dates
    /\ AccountingDay
    /\ pc' = CASE mode = "StandDown" -> "paused" [] mode = "Measure" -> "decide" [] OTHER -> "list"
    /\ UNCHANGED <<envVars, up, usage, lastSaved, ended, storeVars, pastVars>>

\* running_processes failed: the tick ends here, with its reset booked and its day not turned.
Abandon ==
    /\ up /\ pc = "list" /\ "list" \in faults
    /\ pc' = "idle"
    /\ UNCHANGED <<envVars, up, today, memoryVars, storeVars, pastVars>>

-----------------------------------------------------------------------------
(* Measuring, and turning the day. *)

\* What a tally says of a date.
UseOf(tally, date) == IF tally.day = {date} THEN tally.used ELSE 0

RefusedOf(tally, date) == IF tally.day = {date} THEN tally.refused ELSE 0

\* Wrong on purpose: a date that was paused throughout gets no row at all.
RowRefusedMeasuredOnly(prev, date) ==
    IF date = today \/ prev.unmeasured THEN 0 ELSE RefusedOf(prev, date)

\* rollover_row: the row of the date that `prev` tallied, when this tick ended it.  A date that
\* was never measured gets a paused_row, which reports its refusals and no minutes.
RowUse(prev, date) == IF date = today \/ prev.unmeasured THEN 0 ELSE UseOf(prev, date)

RowRefused(prev, date) == IF date = today THEN 0 ELSE RefusedOf(prev, date)

\* record_rollover
RecordRollover(prev) ==
    /\ rowUse' = [d \in Dates |-> rowUse[d] + RowUse(prev, d)]
    /\ rowRefused' = [d \in Dates |-> rowRefused[d] + RowRefused(prev, d)]

\* refusals::drain, onto the day it is merged into.
Drain ==
    /\ refusals' = 0
    /\ lodged' = [lodged EXCEPT ![today] = @ + refusals]

TurnNoted == lastTurn' = IF usage.day \in {{}, {today}} THEN lastTurn ELSE {time}

\* stand_down and the row: what a paused tick does without waiting.
StandDown ==
    /\ up /\ pc = "paused"
    /\ LET turned == [ReadOn(usage, today) EXCEPT
                         !.unmeasured = IF usage.day = {today} THEN @ ELSE TRUE]
       IN  usage' = [turned EXCEPT !.refused = @ + refusals]
    /\ RecordRollover(usage)
    /\ Drain /\ TurnNoted
    /\ pc' = "savePaused"
    /\ UNCHANGED <<envVars, up, today, lastReset, lastSaved, ended, disk, measured, outages>>

\* decide_after_snapshot, whose accrue turns the day and charges it, and the drain after it.
Decide ==
    /\ up /\ pc \in {"list", "decide"}
    /\ ended' = usage
    /\ \E charge \in 0 .. MaxCharge :
          /\ measured[today] + charge <= MaxMeasured
          /\ usage' = [ReadOn(usage, today) EXCEPT
                         !.used = @ + charge, !.refused = @ + refusals, !.unmeasured = FALSE]
          /\ measured' = [measured EXCEPT ![today] = @ + charge]
    /\ Drain /\ TurnNoted
    /\ pc' = "save"
    /\ UNCHANGED <<envVars, up, today, lastReset, lastSaved, storeVars, outages>>

\* save_tally_if_changed
Save ==
    /\ up /\ pc \in {"save", "savePaused"}
    /\ pc' = IF pc = "save" THEN "record" ELSE "idle"
    /\ \/ lastSaved = {usage} /\ UNCHANGED <<disk, lastSaved>>
       \/ lastSaved # {usage} /\ disk' = {usage} /\ lastSaved' = {usage}
       \/ lastSaved # {usage} /\ "save" \in faults /\ UNCHANGED <<disk, lastSaved>>
    /\ UNCHANGED <<envVars, up, today, usage, lastReset, ended, refusals, rowUse, rowRefused, pastVars>>

\* record_rollover, the last thing an active tick does with its tally.
Record ==
    /\ up /\ pc = "record"
    /\ RecordRollover(ended)
    /\ ended' = DefaultTally
    /\ pc' = "idle"
    /\ UNCHANGED <<envVars, up, today, usage, lastReset, lastSaved, refusals, disk, pastVars>>

-----------------------------------------------------------------------------
(* The world. *)

Pass ==
    /\ pc = "idle" /\ time < Horizon
    /\ time' = time + 1
    /\ UNCHANGED <<faults, skew, mode, tickVars, memoryVars, storeVars, pastVars>>

ClockIsMoved ==
    /\ skew' \in Skews \ {skew}
    /\ UNCHANGED <<faults, time, mode, tickVars, memoryVars, storeVars, pastVars>>

\* The parent pauses, resumes, or adds or removes a rule that needs the process list.
ModeChanges ==
    /\ mode' \in {"StandDown", "Measure", "Enforce"} \ {mode}
    /\ UNCHANGED <<faults, time, skew, tickVars, memoryVars, storeVars, pastVars>>

\* The machine goes off: what the loop held in memory is gone, the counters included.
GoesOff ==
    /\ up /\ ("crash" \in faults \/ pc = "idle")
    /\ outages < MaxOutages /\ outages' = outages + 1
    /\ up' = FALSE /\ pc' = "idle"
    /\ usage' = DefaultTally /\ ended' = DefaultTally
    /\ lastReset' = {} /\ lastSaved' = {} /\ refusals' = 0 /\ lastTurn' = {}
    /\ UNCHANGED <<envVars, today, storeVars, measured, lodged>>

\* run_rules_enforcer starts, from the tally it finds.
Starts ==
    /\ ~up
    /\ up' = TRUE
    /\ usage' \in Loadable
    /\ UNCHANGED <<envVars, pc, today, lastReset, lastSaved, ended, refusals, storeVars, pastVars>>

Next ==
    \/ TickTop \/ Abandon \/ StandDown \/ Decide \/ Save \/ Record
    \/ Pass \/ ClockIsMoved \/ ModeChanges \/ GoesOff \/ Starts

Spec == Init /\ [][Next]_vars

-----------------------------------------------------------------------------
(* Where saves reach the disk and no tick is cut short, what was measured   *)
(* on a date, and what was refused on it, is in the date's row or in a      *)
(* tally still on its way to one, once and not twice: across paused days,   *)
(* refused resets, failed process lists, a clock set back to a date already *)
(* reported, and reboots between ticks.  (rules.rs snapshot, stand_down,    *)
(* decide_after_snapshot, rollover_row.)                                    *)
DayIsReported ==
    {"save", "crash"} \intersect faults = {} =>
        \A d \in Dates, tally \in IF up THEN {usage} ELSE Loadable :
            /\ measured[d] = rowUse[d] + UseOf(tally, d) + RowUse(ended, d)
            /\ lodged[d] = rowRefused[d] + RefusedOf(tally, d) + RowRefused(ended, d)

(* "so the twelve-hour guard and the tally agree about which day it is"     *)
(* (rules.rs, the test of a pause across midnight): where no process list   *)
(* fails, the reset the guard last honoured is, between ticks, the turn the *)
(* tally last made, whatever was cut short and whatever save failed.        *)
GuardAgreesWithTally == "list" \notin faults /\ up /\ pc = "idle" => lastReset = lastTurn

(* However often the clock is moved, one run of the service clears a day's  *)
(* tally at most once in the gap.  (rules.rs accounting_day.)               *)
TurnsAreApart ==
    [][lastTurn' # lastTurn => \A t \in lastTurn : lastTurn' = {} \/ time - t >= Gap]_vars

(* Where saves reach the disk, a power cut forfeits no more than one tick's *)
(* charge.  (rules.rs save_tally_if_changed, called on every tick that      *)
(* changes the tally.)                                                      *)
LosesAtMostATick ==
    "save" \notin faults /\ up =>
        usage.used <= MaxCharge \/ \E t \in disk : t.day = usage.day /\ usage.used <= t.used + MaxCharge

(* A save that failed is tried again: the comparison of bytes never skips a *)
(* tally that is not on the disk, after whatever failed or was cut short.   *)
(* (rules.rs save_tally_if_changed.)                                        *)
NoSaveSkipped == lastSaved = {usage} => disk = {usage}

=============================================================================
