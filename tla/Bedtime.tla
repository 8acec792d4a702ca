------------------------------ MODULE Bedtime ------------------------------
(***************************************************************************)
(* Bedtime as the curfew loop comes to it, tick by tick: the windows, a    *)
(* curfew set, extended and taken back meanwhile, how far off bedtime is,  *)
(* what the child is told on the way, and when the machine is first        *)
(* ordered off.  What becomes of the order is Enforcement's.               *)
(*                                                                         *)
(* Time is the trusted clock's, in half minutes: a tick each.              *)
(***************************************************************************)
EXTENDS CurfewWindows

CONSTANTS
    Horizon,      \* bound: the last instant looked at
    MaxEdits,     \* bound: curfews set
    MaxExtends    \* bound: extensions asked for

ASSUME HorizonAssumption == {Horizon, MaxEdits, MaxExtends} \subseteq Nat

VARIABLES
    now,          \* the trusted clock
    curfew,       \* enabled, start and end, windows
    extraUntil,   \* Curfew::extra_until
    awake,        \* whether the service runs
    woken, looked,    \* whether the loop was woken; whether it has ticked at this instant
    pending,      \* whether Enforcer::deadline is set
    countdown,    \* Enforcer::countdown
    action,       \* what the last tick did
    edits, extends,   \* counters for the bounds
    promised,     \* history: the instant the parent was last told bedtime is put off to
    heard,        \* history: when the child was first told of each threshold, for the bedtime ahead
    owed          \* history: the thresholds the loop saw bedtime beyond, in peace

loopVars == <<awake, woken, looked, pending, countdown, action>>
bedtimePast == <<promised, heard, owed>>
bedtimeVars == <<now, curfew, extraUntil, loopVars, edits, extends, bedtimePast>>

Untold == [t \in WarnAt |-> {}]

BedtimeTypeOK ==
    /\ now \in 0 .. Horizon /\ curfew \in Curfews
    /\ extraUntil \subseteq Nat /\ \A u, v \in extraUntil : u = v
    /\ {awake, woken, looked, pending} \subseteq BOOLEAN
    /\ countdown \in Option(0 .. Lookahead + 1)
    /\ action \in {"None", "Shutdown", "Standing", "Abort"}
    /\ edits \in 0 .. MaxEdits /\ extends \in 0 .. MaxExtends
    /\ promised \subseteq Nat /\ owed \subseteq WarnAt
    /\ heard \in [WarnAt -> Option(0 .. Horizon)]

-----------------------------------------------------------------------------
\* Whether it is night within so many minutes from now.
Within(minutes, until) == \E k \in 0 .. minutes * Minute : IsNight(curfew, until, now + k)

-----------------------------------------------------------------------------
BedtimeInit ==
    /\ now = 0 /\ curfew \in Curfews /\ extraUntil = {}
    /\ awake = TRUE /\ woken = FALSE /\ looked = FALSE
    /\ pending = FALSE /\ countdown = Unprimed /\ action = "None"
    /\ edits = 0 /\ extends = 0
    /\ promised = {} /\ heard = Untold /\ owed = {}

Decided(active) ==
    IF active THEN (IF pending THEN "Standing" ELSE "Shutdown")
    ELSE (IF pending THEN "Abort" ELSE "None")

\* observe_upcoming: out of sight is one past the horizon.
Remaining(mins) == IF mins = {} THEN {Lookahead + 1} ELSE mins

\* run_enforcer's tick, with Enforcer::tick; a call that fails disarms.
Tick ==
    /\ awake /\ (woken \/ ~looked)
    /\ woken' = FALSE /\ looked' = TRUE
    /\ LET active == IsActiveAt(curfew, extraUntil, now)
           seen == IF ~curfew.enabled \/ active THEN {}
                   ELSE Remaining(MinsUntilActive(curfew, extraUntil, now))
           said == UNION {Observed(countdown, r) : r \in seen}
           near == {t \in WarnAt : Within(t, extraUntil)}
       IN
       /\ action' = Decided(active)
       /\ pending' \in IF action' = "Shutdown" THEN BOOLEAN ELSE {active}
       /\ countdown' = IF action' = "Abort" THEN Unprimed ELSE seen
       /\ heard' = [t \in WarnAt |->
                       IF active \/ t \notin near THEN {}
                       ELSE IF heard[t] = {} /\ action' = "None" /\ t \in said THEN {now}
                       ELSE heard[t]]
       /\ owed' = IF active \/ action' = "Abort" THEN {}
                  ELSE IF curfew.enabled THEN owed \union (WarnAt \ near)
                  ELSE owed
    /\ UNCHANGED <<now, curfew, extraUntil, awake, edits, extends, promised>>

-----------------------------------------------------------------------------
(* The parent.                                                             *)

Wakes == woken' = awake
Disturbs == heard' = Untold /\ owed' = {}

\* Wrong on purpose: the form's own extension, which is none, is saved with the rest.
SetsCurfewWhole ==
    /\ edits < MaxEdits /\ edits' = edits + 1
    /\ \E c \in Curfews \ {curfew} : curfew' = c
    /\ extraUntil' = {}
    /\ Wakes /\ Disturbs
    /\ UNCHANGED <<now, awake, looked, pending, countdown, action, extends, promised>>

\* set_curfew, and apply_policy alike: the extension is carried.
SetsCurfew ==
    /\ edits < MaxEdits /\ edits' = edits + 1
    /\ \E c \in Curfews \ {curfew} : curfew' = c
    /\ UNCHANGED extraUntil
    /\ Wakes /\ Disturbs
    /\ UNCHANGED <<now, awake, looked, pending, countdown, action, extends, promised>>

\* extend_curfew: from now, or from the extension that runs.
Extends ==
    /\ extends < MaxExtends /\ extends' = extends + 1
    /\ \E minutes \in Extensions :
          LET running == {u \in extraUntil : u > now}
              base == IF running = {} THEN {now} ELSE running
          IN  extraUntil' = {u + minutes * Minute : u \in base}
    /\ promised' = extraUntil'
    /\ Wakes
    /\ UNCHANGED <<now, curfew, awake, looked, pending, countdown, action, edits, heard, owed>>

\* Wrong on purpose: what was given is taken back at once.
ShortenedToNow(until) == now

\* undo_extension: no sooner than the countdown sees.
Shortened(until) ==
    IF until < now + Lookahead * Minute THEN until ELSE now + Lookahead * Minute

Undoes ==
    /\ \E until \in extraUntil : until > now /\ extraUntil' = {Shortened(until)}
    /\ promised' = extraUntil'
    /\ Wakes
    /\ UNCHANGED <<now, curfew, awake, looked, pending, countdown, action, edits, extends, heard, owed>>

-----------------------------------------------------------------------------
(* The world.                                                              *)

\* The loop ticks before half a minute is over.
Pass ==
    /\ now < Horizon /\ (awake => looked /\ ~woken)
    /\ now' = now + 1 /\ looked' = FALSE
    /\ UNCHANGED <<curfew, extraUntil, awake, woken, pending, countdown, action, edits, extends,
                   bedtimePast>>

\* The machine sleeps, and the ticks it missed are not made up for.
Sleeps ==
    /\ \E t \in now + 2 .. Horizon : t <= now + DayLength \div 2 /\ now' = t
    /\ looked' = FALSE /\ Disturbs
    /\ UNCHANGED <<curfew, extraUntil, awake, woken, pending, countdown, action, edits, extends,
                   promised>>

GoesOff ==
    /\ awake /\ awake' = FALSE
    /\ woken' = FALSE /\ looked' = FALSE
    /\ pending' = FALSE /\ countdown' = Unprimed /\ action' = "None"
    /\ Disturbs
    /\ UNCHANGED <<now, curfew, extraUntil, edits, extends, promised>>

Boots ==
    /\ ~awake /\ awake' = TRUE
    /\ Disturbs
    /\ UNCHANGED <<now, curfew, extraUntil, woken, looked, pending, countdown, action, edits,
                   extends, promised>>

BedtimeNext ==
    \/ Tick
    \/ SetsCurfew \/ Extends \/ Undoes
    \/ Pass \/ Sleeps \/ GoesOff \/ Boots

BedtimeSpec == BedtimeInit /\ [][BedtimeNext]_bedtimeVars

-----------------------------------------------------------------------------
(* The loop, the countdown and the note on a grant all go by the nights the *)
(* parent named, day by day and across midnight, and by tonight's extension:*)
(* active in them and only then, and what is said to be m minutes off is    *)
(* night then, with no night before it - of a minute at least, which only   *)
(* the tail an extension leaves falls short of.  (curfew.rs window_active,  *)
(* is_active_at, mins_until_active, cuts_grant_short_in.)                   *)
ReadersAgree ==
    /\ IsActiveAt(curfew, extraUntil, now) <=> IsNight(curfew, extraUntil, now)
    /\ \A most \in Extensions \union {Lookahead} :
          LET told == CutsGrantShortIn(curfew, extraUntil, now, most)
              nights == {k \in 0 .. most * Minute : IsNight(curfew, extraUntil, now + k)}
          IN  /\ \A m \in told : m * Minute \in nights
              /\ \A k \in nights : k + 1 \in nights => \E m \in told : m * Minute <= k + 1

(* Nobody is ordered off who was not warned: of each threshold the loop saw *)
(* bedtime beyond, the child has been told at least so long before it comes,*)
(* whatever was extended and taken back meanwhile - unless the parent set   *)
(* another curfew, the machine slept or was off, or the extension leaves    *)
(* less of the night than the minute the loop looks ahead by.  (curfew.rs   *)
(* undo_extension, Enforcer::tick; countdown.rs observe_upcoming.)          *)
BedtimeIsAnnounced ==
    [][ Tick /\ action' = "Shutdown" /\ IsNight(curfew, extraUntil, now + 1) =>
            \A t \in owed : \E told \in heard[t] : told + Minute * t <= now + 1 ]_bedtimeVars

(* An extension is kept: until the instant the parent was last told, nobody *)
(* is ordered off, whatever curfew is set or switched on meanwhile, and     *)
(* across midnight and restarts.  (api.rs set_curfew, extend_curfew.)       *)
ExtensionIsKept ==
    [][ Tick /\ action' = "Shutdown" => \A until \in promised : until <= now ]_bedtimeVars

=============================================================================
