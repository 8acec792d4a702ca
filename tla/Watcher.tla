------------------------------ MODULE Watcher ------------------------------
(***************************************************************************)
(* How long each program was in front of the child: the helper that        *)
(* watches his desktop (watcher.rs, and Tracker of foreground.rs) and the  *)
(* thread of the service that keeps one running (session.rs).              *)
(*                                                                         *)
(* The helper looks when Windows tells it that the focus moved, which it   *)
(* may miss, and at the latest after POLL.  It runs as the child, who can  *)
(* end it.  What he could have it say is Foreground's and Programs': here  *)
(* it is honest, and the question is what becomes of the time.             *)
(***************************************************************************)
EXTENDS Foreground, Integers, Options

CONSTANTS
    Apps,          \* programs that may be in front
    Second,        \* units of time in one: a report is in whole seconds
    Poll,          \* POLL
    Emit,          \* EMIT
    IdleAfter,     \* IDLE_AFTER
    MinBackoff, MaxBackoff,
    HealthyRun,    \* HEALTHY_RUN
    Nap,           \* how long the machine sleeps, when it does
    LastWatched,   \* bound: the last instant looked at
    MaxPushes      \* bound: what the child and the machine do, in all

ASSUME WatchAssumption ==
    /\ {Second, Poll, Emit, IdleAfter, MinBackoff, MaxBackoff, HealthyRun, Nap} \subseteq Nat
    /\ Second > 0 /\ Emit > 0 /\ MinBackoff <= MaxBackoff

VARIABLES
    watchTime,
    front,         \* the program in front, if any window is
    lastInput,     \* when the child last touched keyboard or mouse
    session,       \* whether somebody is signed in
    helper,        \* the one watcher of this service, while it runs: its Tracker and its worker
    supervisor,    \* since when the watcher's pipe is read, or until when it sleeps
    reported,      \* what the feed was given so far, by program
    pushes         \* bound: how much was done so far

\* What happened, to compare with: units in front of somebody who was there; units
\* credited to what was not, and units not seen; units away since the last look, of
\* which the helper would credit none if it looked now; units that went with a helper;
\* how often, with how many naps; starts in a row that did not last, and when the last
\* of them ended; when a helper was last ended.
VARIABLE past

watchVars == <<watchTime, front, lastInput, session, helper, supervisor, reported, pushes, past>>

Nothing == [a \in Apps |-> 0]

Fresh == [current |-> {}, idle |-> FALSE, banked |-> NoSecs, started |-> watchTime, lastEmit |-> watchTime,
          lastLook |-> watchTime, looked |-> FALSE]

WatchInit ==
    /\ watchTime = 0
    /\ front = {} /\ lastInput = 0 /\ session = TRUE
    /\ helper = {}
    /\ supervisor = [pumping |-> FALSE, at |-> 0, backoff |-> MinBackoff]
    /\ reported = Nothing
    /\ pushes = 0
    /\ past = [real |-> Nothing, wrong |-> Nothing, unseen |-> Nothing, away |-> 0, gone |-> Nothing,
               kills |-> 0, naps |-> 0, short |-> 0, ended |-> 0, disturbed |-> 0]

At(f, a) == IF a \in DOMAIN f THEN f[a] ELSE 0

Least(x, y) == IF x < y THEN x ELSE y
Later(x, y) == IF x < y THEN y ELSE x

-----------------------------------------------------------------------------
(* Tracker.                                                                *)

\* bank: what is in front is credited with the time since it last was.
Credit(current, now) ==
    [a \in {c.app : c \in {k \in current : k.since < now}} |-> now - (CHOOSE c \in current : TRUE).since]

Banked(t, now) ==
    [t EXCEPT !.current = {[app |-> c.app, since |-> Later(c.since, now)] : c \in @},
              !.banked  = IF t.idle THEN @ ELSE Accrued(@, Credit(t.current, now))]

\* Wrong on purpose: away from when it is noticed, so the grace is credited again.
AwayFromNow(t, now) == [away |-> now - lastInput >= IdleAfter, since |-> now]

\* The end of the grace.  A helper knows of no instant before it was started, and takes
\* somebody last there before that to have been there then.
GraceEnds(t) == Later(lastInput, t.started) + IdleAfter

\* idle_state.
IdleState(t, now) == [away |-> now - lastInput >= IdleAfter, since |-> Least(now, GraceEnds(t))]

\* set_idle, then focus.
Observed(t, now) ==
    LET idle  == IdleState(t, now)
        aside == [Banked(t, idle.since) EXCEPT !.idle = idle.away]
    IN  [Banked(aside, now) EXCEPT !.current = {[app |-> a, since |-> now] : a \in front}]

\* drain: whole seconds, and the rest kept.
Whole(banked) == [a \in DOMAIN banked |-> banked[a] \div Second]

Carried(banked) ==
    Restrict([a \in DOMAIN banked |-> banked[a] % Second], {a \in DOMAIN banked : banked[a] % Second > 0})

-----------------------------------------------------------------------------
(* The helper's worker: woken by the hook or by its timeout, it looks, and *)
(* reports when it is time to.                                             *)

Looks ==
    /\ \E t \in helper :
        /\ ~t.looked
        /\ LET seen == Banked(Observed(t, watchTime), watchTime)
               kept == [seen EXCEPT !.lastLook = watchTime, !.looked = TRUE]
           IN  IF watchTime - t.lastEmit >= Emit
               THEN /\ helper' = {[kept EXCEPT !.banked = Carried(@), !.lastEmit = watchTime]}
                    /\ reported' = [a \in Apps |-> reported[a] + At(Whole(seen.banked), a)]
               ELSE helper' = {kept} /\ UNCHANGED reported
    /\ past' = [past EXCEPT !.away = 0]
    /\ UNCHANGED <<watchTime, front, lastInput, session, supervisor, pushes>>

-----------------------------------------------------------------------------
(* run_watcher_supervisor.                                                 *)

\* A run that lasted was healthy, whichever way it ended.
Healthy(uptime) == uptime >= HealthyRun

SleepsAfter(uptime) ==
    LET backoff == IF Healthy(uptime) THEN MinBackoff ELSE Least(2 * supervisor.backoff, MaxBackoff)
    IN  supervisor' = [pumping |-> FALSE, at |-> watchTime + backoff, backoff |-> backoff]

Ended(uptime) ==
    past' = [past EXCEPT !.short = IF uptime >= HealthyRun THEN 0 ELSE @ + 1, !.ended = watchTime]

\* pump_watcher: one is started, if anybody is signed in.
Spawns ==
    /\ ~supervisor.pumping /\ supervisor.at <= watchTime
    /\ session
    /\ helper' = {Fresh}
    /\ supervisor' = [supervisor EXCEPT !.pumping = TRUE, !.at = watchTime]
    /\ UNCHANGED <<watchTime, front, lastInput, session, reported, pushes, past>>

CannotSpawn ==
    /\ ~supervisor.pumping /\ supervisor.at <= watchTime
    /\ ~session
    /\ SleepsAfter(0)
    /\ Ended(0)
    /\ UNCHANGED <<watchTime, front, lastInput, session, helper, reported, pushes>>

\* Its pipe is at an end.
Reaps ==
    /\ supervisor.pumping /\ helper = {}
    /\ SleepsAfter(watchTime - supervisor.at)
    /\ Ended(watchTime - supervisor.at)
    /\ UNCHANGED <<watchTime, front, lastInput, session, helper, reported, pushes>>

-----------------------------------------------------------------------------
(* The child and his machine.                                              *)

Believed == UNION {{c.app : c \in t.current} : t \in {k \in helper : ~k.idle}}

\* Another window, or none; he touches something.
Touches ==
    /\ session /\ pushes < MaxPushes
    /\ front' \in Option(Apps)
    /\ lastInput' = watchTime
    /\ front' # front \/ lastInput < watchTime
    /\ pushes' = pushes + 1
    /\ past' = [past EXCEPT !.away = 0,
                            !.wrong = [a \in Apps |-> @[a] + IF a \in Believed THEN past.away ELSE 0]]
    /\ UNCHANGED <<watchTime, session, helper, supervisor, reported>>

\* What a helper that ends now has seen and not reported.
Unreported(a) == IF helper = {} THEN 0 ELSE At(Banked(CHOOSE t \in helper : TRUE, watchTime).banked, a)

HelperEnds ==
    past' = [past EXCEPT !.gone = [a \in Apps |-> @[a] + Unreported(a)],
                         !.kills = IF helper = {} THEN @ ELSE @ + 1,
                         !.away = 0, !.disturbed = watchTime]

\* He ends the helper.
Kills ==
    /\ helper # {} /\ pushes < MaxPushes
    /\ helper' = {}
    /\ pushes' = pushes + 1
    /\ HelperEnds
    /\ UNCHANGED <<watchTime, front, lastInput, session, supervisor, reported>>

\* He signs out, or in again.
SignsOutOrIn ==
    /\ pushes < MaxPushes
    /\ session' = ~session
    /\ front' = {} /\ helper' = {}
    /\ lastInput' = watchTime
    /\ pushes' = pushes + 1
    /\ HelperEnds
    /\ UNCHANGED <<watchTime, supervisor, reported>>

Present == watchTime - lastInput < IdleAfter
InFront == IF Present THEN front ELSE {}

\* What a unit that passes now is credited to, whenever the helper looks.
Credited == UNION {{c.app : c \in t.current} : t \in {k \in helper : ~k.idle /\ watchTime < GraceEnds(k)}}

One(a, set) == IF a \in set THEN 1 ELSE 0

\* A unit of time.  The worker has looked within POLL, and the supervisor does at once
\* what it is due.
UnitPasses ==
    /\ watchTime < LastWatched
    /\ \A t \in helper : watchTime < t.lastLook + Poll
    /\ supervisor.pumping => helper # {}
    /\ ~supervisor.pumping => watchTime < supervisor.at
    /\ watchTime' = watchTime + 1
    /\ helper' = {[t EXCEPT !.looked = FALSE] : t \in helper}
    /\ past' = [past EXCEPT !.real   = [a \in Apps |-> @[a] + One(a, InFront)],
                            !.wrong  = [a \in Apps |-> @[a] + One(a, (Believed \ front) \union (Credited \ InFront))],
                            !.unseen = [a \in Apps |-> @[a] + One(a, InFront \ Believed)],
                            !.away   = @ + IF \E t \in helper : watchTime >= GraceEnds(t) THEN 1 ELSE 0]
    /\ UNCHANGED <<front, lastInput, session, supervisor, reported, pushes>>

\* The machine sleeps with everything in place, and nobody is there.
Sleeps ==
    /\ Nap > 0 /\ pushes < MaxPushes /\ watchTime + Nap <= LastWatched
    /\ \A t \in helper : ~t.looked
    /\ watchTime' = watchTime + Nap
    /\ pushes' = pushes + 1
    /\ past' = [past EXCEPT !.wrong = [a \in Apps |-> @[a] + IF a \in Believed THEN Nap ELSE 0],
                            !.naps = @ + 1, !.disturbed = watchTime']
    /\ UNCHANGED <<front, lastInput, session, helper, supervisor, reported>>

WatchNext ==
    \/ Looks
    \/ Spawns \/ CannotSpawn \/ Reaps
    \/ Touches \/ Kills \/ SignsOutOrIn
    \/ UnitPasses \/ Sleeps

-----------------------------------------------------------------------------

WatchTypeOK ==
    /\ {watchTime, lastInput} \subseteq 0..LastWatched
    /\ front \in Option(Apps) /\ session \in BOOLEAN
    /\ supervisor.pumping \in BOOLEAN /\ supervisor.backoff \in MinBackoff..MaxBackoff
    /\ reported \in [Apps -> Nat]
    /\ \A t \in helper : DOMAIN t.banked \subseteq Apps /\ t.current \in Option([app : Apps, since : 0..LastWatched])
    /\ pushes \in 0..MaxPushes

\* A program is given the time it was in front of somebody there, to the unit and whatever
\* its seconds and the reports' were: no more, except for what the helper could not have
\* told - a window it had not looked at yet, somebody who was away and back between two
\* looks or last there before it was started, a sleep - and no less, except for what it did
\* not see, and one report, with the rest of a second before it, with every helper that
\* was ended.
FocusIsReal ==
    \A a \in Apps :
        LET counted == Second * reported[a] + Unreported(a)
        IN  /\ \A t \in helper : t.looked => counted <= past.real[a] + past.wrong[a]
            /\ counted + past.gone[a] >= past.real[a] - past.unseen[a]
            /\ past.gone[a] <= past.kills * (Emit + Poll + Second - 2) + past.naps * Nap

\* Whoever ends the helper is not rid of it: signed in and left alone for as long as the
\* longest wait, it runs.  One that does not last is started ever less often, down to that.
MeasuringResumes ==
    /\ session /\ watchTime - past.disturbed > MaxBackoff => helper # {}
    /\ ~supervisor.pumping /\ past.short > 0 =>
           supervisor.at - past.ended >= Least((past.short + 1) * MinBackoff, MaxBackoff)

(* watcher.rs, Tracker and run_watcher_supervisor: the time a program is      *)
(* credited with in front is the time it was there, whatever is carried from  *)
(* report to report; and whoever ends the helper is soon measured again.      *)
HelperMeasures == FocusIsReal /\ MeasuringResumes

-----------------------------------------------------------------------------
(* The inductive invariant behind HelperMeasures, part by part.            *)

Banks == UNION {[set -> Nat] : set \in SUBSET Apps}

Tracker ==
    [current : Option([app : Apps, since : Nat]), idle : BOOLEAN, banked : Banks, started : Nat,
     lastEmit : Nat, lastLook : Nat, looked : BOOLEAN]

Counts == [Apps -> Nat]

WatchTypes ==
    /\ watchTime \in Nat /\ lastInput \in Nat /\ lastInput <= watchTime
    /\ front \in Option(Apps) /\ session \in BOOLEAN
    /\ helper \in Option(Tracker)
    /\ supervisor \in [pumping : BOOLEAN, at : Nat, backoff : MinBackoff..MaxBackoff]
    /\ reported \in Counts
    /\ past \in [real : Counts, wrong : Counts, unseen : Counts, away : Nat, gone : Counts,
                 kills : Nat, naps : Nat, short : Nat, ended : Nat, disturbed : Nat]

\* What is in front has been since the last look, and the last report was not long before.
LooksAgree ==
    \A t \in helper :
        /\ \A c \in t.current : c.since = t.lastLook
        /\ t.started <= t.lastEmit /\ t.lastEmit <= t.lastLook /\ t.lastLook <= watchTime
        /\ t.lastLook < t.lastEmit + Emit
        /\ \A a \in Apps : At(t.banked, a) < Second + (t.lastLook - t.lastEmit)
        /\ t.looked => past.away = 0 /\ t.lastLook = watchTime

\* What is credited to a program so far, if the helper looked now.
Sure(a) ==
    IF helper = {} THEN 0
    ELSE LET t == CHOOSE k \in helper : TRUE IN At(Banked(t, Least(watchTime, GraceEnds(t))).banked, a)

CreditAgrees ==
    \A a \in Apps :
        /\ Second * reported[a] + Sure(a) <= past.real[a] + past.wrong[a]
        /\ Second * reported[a] + Unreported(a) <=
               past.real[a] + past.wrong[a] + IF a \in Believed THEN past.away ELSE 0
        /\ past.real[a] <= Second * reported[a] + Sure(a) + past.gone[a] + past.unseen[a]

\* How far the helper is behind its time, for a sleep.
Overdue ==
    IF \E t \in helper : watchTime > t.lastLook + Poll
    THEN watchTime - (CHOOSE t \in helper : TRUE).lastLook - Poll ELSE 0

LossesAgree ==
    \A a \in Apps :
        past.gone[a] + Overdue <= past.kills * (Emit + Poll + Second - 2) + past.naps * Nap

SupervisorAgrees ==
    /\ past.disturbed <= watchTime
    /\ supervisor.pumping /\ helper = {} => past.disturbed = watchTime
    /\ ~supervisor.pumping =>
          /\ helper = {}
          /\ watchTime <= supervisor.at \/ past.disturbed = watchTime
          /\ supervisor.at <= (IF session THEN past.disturbed ELSE watchTime) + MaxBackoff
          /\ past.short > 0 => supervisor.at = past.ended + supervisor.backoff
    /\ supervisor.backoff >= Least((past.short + 1) * MinBackoff, MaxBackoff)

WatchIInv == WatchTypes /\ LooksAgree /\ CreditAgrees /\ LossesAgree /\ SupervisorAgrees

WatchSpec == WatchInit /\ [][WatchNext]_watchVars

=============================================================================
