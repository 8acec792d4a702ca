--------------------------- MODULE CurfewWindows ---------------------------
(***************************************************************************)
(* When bedtime is: the curfew's windows by weekday, and tonight's         *)
(* extension, as the code reads them off; and the nights a parent means by *)
(* them.  Time is in half minutes, from the midnight a week begins with.   *)
(***************************************************************************)
EXTENDS Naturals, Options, Countdown

CONSTANTS
    DayLength,    \* of the clock's day
    WeekLength,   \* in days
    Curfews,      \* what a parent may set
    Extensions    \* minutes a parent may ask for

Minute == 2

\* LOOKAHEAD_MINS, the furthest-out threshold
Lookahead == CHOOSE t \in WarnAt : \A u \in WarnAt : u <= t

\* An hour is a set of one, and one that does not parse the empty set; a day of the week a number.
Hours == SUBSET (0 .. DayLength - 1)
Days == SUBSET (0 .. WeekLength - 1)
Curfew == [enabled : BOOLEAN, start : Hours, end : Hours,
           windows : SUBSET [start : Hours, end : Hours, days : Days]]

ASSUME ClockAssumption == DayLength \in Nat \ {0} /\ WeekLength \in Nat \ {0}
ASSUME CurfewsAssumption == Curfews \subseteq Curfew
ASSUME WarningsAssumption ==
    (\E t \in WarnAt : \A u \in WarnAt : u <= t) /\ Extensions \subseteq Nat

-----------------------------------------------------------------------------
(* The windows.                                                             *)

TimeOf(t) == t % DayLength
DayOf(t) == (t \div DayLength) % WeekLength
Yesterday(day) == (day + WeekLength - 1) % WeekLength

\* Days::includes
Includes(days, day) == days = {} \/ day \in days

IsWithin(time, start, end) ==
    \/ start < end /\ start <= time /\ time < end
    \/ start > end /\ (start <= time \/ time < end)

\* Wrong on purpose: a window belongs to the day it is looked at.
WindowActiveToday(w, time, day) ==
    \E start \in w.start, end \in w.end : IsWithin(time, start, end) /\ Includes(w.days, day)

\* A window belongs to the day it opens on.
WindowActive(w, time, day) ==
    \E start \in w.start, end \in w.end :
        \/ start < end /\ IsWithin(time, start, end) /\ Includes(w.days, day)
        \/ start > end /\ \/ start <= time /\ Includes(w.days, day)
                          \/ time < end /\ Includes(w.days, Yesterday(day))

AnyWindowActive(windows, time, day) == \E w \in windows : WindowActive(w, time, day)

IsActiveAt(c, until, t) ==
    /\ c.enabled
    /\ \A u \in until : u <= t
    /\ \/ c.windows # {} /\ AnyWindowActive(c.windows, TimeOf(t), DayOf(t))
       \/ c.windows = {} /\ \E s \in c.start, e \in c.end : IsWithin(TimeOf(t), s, e)

\* The first minute, of those asked about, at which it is active.
FirstActive(c, until, t, minutes) ==
    LET found == {m \in 1 .. minutes : IsActiveAt(c, until, t + m * Minute)}
    IN  {m \in found : \A n \in found : m <= n}

MinsUntilActive(c, until, t) ==
    IF IsActiveAt(c, until, t) THEN {} ELSE FirstActive(c, until, t, Lookahead)

CutsGrantShortIn(c, until, t, minutes) ==
    IF IsActiveAt(c, until, t) THEN {0} ELSE FirstActive(c, until, t, minutes)

-----------------------------------------------------------------------------
(* What a parent means by them: nights that open on the days named and last *)
(* from start to end.  The code has no such thing; it is what it is held to.*)

Duration(start, end) == IF start <= end THEN end - start ELSE DayLength - start + end

NightOf(w) ==
    {n \in 0 .. WeekLength * DayLength - 1 :
        \E day \in 0 .. WeekLength - 1, start \in w.start, end \in w.end :
            /\ Includes(w.days, day)
            /\ \E k \in 0 .. Duration(start, end) - 1 :
                  n = (day * DayLength + start + k) % (WeekLength * DayLength)}

Nights(c) ==
    IF ~c.enabled THEN {}
    ELSE IF c.windows = {} THEN NightOf([start |-> c.start, end |-> c.end, days |-> {}])
    ELSE UNION {NightOf(w) : w \in c.windows}

NightsOf == [c \in Curfews |-> Nights(c)]

IsNight(c, until, t) == t % (WeekLength * DayLength) \in NightsOf[c] /\ \A u \in until : u <= t

=============================================================================
