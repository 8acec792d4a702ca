----------------------------- MODULE Foreground -----------------------------
(***************************************************************************)
(* What the helper in the child's session reports: seconds in front, by    *)
(* name.  It runs as the child, so every figure may be forged; these are   *)
(* the bounds put on it between its pipe and the day's tally.  Names are   *)
(* numbers in the order of their spelling.                                 *)
(***************************************************************************)
EXTENDS Naturals, FiniteSets, Functions

NoSecs == [n \in {} |-> 0]

\* accrue: added up by name.
Accrued(map, more) ==
    [n \in DOMAIN map \union DOMAIN more |->
        (IF n \in DOMAIN map THEN map[n] ELSE 0) + (IF n \in DOMAIN more THEN more[n] ELSE 0)]

\* retain_top: the heaviest, and of equals the first by name.
RetainTop(map, most) ==
    LET ahead(n) == {o \in DOMAIN map : map[o] > map[n] \/ (map[o] = map[n] /\ o < n)}
    IN  Restrict(map, {n \in DOMAIN map : Cardinality(ahead(n)) < most})

AccruedCapped(map, more, most) == RetainTop(Accrued(map, more), most)

\* bound: scaled down to the time that has passed, and what rounds to nothing dropped.
Bounded(map, elapsed) ==
    LET claimed == SumFunction(map)
        scaled == IF claimed > elapsed THEN [n \in DOMAIN map |-> (map[n] * elapsed) \div claimed] ELSE map
    IN  Restrict(scaled, {n \in DOMAIN map : elapsed > 0 /\ scaled[n] > 0})

Clamp(sample, elapsed, most) ==
    [apps |-> Bounded(sample.apps, elapsed), web |-> RetainTop(Bounded(sample.web, elapsed), most)]

NoSample == [apps |-> NoSecs, web |-> NoSecs]

\* Feed::submit, onto what has not been fetched yet.
Submitted(feed, sample, mostApps, mostPages) ==
    LET pending == IF feed = {} THEN NoSample ELSE CHOOSE s \in feed : TRUE
    IN  {[apps |-> AccruedCapped(pending.apps, sample.apps, mostApps),
          web  |-> AccruedCapped(pending.web, sample.web, mostPages)]}

=============================================================================
