---------------------------- MODULE MCSideBySide ----------------------------
(***************************************************************************)
(* Instances of parts that share no state, one run: the trusted clock (as  *)
(* MCTrustedClock has it), the audit trail, the days looked back on, the   *)
(* helper that watches the desktop, and the household's config.  What      *)
(* one of them does says nothing of another, so a behaviour is one of a    *)
(* single part, chosen when it begins, and the others rest.                *)
(***************************************************************************)
EXTENDS MCTrustedClock, AuditTrail, Settings, Watcher, TLC

VARIABLES
    part,
    today, usage, screentime, written, rows, noise

daysVars == <<today, usage, screentime, written, rows, noise>>

-----------------------------------------------------------------------------

Kinds == {"apps", "focused", "pages", "groups"}
None == [k \in Kinds |-> [n \in {} |-> 0]]
Focused(minutes) == [None EXCEPT !["focused"] = minutes]

\* A day with two programs in front, one with one of them, and one that was paused and
\* refused something.
Tallies ==
    {[secs |-> 4, maps |-> Focused(1 :> 2 @@ 2 :> 3), unmeasured |-> FALSE, refused |-> FALSE, budget |-> {1}],
     [secs |-> 3, maps |-> Focused(1 :> 2), unmeasured |-> FALSE, refused |-> FALSE, budget |-> {1}],
     [secs |-> 3, maps |-> None, unmeasured |-> TRUE, refused |-> TRUE, budget |-> {}]}

\* Builds before this one did not record focus.
Legacy == {[date |-> 0, minutes |-> {2}, budget |-> {}, maps |-> [None EXCEPT !["apps"] = (1 :> 2)]]}

Book == INSTANCE History WITH
    MaxLines <- 1, Dates <- 0..3, FirstDate <- 1, Minute <- 2, Days <- 1,
    TopOverWindow <- 1, TopFirstSeen <- 1, MaxBaseline <- 1, MaxRows <- 3, MaxNoise <- 1

\* Limits that are reached, one that is out of bounds; a schedule of the middle of the day, one
\* that does not parse and one too long; a gate or none.
LimitOf(enabled, limit, does) == [enabled |-> enabled, limit |-> limit, action |-> does]
Stretch(covers, valid) == [covers |-> covers, valid |-> valid]
Evening(name, valid) == [hours |-> name, valid |-> valid]

HouseAsked == {LimitOf(TRUE, 1, "lock"), LimitOf(FALSE, 2, "lock"), LimitOf(TRUE, 2, "warn"), LimitOf(TRUE, 9, "lock")}
HouseSchedules ==
    {<<>>, <<Stretch({1, 2}, TRUE)>>, <<Stretch({1}, FALSE)>>, <<Stretch({1}, TRUE), Stretch({2}, TRUE)>>}
HouseBedtimes == {Evening("early", TRUE), Evening("late", TRUE), Evening("never", FALSE)}
HouseGates == {{}, {1}}

-----------------------------------------------------------------------------

AnyInit ==
    /\ part \in {"clock", "audit", "days", "watch", "house"}
    /\ HistoryInit /\ AuditInit /\ Book!Init /\ WatchInit /\ HouseInit
    \* what rests is in one state of those it may begin in
    /\ part # "clock" => zone = "amsterdam" /\ season = "winter" /\ cfg.offset = {} /\ cfg.zone = {}
    /\ part # "days" => usage.live = <<>>
    /\ part # "house" => config.gate = {}
    \* as it is first installed
    /\ config.curfew.bedtime.hours = "early" /\ config.language = "en"

ClockMoves ==
    part = "clock" /\ Next /\ Remember /\ UNCHANGED <<part, auditVars, daysVars, watchVars, houseVars>>
AuditMoves ==
    part = "audit" /\ AuditNext /\ UNCHANGED <<part, historyVars, daysVars, watchVars, houseVars>>
DaysMove ==
    part = "days" /\ Book!Next /\ UNCHANGED <<part, historyVars, auditVars, watchVars, houseVars>>
WatchMoves ==
    part = "watch" /\ WatchNext /\ UNCHANGED <<part, historyVars, auditVars, daysVars, houseVars>>
HouseMoves ==
    part = "house" /\ HouseNext /\ UNCHANGED <<part, historyVars, auditVars, daysVars, watchVars>>

\* What has come to its bounds rests; the clock never does.
Rests == part # "clock" /\ UNCHANGED <<part, historyVars, auditVars, daysVars, watchVars, houseVars>>

AnyNext == ClockMoves \/ AuditMoves \/ DaysMove \/ WatchMoves \/ HouseMoves \/ Rests

AnySpec == AnyInit /\ [][AnyNext]_<<part, historyVars, auditVars, daysVars, watchVars, houseVars>>

-----------------------------------------------------------------------------

(* screentime.rs over the rows rules.rs writes: no noise the child makes      *)
(* pushes a day out of the report, the parent's page and the child's speak of *)
(* the same days, and what is said to be new was not there before, a day of   *)
(* which nothing is known not being taken for one without it.                 *)
DaysAreToldTruly ==
    part = "days" => Book!RowsAreReported /\ Book!PagesAgree /\ Book!FirstSeenIsNew

=============================================================================
