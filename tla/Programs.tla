------------------------------ MODULE Programs ------------------------------
(***************************************************************************)
(* What the rules enforcer does about single programs: it reads the        *)
(* process list, who owns what, and what the helper says was in front;     *)
(* charges the limits and pools; closes what is blocked or over; and says  *)
(* so once a day.  Between its reads the child starts and leaves programs, *)
(* and an id that is free is given to another.                             *)
(*                                                                         *)
(* A unit of time is one CHECK_INTERVAL.  The clock is honest here and     *)
(* nothing is restarted: DayTally is about both.                           *)
(***************************************************************************)
EXTENDS Naturals, FiniteSets, Options, Foreground, Countdown

CONSTANTS
    Pids,          \* process ids
    Names,         \* names as the OS spells them
    Key,           \* norm: what a name is matched by
    Spared,        \* keys no word may match: Windows' own, Nestwatch's, the checks'
    Visits,        \* pages that may be in front, numbered
    Browser,       \* the key of the browser each is in
    MaxApps, MaxPages,
    Plays,         \* bound: what one behaviour draws on: rules, programs, reports, grants
    DayLength,     \* bound: units of a day the ticks charge
    LastDay        \* bound: days that pass

ASSUME KeysAssumption == Key \in [Names -> STRING] /\ Browser \in [Visits -> STRING] /\ Visits \subseteq Nat
ASSUME PlaysAssumption ==
    \A it \in Plays : it.extras \subseteq Nat /\ \A r \in it.rules : r.budget \in Nat
ASSUME CapsAssumption == {MaxApps, MaxPages, DayLength, LastDay} \subseteq Nat

Keys == {Key[n] : n \in Names}
Groups == UNION UNION {{r.groups : r \in it.rules} : it \in Plays}
GroupNames == {g.name : g \in Groups}
Owners == {"child", "other"}
MaxCharge == 2                                    \* chargeable: two intervals
Minutes(n) == 2 * n                               \* two intervals to the minute

VARIABLES
    table,         \* the OS's: the process each id is
    date, since,   \* the date, and time since the last tick began
    play,          \* bound: the one of Plays this behaviour draws on
    policy, extra, \* Config: the rules in force, today's grant
    feed,          \* Feed: reported and not fetched
    usage,         \* RulesEnforcer::usage
    announced,     \* RulesEnforcer::announced
    countdown,     \* RulesEnforcer::countdown
    prevActive,    \* run_rules_enforcer's
    step, tick,    \* where the tick is, and what it has read
    kills,         \* what it has still to close
    opened,        \* history: session_start less session_stop in the log
    told, closed,  \* history: how often each program was announced on the tally's day; what was closed
    said, repeated,  \* history: thresholds announced since the time left was above them; one said again
    watched        \* history: time charged on the tally's day, in use or not

worldVars == <<table, date, play, policy, extra>>
tickVars == <<step, tick, kills, since>>
pastVars == <<opened, told, closed, said, repeated, watched>>
programVars == <<worldVars, feed, usage, announced, countdown, prevActive, tickVars, pastVars>>

Process == [name : Names, owner : Owners]
Listed == [Pids -> Option(Names)]
Tally == [day : Option(0 .. LastDay), total : Nat, perApp : [Keys -> Nat],
          perGroup : [GroupNames -> Nat], perWeb : [GroupNames -> Nat], unmeasured : BOOLEAN]
NothingRead == [elapsed |-> 0, day |-> 0, rules |-> {}, extra |-> 0, reported |-> {},
                active |-> TRUE, procs |-> [p \in Pids |-> {}], owned |-> {}]

Fresh(day) ==
    [day |-> day, total |-> 0, perApp |-> [k \in Keys |-> 0], perGroup |-> [g \in GroupNames |-> 0],
     perWeb |-> [g \in GroupNames |-> 0], focus |-> NoSecs, unmeasured |-> FALSE]

\* read_on: on another day, nothing.
ReadOn(u, day) == IF u.day = {day} THEN u ELSE Fresh({day})

ProgramsTypeOK ==
    /\ table \in [Pids -> Option(Process)] /\ date \in 0 .. LastDay
    /\ since \in 0 .. MaxCharge + 1 /\ play \in Plays /\ policy \in play.rules /\ extra \in play.extras \union {0}
    /\ [f \in DOMAIN usage \ {"focus"} |-> usage[f]] \in Tally
    /\ usage.focus \in [DOMAIN usage.focus -> Nat \ {0}] /\ Cardinality(DOMAIN usage.focus) <= MaxApps
    /\ announced \subseteq Keys /\ countdown \subseteq Nat /\ Cardinality(countdown) <= 1 /\ prevActive \in Option(BOOLEAN)
    /\ step \in {"idle", "session", "list", "owners", "decide", "act"}
    /\ tick.procs \in Listed /\ tick.owned \in Option(Listed)
    /\ kills \subseteq [pid : Pids, key : Keys, byWord : BOOLEAN]
    /\ told \in [Keys -> Nat] /\ closed \subseteq Keys /\ said \subseteq WarnAt

ProgramsInit ==
    /\ table = [p \in Pids |-> {}] /\ date = 0 /\ since = 0
    /\ play \in Plays /\ policy \in play.rules /\ extra = 0
    /\ feed = {} /\ usage = Fresh({}) /\ announced = {} /\ countdown = Unprimed /\ prevActive = {}
    /\ step = "idle" /\ tick = NothingRead /\ kills = {}
    /\ opened = 0 /\ told = [k \in Keys |-> 0] /\ closed = {}
    /\ said = {} /\ repeated = FALSE /\ watched = 0

-----------------------------------------------------------------------------
(* The rules. *)

Budget(rules, granted) == IF rules.budget = 0 THEN 0 ELSE rules.budget + granted

HasTargets(rules) ==
    rules.budget > 0 \/ rules.blocked # {} \/ rules.groups # {} \/ \E k \in Keys : rules.limits[k] > 0

HasWords(rules) == \E g \in rules.groups : g.words # {} \/ g.pages # {}

TickMode(rules) ==
    IF ~ rules.enabled THEN "stand_down" ELSE IF HasTargets(rules) THEN "enforce" ELSE "measure"

\* What a list calls the processes in it.
KeysOf(listed) == {Key[n] : n \in UNION {listed[p] : p \in Pids}}

\* match_groups: the child's programs a group's words reach, and the pages.
MatchedPrograms(g, owned) ==
    {p \in Pids : \E mine \in owned : \E n \in mine[p] : Key[n] \in g.words \ Spared}
MatchedPages(g, web) == {v \in DOMAIN web : v \in g.pages}
MatchedBrowsers(g, web) == {Browser[v] : v \in MatchedPages(g, web)}
PageSecs(g, web) == SumFunction(Restrict(web, MatchedPages(g, web)))

\* Wrong on purpose: a page is charged whether or not anyone is there.
WebChargedAlways(g, web, delta) == PageSecs(g, web)

\* A page no longer than the tick is charged for.
WebCharged(g, web, delta) == IF PageSecs(g, web) > delta THEN delta ELSE PageSecs(g, web)

\* accrue: the day turned if it has, a group for its programs, or else for its pages.
Accrue(u, t, delta, web) ==
    LET v == ReadOn(u, t.day)
        runs(g) == KeysOf(t.procs) \intersect g.members # {} \/ MatchedPrograms(g, t.owned) # {}
        pages == [g \in t.rules.groups |-> IF runs(g) THEN 0 ELSE WebCharged(g, web, delta)]
        charged == [g \in t.rules.groups |-> IF runs(g) THEN delta ELSE pages[g]]
        plus(old, charge) == [n \in GroupNames |-> old[n] +
            SumFunction(Restrict(charge, {g \in t.rules.groups : g.name = n}))]
    IN  [day |-> v.day, total |-> v.total + delta, unmeasured |-> FALSE, focus |-> v.focus,
         perApp |-> [k \in Keys |-> v.perApp[k] +
             IF k \in KeysOf(t.procs) /\ t.rules.limits[k] > 0 THEN delta ELSE 0],
         perGroup |-> plus(v.perGroup, charged), perWeb |-> plus(v.perWeb, pages)]

-----------------------------------------------------------------------------
(* The tick. *)

\* Wrong on purpose: read after the tally has turned, so never another day's.
RetiredAfterAccrual(u, day) == announced

\* The announcements a new day retires with its tally.
Retired(u, day) == IF u.day = {day} THEN announced ELSE {}

\* The histories that begin again with the tally's day.
DayTurns(day) ==
    IF usage.day = {day} THEN [told |-> told, closed |-> closed, watched |-> watched]
    ELSE [told |-> [k \in Keys |-> 0], closed |-> {}, watched |-> 0]

Remembers(h) == told' = h.told /\ closed' = h.closed /\ watched' = h.watched

\* The session_stop a pause writes for an open session.
Stops(active) == IF active = {TRUE} THEN 1 ELSE 0

StandsDown ==
    /\ opened' = opened - Stops(prevActive) /\ prevActive' = {}
    /\ announced' = Retired(usage, date)
    /\ usage' = IF usage.day = {date} THEN usage ELSE [Fresh({date}) EXCEPT !.unmeasured = TRUE]
    /\ Remembers(DayTurns(date))
    /\ step' = "idle" /\ tick' = NothingRead

\* The date, the rules and the helper's report, read together before anything is waited for.
Begins ==
    LET elapsed == IF since > MaxCharge THEN MaxCharge ELSE since
    IN  /\ step = "idle" /\ since > 0
        /\ DayTurns(date).watched + elapsed <= DayLength
        /\ since' = 0 /\ feed' = {}          \* Feed::drain, on every tick
        /\ \/ TickMode(policy) = "stand_down" /\ StandsDown
           \/ /\ TickMode(policy) # "stand_down" /\ step' = "session"
              /\ tick' = [NothingRead EXCEPT !.elapsed = elapsed, !.day = date, !.rules = policy,
                              !.extra = extra, !.reported = feed]
              /\ UNCHANGED <<usage, announced, prevActive, opened, told, closed, watched>>
        /\ UNCHANGED <<worldVars, countdown, kills, said, repeated>>

readingUnchanged == UNCHANGED <<worldVars, feed, usage, announced, countdown, prevActive, kills, since, pastVars>>

\* Whether the console session is in use; a failed query is taken for one in use.
SeesSession ==
    /\ step = "session"
    /\ \E active \in BOOLEAN : tick' = [tick EXCEPT !.active = active]
    /\ step' = IF TickMode(tick.rules) = "enforce" THEN "list" ELSE "decide"
    /\ readingUnchanged

ReadsList ==
    /\ step = "list"
    /\ tick' = [tick EXCEPT !.procs = [p \in Pids |-> {q.name : q \in table[p]}]]
    /\ step' = IF HasWords(tick.rules) THEN "owners" ELSE "decide"
    /\ readingUnchanged

\* No list, no tick: the report it fetched is gone with it.
ListFails == step = "list" /\ step' = "idle" /\ tick' = NothingRead /\ readingUnchanged

\* The child's processes; a failure leaves it unknown which they are.
ReadsOwners ==
    /\ step = "owners" /\ step' = "decide"
    /\ \E owned \in {{[p \in Pids |-> {q.name : q \in {r \in table[p] : r.owner = "child"}}]}, {}} :
           tick' = [tick EXCEPT !.owned = owned]
    /\ readingUnchanged

Spent(u) == {g \in tick.rules.groups : u.perGroup[g.name] >= Minutes(g.limit)}

ClosedByName(u, key) ==
    \/ key \in tick.rules.blocked
    \/ tick.rules.limits[key] > 0 /\ u.perApp[key] >= Minutes(tick.rules.limits[key])
    \/ \E g \in Spent(u) : key \in g.members

\* Wrong on purpose: the two snapshots are trusted to be of the same processes.
AnybodysProcess(p, key) == tick.owned # {}

\* The owner snapshot calls this id the child's, and by the name the list has for it.
ChildsProcess(p, key) == \E mine \in tick.owned : \E n \in mine[p] : Key[n] = key

ClosedByWord(u, web, p, key) ==
    /\ \E g \in Spent(u) : p \in MatchedPrograms(g, tick.owned) \/ key \in MatchedBrowsers(g, web)
    /\ ChildsProcess(p, key)

Orders(u, web) ==
    LET listed == UNION {{[pid |-> p, key |-> Key[n]] : n \in tick.procs[p]} : p \in Pids}
    IN  {[pid |-> o.pid, key |-> o.key, byWord |-> ~ ClosedByName(u, o.key)] :
            o \in {l \in listed : ClosedByName(u, l.key) \/ ClosedByWord(u, web, l.pid, l.key)}}

\* The countdown of a day with a budget, in use; the budget's own ending is BudgetEnforcer's.
CountsDown(u) ==
    LET budget == Minutes(Budget(tick.rules, tick.extra))
        left == (budget - u.total) \div 2
        says == Observed(countdown, left)
        kept == {t \in said : left <= t}
    IN  IF budget = 0 \/ (tick.active /\ u.total >= budget)
        THEN countdown' = Unprimed /\ UNCHANGED <<said, repeated>>
        ELSE IF tick.active
        THEN /\ countdown' = {left}
             /\ said' = kept \union says /\ repeated' = (repeated \/ says \intersect kept # {})
        ELSE UNCHANGED <<countdown, said, repeated>>

\* decide, record_foreground and the session's edges, with nothing waited for between them.
Decides ==
    LET delta == IF tick.active THEN tick.elapsed ELSE 0
        sample == IF tick.reported = {} THEN NoSample
                  ELSE Clamp(CHOOSE s \in tick.reported : TRUE, tick.elapsed, MaxPages)
        u == Accrue(usage, tick, delta, sample.web)
        orders == Orders(u, sample.web)
        keys == {o.key : o \in orders}
        old == Retired(usage, tick.day)
        past == DayTurns(tick.day)
    IN  /\ step = "decide"
        /\ usage' = [u EXCEPT !.focus = AccruedCapped(@, sample.apps, MaxApps)]
        /\ announced' = old \union keys /\ kills' = orders
        /\ Remembers([past EXCEPT !.told = [k \in Keys |-> @[k] + IF k \in keys \ old THEN 1 ELSE 0],
                                  !.closed = @ \union keys, !.watched = @ + tick.elapsed])
        /\ CountsDown(u)
        /\ opened' = IF prevActive = {tick.active} THEN opened
                     ELSE IF tick.active THEN opened + 1 ELSE opened - Cardinality(prevActive)
        /\ prevActive' = {tick.active}
        /\ step' = IF orders = {} THEN "idle" ELSE "act"
        /\ tick' = IF orders = {} THEN NothingRead ELSE tick
        /\ UNCHANGED <<worldVars, feed, since>>

\* kill_process: what has the id by now, or nothing.
Closes ==
    /\ step = "act"
    /\ \E o \in kills :
        /\ \E gone \in {table[o.pid], {}} : table' = [table EXCEPT ![o.pid] = @ \ gone]
        /\ kills' = kills \ {o}
        /\ step' = IF kills = {o} THEN "idle" ELSE "act"
        /\ tick' = IF kills = {o} THEN NothingRead ELSE tick
    /\ UNCHANGED <<date, play, policy, extra, feed, usage, announced, countdown, prevActive, since, pastVars>>

-----------------------------------------------------------------------------
(* What the tick does not wait for.  Each moves the world while the tick is yet to look at  *)
(* it: what changes when no step left of the tick reads it might as well change after.      *)

Idle == step = "idle"
Looking == step \in {"list", "owners", "act"}

serviceUnchanged == UNCHANGED <<usage, announced, countdown, prevActive, step, tick, kills,
                                opened, told, closed, said, repeated, watched>>

Starts(p, process) ==
    /\ Looking /\ table[p] = {} /\ process.name \in play.names /\ table' = [table EXCEPT ![p] = {process}]
    /\ UNCHANGED <<date, since, play, policy, extra, feed>> /\ serviceUnchanged

Exits(p) ==
    /\ Looking /\ table[p] # {} /\ table' = [table EXCEPT ![p] = {}]
    /\ UNCHANGED <<date, since, play, policy, extra, feed>> /\ serviceUnchanged

Reports(sample) ==
    /\ sample \in play.samples /\ feed' = Submitted(feed, sample, MaxApps, MaxPages)
    /\ Idle /\ feed = {}          \* bound: one report a tick
    /\ UNCHANGED <<worldVars, since>> /\ serviceUnchanged

ParentChanges(rules) ==
    /\ Idle /\ rules \in play.rules \ {policy} /\ policy' = rules
    /\ UNCHANGED <<table, date, since, play, extra, feed>> /\ serviceUnchanged

Grants(minutes) ==
    /\ Idle /\ minutes > extra /\ extra' = minutes
    /\ UNCHANGED <<table, date, since, play, policy, feed>> /\ serviceUnchanged

TimePasses ==
    /\ Idle /\ since <= MaxCharge /\ since' = since + 1     \* beyond, no more is charged
    /\ UNCHANGED <<worldVars, feed>> /\ serviceUnchanged

Midnight ==
    /\ date < LastDay /\ date' = date + 1 /\ extra' = 0
    /\ UNCHANGED <<table, since, play, policy, feed>> /\ serviceUnchanged

ProgramsNext ==
    \/ Begins \/ SeesSession \/ ReadsList \/ ListFails \/ ReadsOwners \/ Decides \/ Closes
    \/ \E p \in Pids, process \in Process : Starts(p, process)
    \/ \E p \in Pids : Exits(p)
    \/ \E sample \in play.samples : Reports(sample)
    \/ TimePasses \/ Midnight
    \/ \E rules \in play.rules : ParentChanges(rules)
    \/ \E minutes \in play.extras : Grants(minutes)

ProgramsSpec == ProgramsInit /\ [][ProgramsNext]_programVars

-----------------------------------------------------------------------------
(* Properties. *)

\* Only time that passed is counted.  A pool is never charged more than the machine was in
\* use, for programs and pages together, nor a program more than that: a page in front of a
\* locked screen is free.  However the helper forges its figures the day shows no more time
\* in front than passed.  (rules.rs accrue: "a program and a page in the same tick charge
\* once"; foreground.rs clamp: "understates rather than overstates".)
TimeIsNotInvented ==
    /\ \A k \in Keys : usage.perApp[k] <= usage.total
    /\ \A g \in GroupNames : usage.perWeb[g] <= usage.perGroup[g] /\ usage.perGroup[g] <= usage.total
    /\ SumFunction(usage.focus) <= watched

\* What happens once is written once.  The child is told of each program closed, once on
\* each day it is closed, however often it is started again, the rules paused, or midnight
\* passed with a tick under way; and of each countdown once before the time left has been
\* above it again.  Every session_start is followed by its session_stop before the next,
\* pauses included.  (rules.rs AppStopped: "once per app per day"; countdown.rs: "exactly once
\* per threshold, on the way down"; rules.rs stand-down: "six `session_start` and zero
\* `session_stop`".)
WrittenOnce ==
    /\ \A k \in Keys : told[k] = IF k \in closed THEN 1 ELSE 0
    /\ ~ repeated
    /\ opened = (IF prevActive = {TRUE} THEN 1 ELSE 0)

\* A word closes only an id that was the child's when owners were read, and the program
\* the list called it: not another user's browser because a page was forged, nor what an
\* id became between the two reads.  (rules.rs decide: "an ID can be reused between them,
\* and a forged visit names a browser".)
WordsReachOnlyTheChilds ==
    \A o \in kills : o.byWord =>
        /\ \E mine \in tick.owned : \E n \in mine[o.pid] : Key[n] = o.key
        /\ \E n \in tick.procs[o.pid] : Key[n] = o.key

-----------------------------------------------------------------------------
(* The inductive invariant behind WrittenOnce and WordsReachOnlyTheChilds,  *)
(* part by part.                                                            *)

\* What the budget's countdown and the session's edges are reckoned from.
FiguresTypeOK ==
    /\ play \in Plays /\ policy \in play.rules /\ extra \in Nat
    /\ usage.total \in Nat /\ since \in Nat
    /\ prevActive \in Option(BOOLEAN) /\ countdown \subseteq Int /\ said \subseteq WarnAt
    /\ step # "idle" =>
          /\ tick.elapsed \in Nat /\ tick.extra \in Nat /\ tick.rules.budget \in Nat
          /\ tick.active \in BOOLEAN

\* The announcements are those of what was closed on the tally's day, one for each.
AnnouncementsAgree ==
    /\ announced = closed
    /\ told = [k \in Keys |-> IF k \in closed THEN 1 ELSE 0]

\* A threshold said is not above the time that was left when a tick last looked.
CountdownAgrees ==
    /\ \A t \in said : \A c \in countdown : c <= t
    /\ repeated = FALSE

\* A session is open in the log exactly while the last tick found the machine in use.
SessionAgrees == opened = (IF prevActive = {TRUE} THEN 1 ELSE 0)

\* Nothing is left to close but by the tick that decided on it.
KillsAreOfTheTick ==
    /\ step # "act" => kills = {}
    /\ WordsReachOnlyTheChilds

ProgramsIInv ==
    FiguresTypeOK /\ AnnouncementsAgree /\ CountdownAgrees /\ SessionAgrees /\ KillsAreOfTheTick

=============================================================================
