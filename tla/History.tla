------------------------------ MODULE History ------------------------------
(***************************************************************************)
(* The days as a parent and his child look back on them: the rows that     *)
(* rules.rs writes when a day ends, in screentime.jsonl and, among much    *)
(* else, in usage.jsonl, and what screentime.rs makes of them.  Each day's *)
(* row is written twice, builds before this one wrote only the second, and *)
(* a date may have several: a clock put back lives a day again, and one    *)
(* row can land without the other.                                         *)
(***************************************************************************)
EXTENDS JsonLog, Integers, FiniteSets

LOCAL INSTANCE SequencesExt
LOCAL INSTANCE FiniteSetsExt
LOCAL INSTANCE Functions

CONSTANTS
    Dates,         \* the calendar, as integers from 0 on
    Tallies,       \* what a day may have come to by its end, and the budget it had
    Legacy,        \* the rows an older build may have left, each with its date before FirstDate
    FirstDate,
    Minute,        \* seconds in one, in the units of a tally
    Days,          \* days asked for: of the report, and RECENT_DAYS of the child's page
    TopOverWindow, \* TOP_OVER_WINDOW
    TopFirstSeen,  \* TOP_FIRST_SEEN
    MaxBaseline,   \* MAX_BASELINE_APPS
    MaxRows,       \* bound: days ended
    MaxNoise       \* bound: crashes, and other events the usage log is given

Kinds == {"apps", "focused", "pages", "groups"}
NoNames == [n \in {} |-> 0]

VARIABLES
    today,         \* config::today
    usage,         \* usage.jsonl and its backup
    screentime,    \* screentime.jsonl and its backup
    written,       \* the row that is in usage.jsonl and not yet in screentime.jsonl
    rows,          \* history: the rows screentime.jsonl was given, as they came
    noise          \* bound: how many of either there were

vars == <<today, usage, screentime, written, rows, noise>>

Rollup(row) == Line("screentime_daily", row)

Init ==
    /\ today = FirstDate
    /\ \E old \in Option(Legacy) :
        usage = [EmptyLog EXCEPT !.live = IF old = {} THEN <<>> ELSE <<Rollup(CHOOSE r \in old : TRUE)>>]
    /\ screentime = EmptyLog
    /\ written = {}
    /\ rows = <<>>
    /\ noise = 0

-----------------------------------------------------------------------------
(* The row of a day.                                                       *)

\* per_app_minutes: whole minutes, and nothing that has none.
PerAppMinutes(secs) ==
    LET mins == [n \in DOMAIN secs |-> secs[n] \div Minute]
    IN  Restrict(mins, {n \in DOMAIN mins : mins[n] > 0})

RollupRow(prev) ==
    [date |-> today, minutes |-> {prev.secs \div Minute}, budget |-> prev.budget,
     maps |-> [k \in Kinds |-> PerAppMinutes(prev.maps[k])]]

\* No figures: only what the day refused, which is not looked at here.
PausedRow == [date |-> today, minutes |-> {}, budget |-> {}, maps |-> [k \in Kinds |-> NoNames]]

RolloverRow(prev) ==
    IF ~prev.unmeasured THEN {RollupRow(prev)} ELSE IF prev.refused THEN {PausedRow} ELSE {}

\* record_rollover, its first append.
DayEnds ==
    /\ written = {} /\ Len(rows) < MaxRows
    /\ \E prev \in Tallies :
        /\ written' = RolloverRow(prev)
        /\ written' # {}
        /\ \A row \in written' : usage' = Recorded(usage, Rollup(row))
    /\ UNCHANGED <<today, screentime, rows, noise>>

Kept(log, row) == Recorded(log, Rollup(row))

\* Its second, and the date the loop goes on with: by a clock that was put
\* back it may be one that was over.
DayBegins ==
    /\ \A row \in written : screentime' = Kept(screentime, row) /\ rows' = Append(rows, row)
    /\ written = {} => UNCHANGED <<screentime, rows>>
    /\ written' = {}
    /\ today' \in Dates \ {today}
    /\ written = {} => today' > today
    /\ UNCHANGED <<usage, noise>>

\* Between the two.  The day is ended again by whoever starts next.
Crash ==
    /\ written # {} /\ noise < MaxNoise
    /\ written' = {}
    /\ noise' = noise + 1
    /\ UNCHANGED <<today, usage, screentime, rows>>

\* Sessions, locks, warnings: a child can make as many as he likes.
OtherEvent ==
    /\ noise < MaxNoise
    /\ usage' = Recorded(usage, [event |-> "session_start", id |-> {}])
    /\ noise' = noise + 1
    /\ UNCHANGED <<today, screentime, written, rows>>

Next == DayEnds \/ DayBegins \/ Crash \/ OtherEvent

-----------------------------------------------------------------------------
(* What is read back.                                                      *)

Retained(log) == log.backup \o log.live

\* recent_matching_including_rotated: the rollups alone, newest first.
Rollups(log) ==
    LET lines == SelectSeq(Retained(log), LAMBDA line : line.event = "screentime_daily")
    IN  [i \in 1..Len(lines) |-> CHOOSE row \in lines[Len(lines) - i + 1].id : TRUE]

HistoryRows == Rollups(screentime) \o Rollups(usage)

\* Which of them count for a date: parse_row needs its minutes.
RowsOf(read, date) ==
    IF date >= today THEN {} ELSE {i \in DOMAIN read : read[i].date = date /\ read[i].minutes # {}}

\* ParsedRow::detail: what kinds a row knows of, then how much.
Detail(row) ==
    [knows |-> (IF row.maps["groups"] # NoNames THEN 2 ELSE 0)
               + (IF row.maps["focused"] # NoNames \/ row.maps["pages"] # NoNames THEN 1 ELSE 0),
     count |-> Cardinality(UNION {{k} \X DOMAIN row.maps[k] : k \in Kinds})]

Richer(row, other) ==
    LET a == Detail(row)
        b == Detail(other)
    IN  a.knows > b.knows \/ (a.knows = b.knows /\ a.count > b.count)

\* The richest of a date's rows, and of equals the one read first.
Picked(read, date) ==
    LET these == RowsOf(read, date)
    IN  {read[i] : i \in {j \in these : \A o \in these \ {j} :
            Richer(read[j], read[o]) \/ (~Richer(read[o], read[j]) /\ j < o)}}

ByDate(read) == [date \in {d \in Dates : RowsOf(read, d) # {}} |-> CHOOSE row \in Picked(read, date) : TRUE]

\* window_ending_yesterday.
WindowOf(days) == (today - days)..(today - 1)

MinutesOf(row) == CHOOSE m \in row.minutes : TRUE

\* window_total.
Total(byDate, window) ==
    LET these == DOMAIN byDate \intersect window
    IN  [mins |-> FoldSet(LAMBDA d, sum : sum + MinutesOf(byDate[d]), 0, these), count |-> Cardinality(these)]

\* sort_heaviest_first, cut off; names are numbers in the order of their spelling.
Heaviest(mins, most) ==
    LET ahead(n) == {o \in DOMAIN mins : mins[o] > mins[n] \/ (mins[o] = mins[n] /\ o < n)}
    IN  Restrict(mins, {n \in DOMAIN mins : Cardinality(ahead(n)) < most})

TotalsAcross(byDate, window, kind) ==
    LET these == DOMAIN byDate \intersect window
        names == UNION {DOMAIN byDate[d].maps[kind] : d \in these}
        of(n) == {d \in these : n \in DOMAIN byDate[d].maps[kind]}
    IN  Heaviest([n \in names |-> FoldSet(LAMBDA d, sum : sum + byDate[d].maps[kind][n], 0, of(n))], TopOverWindow)

\* Wrong on purpose: rows without focus count as days on which nothing had it.
EvidenceOfNothing(byDate) == DOMAIN byDate

\* The days that say anything of focus.
WithFocus(byDate) == {d \in DOMAIN byDate : byDate[d].maps["focused"] # NoNames}

FirstSeen(byDate) ==
    LET evidence == WithFocus(byDate)
        target   == Max(evidence)
        earlier  == evidence \ {target}
        baseline == UNION {DOMAIN byDate[d].maps["focused"] : d \in earlier}
        fresh    == Restrict(byDate[target].maps["focused"], DOMAIN byDate[target].maps["focused"] \ baseline)
    IN  IF evidence = {} \/ earlier = {} THEN {}
        ELSE IF Cardinality(baseline) > MaxBaseline
        THEN {[date |-> target, apps |-> NoNames, count |-> 0, overflow |-> TRUE]}
        ELSE {[date |-> target, apps |-> Heaviest(fresh, TopFirstSeen),
               count |-> Cardinality(DOMAIN fresh), overflow |-> FALSE]}

\* Division as Rust does it, towards zero.
Quotient(n, d) == IF n >= 0 THEN n \div d ELSE -((-n) \div d)

ChangePct(total, prev) ==
    IF prev.count = 0 THEN {}
    ELSE IF prev.mins = 0 THEN IF total = 0 THEN {0} ELSE {}
    ELSE {Quotient((total - prev.mins) * 100, prev.mins)}

DayRow(byDate, date) ==
    IF date \notin DOMAIN byDate THEN [minutes |-> {}, over |-> FALSE]
    ELSE [minutes |-> byDate[date].minutes,
          over |-> \E b \in byDate[date].budget : b > 0 /\ MinutesOf(byDate[date]) > b]

\* build_report.
Report(read, days) ==
    LET byDate == ByDate(read)
        window == WindowOf(days)
        total  == Total(byDate, window)
        prev   == Total(byDate, {d - days : d \in window})
    IN  [days |-> [d \in window |-> DayRow(byDate, d)],
         total |-> total.mins,
         average |-> IF total.count = 0 THEN {} ELSE {total.mins \div total.count},
         prev |-> IF prev.count = 0 THEN {} ELSE {prev.mins},
         change |-> ChangePct(total.mins, prev),
         totals |-> [k \in Kinds |-> TotalsAcross(byDate, window, k)],
         firstSeen |-> FirstSeen(byDate),
         from |-> IF byDate = <<>> THEN {} ELSE {Min(DOMAIN byDate)}]

\* Of several rows, the most minutes.
MostMinutes(read, these) == Max({MinutesOf(read[i]) : i \in these})

\* recent_totals.
RecentTotals(read, days) ==
    [d \in WindowOf(days) |->
        LET these == RowsOf(read, d)
        IN  IF these = {} THEN {} ELSE {MostMinutes(read, these)}]

-----------------------------------------------------------------------------

TypeOK ==
    /\ today \in Dates
    /\ Len(rows) <= MaxRows /\ noise \in 0..MaxNoise
    /\ \A row \in written : row.date \in Dates

\* A day that was measured is reported as such for as long as the file of
\* the rows themselves keeps it, whatever else went on: as many rows as fit
\* in one generation are never lost to the child's own noise.
RowsAreReported ==
    LET read == HistoryRows
    IN  \A i \in DOMAIN rows :
            (i >= Len(rows) - MaxLines /\ rows[i].date < today /\ rows[i].minutes # {}) =>
                rows[i].date \in DOMAIN ByDate(read)

\* The parent's page and the child's tell of the same days, the child's never
\* of less, and of the same minutes where one row is all there is; and a
\* report over twice the days is the report over the half and what it says
\* came before.
PagesAgree ==
    LET read   == HistoryRows
        report == Report(read, Days)
        child  == RecentTotals(read, Days)
        twice  == Total(ByDate(read), WindowOf(2 * Days))
    IN  /\ \A d \in WindowOf(Days) :
            /\ (report.days[d].minutes = {}) <=> (child[d] = {})
            /\ \A mine \in report.days[d].minutes, his \in child[d] :
                mine <= his /\ (Cardinality({read[i].minutes : i \in RowsOf(read, d)}) = 1 => mine = his)
        /\ twice.mins = report.total + (IF report.prev = {} THEN 0 ELSE CHOOSE p \in report.prev : TRUE)

\* What the parent is told is new was in front on no earlier day of which focus is known,
\* and there is such a day to compare with: a day without figures is not one on which
\* nothing ran.  Of a date's several rows only one is looked at, and what the others name
\* is forgotten.
FirstSeenIsNew ==
    LET read == HistoryRows
        known(d) == {read[i].maps["focused"] : i \in RowsOf(read, d)}
    IN  \A seen \in FirstSeen(ByDate(read)) :
            seen.apps # NoNames =>
                /\ \E d \in Dates : d < seen.date /\ \E f \in known(d) : f # NoNames
                /\ \A d \in Dates : d < seen.date /\ Cardinality(known(d)) = 1 =>
                        \A f \in known(d) : DOMAIN f \intersect DOMAIN seen.apps = {}

Spec == Init /\ [][Next]_vars

=============================================================================
