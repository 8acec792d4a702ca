----------------------------- MODULE AuditTrail -----------------------------
(***************************************************************************)
(* What is kept of who did what: audit.rs over the two files it splits     *)
(* events into, the handlers that write and read them, and the child's own *)
(* count of how often his screen was looked at.                            *)
(*                                                                         *)
(* One file keeps what a parent did, the other what anybody on the network *)
(* may cause by knocking; each rotates by its own size, so what shares a   *)
(* file shares its life.  The captures a timer asks for are counted rather *)
(* than written one by one.                                                *)
(***************************************************************************)
EXTENDS JsonLog, Integers, FiniteSets

CONSTANTS
    ActionView,    \* AUDIT_VIEW
    AttemptView,   \* ATTEMPT_VIEW
    Window,        \* LIVE_AUDIT_WINDOW
    DayLength,     \* of a day, in the units of Window
    Ahead,         \* how far the child's day is ahead of UTC's
    LastAudited,   \* bound: the last instant looked at
    MaxEvents      \* bound: captures, other deeds and knocks in all

\* A file that is rotated holds a page of lines: two mebibytes of them, two hundred of them.
ASSUME AuditAssumption ==
    /\ {ActionView, Window} \subseteq Nat /\ ActionView <= MaxLines + 1
    /\ DayLength \in Nat \ {0} /\ Ahead \in Int /\ LastAudited \in Nat

VARIABLES
    auditTime,     \* Utc::now and Instant::now, which pass together
    actions,       \* audit.jsonl and its backup
    attempts,      \* auth_attempts.jsonl and its backup
    live,          \* LiveState: the frames since the last line, and when that was written
    deeds,         \* history: every line meant for actions, as it came
    frames,        \* history: the instants of the frames the timer was given
    turns          \* history: the instants at which audit.jsonl rotated

auditVars == <<auditTime, actions, attempts, live, deeds, frames, turns>>

NoFrames == [frames |-> 0, lastEmit |-> {}]

AttemptEvents == {"auth_failure", "pair_failed"}
ViewEvents == {"screenshot_taken", "live_view"}

\* The date in the trusted zone.
DayOf(instant) == (instant + Ahead) \div DayLength

AuditInit ==
    /\ auditTime = 0
    /\ actions = EmptyLog
    /\ attempts = EmptyLog
    /\ live = NoFrames
    /\ deeds = <<>>
    /\ frames = <<>>
    /\ turns = <<>>

Happened == Len(deeds) + Len(frames) + Len(attempts.live) + Len(attempts.backup)

-----------------------------------------------------------------------------
(* AuditLog::record, log_for: the event alone decides the file.            *)

\* Wrong on purpose: one file for all.
KeepsOneFile(event) == FALSE

IsAttempt(event) == event \in AttemptEvents

Records(event) ==
    LET line == Line(event, [at |-> auditTime, no |-> Len(deeds) + 1])
    IN  IF IsAttempt(event)
        THEN attempts' = Recorded(attempts, line) /\ UNCHANGED <<actions, turns>>
        ELSE /\ actions' = Recorded(actions, line)
             /\ turns' = IF Len(actions.live) > MaxLines THEN Append(turns, auditTime) ELSE turns
             /\ UNCHANGED attempts

\* A login with the wrong password, or a link that does not pair.
Knocks ==
    /\ Happened < MaxEvents
    /\ \E event \in AttemptEvents : Records(event)
    /\ UNCHANGED <<auditTime, live, deeds, frames>>

\* Anything a parent does that is not looking: a kill, a lock, an export.
Acts ==
    /\ Happened < MaxEvents
    /\ Records("process_kill")
    /\ deeds' = Append(deeds, [event |-> "process_kill", at |-> auditTime])
    /\ UNCHANGED <<auditTime, live, frames>>

\* screenshot, without live.
Captures ==
    /\ Happened < MaxEvents
    /\ Records("screenshot_taken")
    /\ deeds' = Append(deeds, [event |-> "screenshot_taken", at |-> auditTime])
    /\ UNCHANGED <<auditTime, live, frames>>

Due(now) == \A last \in live.lastEmit : now - last >= Window

\* screenshot with live=1: LiveViewAudit::observe.
Glances ==
    /\ Happened < MaxEvents
    /\ frames' = Append(frames, auditTime)
    /\ IF Due(auditTime)
       THEN /\ live' = [frames |-> 0, lastEmit |-> {auditTime}]
            /\ Records("live_view")
            /\ deeds' = Append(deeds, [event |-> "live_view", at |-> auditTime])
       ELSE /\ live' = [live EXCEPT !.frames = @ + 1]
            /\ UNCHANGED <<actions, attempts, deeds, turns>>
    /\ UNCHANGED auditTime

\* The service is started again: the files stay, the count of frames does not.
ServiceRestarts ==
    /\ live # NoFrames
    /\ live' = NoFrames
    /\ UNCHANGED <<auditTime, actions, attempts, deeds, frames, turns>>

InstantPasses ==
    /\ auditTime < LastAudited
    /\ auditTime' = auditTime + 1
    /\ UNCHANGED <<actions, attempts, live, deeds, frames, turns>>

AuditNext == Knocks \/ Acts \/ Captures \/ Glances \/ ServiceRestarts \/ InstantPasses

-----------------------------------------------------------------------------
(* What is read back.                                                      *)

\* with_rotated: the backup holds the older lines.
Retained(log) == log.backup \o log.live

Newest(lines, limit) == SubSeq(lines, IF Len(lines) > limit THEN Len(lines) - limit + 1 ELSE 1, Len(lines))

\* recent: each file on a budget of its own.
Page ==
    [actions |-> Newest(Retained(actions), ActionView), attempts |-> Newest(Retained(attempts), AttemptView)]

ViewsIn(rows, day) ==
    Cardinality({i \in DOMAIN rows :
        rows[i].event \in ViewEvents /\ \A line \in rows[i].id : DayOf(line.at) = day})

\* views_on and count_views.
ViewsOn(day) == ViewsIn(Retained(actions), day)

-----------------------------------------------------------------------------

AuditTypeOK ==
    /\ auditTime \in 0..LastAudited
    /\ live.frames \in Nat /\ live.lastEmit \in Option(0..LastAudited)
    /\ \A i \in DOMAIN turns : turns[i] \in 0..LastAudited
    /\ \A i \in DOMAIN deeds : deeds[i].at \in 0..LastAudited
    /\ \A i \in DOMAIN frames : frames[i] \in 0..LastAudited

\* The parent's page shows what was done last, up to its budget, without a
\* gap, and however many strangers knocked: only the file's own rotation
\* marks take a row from it.
NewestDeedsAreShown ==
    LET rows  == Page.actions
        shown == UNION {{line.no : line \in rows[i].id} : i \in DOMAIN rows}
        marks == {i \in DOMAIN rows : rows[i] = Marker}
    IN  /\ shown = (Len(deeds) - Cardinality(shown) + 1)..Len(deeds)
        /\ Cardinality(shown) + Cardinality(marks) >= IF Len(deeds) < ActionView THEN Len(deeds) ELSE ActionView

\* What the child is told of today: every capture somebody asked for, and
\* never more looks than there were.  Somebody who watches live is told of
\* too, unless everything he was given today came within a window of a line
\* written yesterday.  A file that rotates twice in a day has lost the day.
LooksAreCounted ==
    LET today   == DayOf(auditTime)
        asked   == {i \in DOMAIN deeds : deeds[i].event = "screenshot_taken" /\ DayOf(deeds[i].at) = today}
        glances == {i \in DOMAIN frames : DayOf(frames[i]) = today}
        told    == ViewsOn(today)
    IN  Cardinality({i \in DOMAIN turns : DayOf(turns[i]) = today}) < 2 =>
            /\ told \in Cardinality(asked)..Cardinality(asked) + Cardinality(glances)
            /\ (\E i \in glances : DayOf(frames[i] - Window) = today) => told > Cardinality(asked)

(* audit.rs keeps a stranger's knocks in another file than the parent's       *)
(* deeds, so that none pushes a deed off the page; and tells the child how    *)
(* often his screen was looked at today, hiding no look and making up none.   *)
AuditIsTrue == NewestDeedsAreShown /\ LooksAreCounted

AuditSpec == AuditInit /\ [][AuditNext]_auditVars

=============================================================================
