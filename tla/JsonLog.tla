------------------------------ MODULE JsonLog ------------------------------
(***************************************************************************)
(* The append-only files of jsonl.rs, and the queues folded out of them:   *)
(* timereq.rs and timecode.rs keep no list, only lines saying what became  *)
(* of an id, of which the newest counts.                                   *)
(***************************************************************************)
EXTENDS Naturals, Sequences, Options

CONSTANT MaxLines     \* lines in MAX_BYTES: one more and the next append rotates

ASSUME LinesAssumption == MaxLines \in Nat \ {0}

EmptyLog == [live |-> <<>>, backup |-> <<>>]

Marker == [event |-> "rotated", id |-> {}]
Line(event, id) == [event |-> event, id |-> {id}]

\* The older generation is gone; a line says so, if there was one.
Rotated(log) ==
    [live |-> IF log.backup = <<>> THEN <<>> ELSE <<Marker>>, backup |-> log.live]

Recorded(log, line) ==
    LET kept == IF Len(log.live) > MaxLines THEN Rotated(log) ELSE log
    IN  [kept EXCEPT !.live = Append(@, line)]

\* A line that cannot be written is warned of and forgotten, and so may the line be that says what
\* was rotated away for it.
Unrecorded(log) ==
    {log} \union IF Len(log.live) > MaxLines
                 THEN {Rotated(log), [Rotated(log) EXCEPT !.live = <<>>]} ELSE {}

\* Oldest first, and of the live file only: recent does not look into the backup.
Recent(log) == log.live

Saying(log, event) == {i \in DOMAIN Recent(log) : Recent(log)[i].event = event}
About(log, id) == {i \in DOMAIN Recent(log) : Recent(log)[i].id = {id}}

\* Wrong on purpose: the first line about an id counts.
OldestAbout(log, id) == {i \in About(log, id) : \A j \in About(log, id) : i <= j}

NewestAbout(log, id) == {i \in About(log, id) : \A j \in About(log, id) : j <= i}

\* The ids whose newest line is the one that opened them.
Standing(log, opening) ==
    {id \in UNION {Recent(log)[i].id : i \in Saying(log, opening)} :
        \E i \in NewestAbout(log, id) : Recent(log)[i].event = opening}

\* TimeRequests::latest: the newest submission, and what became of it.
Latest(log, opening) ==
    UNION {{[id |-> id, event |-> Recent(log)[n].event] : n \in NewestAbout(log, id)} :
              id \in UNION {Recent(log)[i].id :
                               i \in {s \in Saying(log, opening) :
                                         \A later \in Saying(log, opening) : later <= s}}}

=============================================================================
