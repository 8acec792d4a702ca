------------------------ MODULE GrantsAndAuditProofs ------------------------
(***************************************************************************)
(* Proofs about Grants, for any number of requests at once, any tokens and *)
(* limits, and files that rotate whenever they please: a request is        *)
(* decided once, a code spent once, the day's minutes are what was granted *)
(* for it, a key that comes again grants nothing, and the child is told    *)
(* what was decided; and of AuditTrail, for files of any size that hold a  *)
(* page: no stranger pushes a deed off it, and the child is told of every  *)
(* look at his screen.                                                     *)
(***************************************************************************)
EXTENDS Grants, AuditTrail, SequenceTheorems, FunctionTheorems, FiniteSetTheorems, TLAPS

-----------------------------------------------------------------------------
(* What the files say. *)

LEMMA KeptLines ==
    /\ Marker \in Lines /\ Marker.id = {} /\ <<>> \in Seq(Lines) /\ Len(<<>>) = 0
    /\ <<Marker>> \in Seq(Lines) /\ Len(<<Marker>>) = 1 /\ <<Marker>>[1] = Marker
  <1>1. Marker \in Lines /\ Marker.id = {}
    BY DEF Marker, Lines, Events, Option
  <1> QED
    BY <1>1

\* In a file a line is added to, the lines are the old ones, or those of a new file, and that line.
LEMMA RecordedLines ==
    ASSUME NEW log \in [live : Seq(Lines), backup : Seq(Lines)], NEW line \in Lines
    PROVE  /\ Recorded(log, line) \in [live : Seq(Lines), backup : Seq(Lines)]
           /\ \E kept \in {log.live, <<>>, <<Marker>>} : Recorded(log, line).live = Append(kept, line)
  <1>2. Rotated(log) \in [live : Seq(Lines), backup : Seq(Lines)]
    BY KeptLines DEF Rotated
  <1>3. Rotated(log).live \in {<<>>, <<Marker>>}
    BY DEF Rotated
  <1> DEFINE kept == IF Len(log.live) > MaxLines THEN Rotated(log) ELSE log
  <1>4. /\ kept \in [live : Seq(Lines), backup : Seq(Lines)]
        /\ kept.live \in {log.live, <<>>, <<Marker>>}
    BY <1>2, <1>3
  <1>5. Recorded(log, line) = [kept EXCEPT !.live = Append(@, line)]
    BY DEF Recorded
  <1> HIDE DEF kept
  <1>6. Append(kept.live, line) \in Seq(Lines)
    BY <1>4
  <1>7. Recorded(log, line).live = Append(kept.live, line)
    BY <1>4, <1>5
  <1> QED
    BY <1>4, <1>5, <1>6, <1>7

\* An id is in a file's lines.
Mentions(log, id) == \E i \in DOMAIN log.live : log.live[i].id = {id}

\* The lines of such a file, one by one.
LEMMA LinesAfter ==
    ASSUME NEW kept \in Seq(Lines), NEW line \in Lines
    PROVE  /\ DOMAIN Append(kept, line) = 1 .. Len(kept) + 1
           /\ Append(kept, line)[Len(kept) + 1] = line
           /\ \A i \in 1 .. Len(kept) : Append(kept, line)[i] = kept[i]
  OBVIOUS

\* A new file mentions nobody.
LEMMA NobodyIsKept ==
    ASSUME NEW kept \in {<<>>, <<Marker>>}, NEW i \in 1 .. Len(kept), NEW id
    PROVE  kept[i].id # {id}
  <1>1. CASE kept = <<>>
    BY <1>1, KeptLines
  <1>2. CASE kept = <<Marker>>
    <2>1. i = 1
      BY <1>2, KeptLines
    <2> QED
      BY <1>2, <2>1, KeptLines
  <1> QED
    BY <1>1, <1>2

\* Nothing is said of an id but by a line about it.
LEMMA RecordedMentions ==
    ASSUME NEW log \in [live : Seq(Lines), backup : Seq(Lines)], NEW line \in Lines, NEW id,
           Mentions(Recorded(log, line), id)
    PROVE  line.id = {id} \/ Mentions(log, id)
  <1>1. PICK kept \in {log.live, <<>>, <<Marker>>} : Recorded(log, line).live = Append(kept, line)
    BY RecordedLines
  <1>2. kept \in Seq(Lines)
    BY KeptLines
  <1>3. PICK i \in 1 .. Len(kept) + 1 : Append(kept, line)[i].id = {id}
    BY <1>1, <1>2, LinesAfter DEF Mentions
  <1>4. CASE i = Len(kept) + 1
    BY <1>2, <1>3, <1>4, LinesAfter
  <1>5. CASE i \in 1 .. Len(kept)
    <2>1. kept[i].id = {id}
      BY <1>2, <1>3, <1>5, LinesAfter
    <2>2. kept = log.live
      BY <1>5, <2>1, NobodyIsKept
    <2>3. i \in DOMAIN log.live
      BY <1>2, <1>5, <2>2
    <2> QED
      BY <2>1, <2>2, <2>3 DEF Mentions
  <1>6. Len(kept) \in Nat
    BY <1>2
  <1> QED
    BY <1>3, <1>4, <1>5, <1>6

\* The newest line about an id is the one just written, if it is about it, or the one it was.
LEMMA NewestAfter ==
    ASSUME NEW log \in [live : Seq(Lines), backup : Seq(Lines)], NEW line \in Lines,
           NEW id, NEW i \in NewestAbout(Recorded(log, line), id)
    PROVE  IF line.id = {id}
           THEN Recorded(log, line).live[i].event = line.event
           ELSE \E j \in NewestAbout(log, id) : log.live[j].event = Recorded(log, line).live[i].event
  <1>1. PICK kept \in {log.live, <<>>, <<Marker>>} : Recorded(log, line).live = Append(kept, line)
    BY RecordedLines
  <1>2. kept \in Seq(Lines) /\ Len(kept) \in Nat
    <2>1. kept \in Seq(Lines)
      BY KeptLines
    <2> QED
      BY <2>1
  <1> DEFINE now == Append(kept, line)
  <1>3. /\ i \in DOMAIN now /\ now[i].id = {id}
        /\ \A j \in DOMAIN now : now[j].id = {id} => j <= i
    BY <1>1 DEF NewestAbout, About, Recent
  <1>4. /\ DOMAIN now = 1 .. Len(kept) + 1 /\ now[Len(kept) + 1] = line
        /\ \A j \in 1 .. Len(kept) : now[j] = kept[j]
    BY <1>2, LinesAfter
  <1> HIDE DEF now
  <1>5. CASE line.id = {id}
    <2>1. Len(kept) + 1 <= i
      BY <1>2, <1>3, <1>4, <1>5
    <2>2. i = Len(kept) + 1
      BY <1>2, <1>3, <1>4, <2>1
    <2> QED
      BY <1>1, <1>4, <1>5, <2>2 DEF now
  <1>6. CASE line.id # {id}
    <2>1. i # Len(kept) + 1
      BY <1>3, <1>4, <1>6
    <2>2. i \in 1 .. Len(kept) /\ kept[i].id = {id} /\ now[i] = kept[i]
      BY <1>2, <1>3, <1>4, <2>1
    <2>3. kept = log.live
      BY <2>2, NobodyIsKept
    <2>4. \A j \in 1 .. Len(kept) : kept[j].id = {id} => j <= i
      BY <1>2, <1>3, <1>4
    <2>5. DOMAIN log.live = 1 .. Len(kept)
      BY <1>2, <2>3
    <2>6. i \in NewestAbout(log, id)
      BY <2>2, <2>3, <2>4, <2>5 DEF NewestAbout, About, Recent
    <2> QED
      BY <1>1, <1>6, <2>2, <2>3, <2>6 DEF now
  <1> QED
    BY <1>5, <1>6

\* What stands is mentioned.
LEMMA StandingMentions ==
    ASSUME NEW log, NEW opening, NEW id \in Standing(log, opening)
    PROVE  Mentions(log, id)
  BY DEF Standing, NewestAbout, About, Recent, Mentions

\* A line about another does not make an id stand, nor does any that is not an opening.
LEMMA StaysDecided ==
    ASSUME NEW log \in [live : Seq(Lines), backup : Seq(Lines)], NEW line \in Lines,
           NEW opening, NEW id \in Standing(Recorded(log, line), opening),
           line.id # {id} \/ line.event # opening
    PROVE  id \in Standing(log, opening) /\ line.id # {id}
  <1>1. PICK kept \in {log.live, <<>>, <<Marker>>} : Recorded(log, line).live = Append(kept, line)
    BY RecordedLines
  <1>2. kept \in Seq(Lines) /\ Len(kept) \in Nat
    <2>1. kept \in Seq(Lines)
      BY KeptLines
    <2> QED
      BY <2>1
  <1> DEFINE now == Append(kept, line)
  <1>3. PICK i \in DOMAIN now :
          /\ now[i].id = {id} /\ now[i].event = opening
          /\ \A j \in DOMAIN now : now[j].id = {id} => j <= i
    BY <1>1 DEF Standing, NewestAbout, About, Recent
  <1>4. /\ DOMAIN now = 1 .. Len(kept) + 1 /\ now[Len(kept) + 1] = line
        /\ \A j \in 1 .. Len(kept) : now[j] = kept[j]
    BY <1>2, LinesAfter
  <1> HIDE DEF now
  <1>5. line.id # {id}
    <2>1. SUFFICES ASSUME line.id = {id} PROVE FALSE
      OBVIOUS
    <2>2. Len(kept) + 1 <= i
      BY <1>2, <1>3, <1>4, <2>1
    <2>3. i = Len(kept) + 1
      BY <1>2, <1>3, <1>4, <2>2
    <2> QED
      BY <1>3, <1>4, <2>1, <2>3
  <1>6. i \in 1 .. Len(kept) /\ kept[i].id = {id} /\ kept[i].event = opening
    <2>1. i # Len(kept) + 1
      BY <1>3, <1>4, <1>5
    <2> QED
      BY <1>2, <1>3, <1>4, <2>1
  <1>7. kept = log.live
    BY <1>6, NobodyIsKept
  <1>8. DOMAIN log.live = 1 .. Len(kept)
    BY <1>2, <1>7
  <1>9. \A j \in 1 .. Len(kept) : kept[j].id = {id} => j <= i
    BY <1>2, <1>3, <1>4
  <1>10. i \in NewestAbout(log, id) /\ i \in Saying(log, opening)
    BY <1>6, <1>7, <1>8, <1>9 DEF NewestAbout, About, Saying, Recent
  <1> QED
    BY <1>5, <1>6, <1>7, <1>10 DEF Standing, Recent

\* A line lost leaves the lines as they were, or a new file.
LEMMA LostLines ==
    ASSUME NEW log \in [live : Seq(Lines), backup : Seq(Lines)], NEW lost \in Unrecorded(log)
    PROVE  /\ lost \in [live : Seq(Lines), backup : Seq(Lines)]
           /\ lost.live = log.live \/ \A id : ~Mentions(lost, id)
  <1>1. /\ Rotated(log) \in [live : Seq(Lines), backup : Seq(Lines)]
        /\ Rotated(log).live \in {<<>>, <<Marker>>}
    BY KeptLines DEF Rotated
  <1>2. CASE lost = log
    BY <1>2
  <1>3. CASE lost = Rotated(log) \/ lost = [Rotated(log) EXCEPT !.live = <<>>]
    <2>1. lost \in [live : Seq(Lines), backup : Seq(Lines)] /\ lost.live \in {<<>>, <<Marker>>}
      BY <1>1, <1>3, KeptLines
    <2>2. DOMAIN lost.live = 1 .. Len(lost.live)
      BY <2>1
    <2>3. \A id : ~Mentions(lost, id)
      BY <2>1, <2>2, NobodyIsKept DEF Mentions
    <2> QED
      BY <2>1, <2>3
  <1> QED
    BY <1>2, <1>3 DEF Unrecorded

\* So it makes nothing stand that did not.
LEMMA LostSays ==
    ASSUME NEW log \in [live : Seq(Lines), backup : Seq(Lines)], NEW lost \in Unrecorded(log), NEW id
    PROVE  /\ Mentions(lost, id) => Mentions(log, id)
           /\ \A opening : id \in Standing(lost, opening) => id \in Standing(log, opening)
           /\ \A i \in NewestAbout(lost, id) : i \in NewestAbout(log, id) /\ lost.live[i] = log.live[i]
  <1>1. CASE lost.live = log.live
    BY <1>1 DEF Mentions, Standing, NewestAbout, About, Saying, Recent
  <1>2. CASE \A o : ~Mentions(lost, o)
    <2>1. NewestAbout(lost, id) = {}
      BY <1>2 DEF Mentions, NewestAbout, About, Recent
    <2> QED
      BY <1>2, <2>1, StandingMentions
  <1> QED
    BY <1>1, <1>2, LostLines

-----------------------------------------------------------------------------
(* Types, but of the replay cache. *)

\* Minutes are granted for a gift or for a token.
AskedAgrees == \A c \in Callers : step[c] = "dated" => \A r \in req[c] : r.kind # "open"

QueueTypes ==
    /\ logs \in [Queues -> [live : Seq(Lines), backup : Seq(Lines)]]
    /\ gates \in [Queues -> Option(Callers)] /\ minted \subseteq Tokens

GrantTypes ==
    /\ today \in Dates /\ extra \in [date : Option(Dates), minutes : Nat]
    /\ given \in [Dates -> Nat] /\ straddled \subseteq Dates

HandlerTypes ==
    /\ step \in [Callers -> Steps] /\ req \in [Callers -> Option(Requests)]
    /\ day \in [Callers -> Option(Dates)]

TokenTypes ==
    /\ paid \in [Tokens -> Nat]
    /\ closed \in [Tokens -> SUBSET {"approved", "denied", "redeemed"}] /\ unwritten \subseteq Tokens

Types == QueueTypes /\ GrantTypes /\ HandlerTypes /\ TokenTypes

LEMMA InitTypes == Init => Types
  <1> SUFFICES ASSUME Init PROVE Types
    OBVIOUS
  <1>1. QueueTypes
    BY KeptLines DEF Init, QueueTypes, EmptyLog, Option
  <1>2. GrantTypes
    BY DatesAssumption DEF Init, GrantTypes, Option
  <1>3. HandlerTypes
    BY DEF Init, HandlerTypes, Steps, Answered, Option
  <1>4. TokenTypes
    BY DEF Init, TokenTypes
  <1> QED
    BY <1>1, <1>2, <1>3, <1>4 DEF Types

\* What a request is about.
LEMMA RequestTypes ==
    ASSUME NEW r \in Requests
    PROVE  /\ r.kind \in {"gift", "open", "close"}
           /\ r.kind = "gift" => r.minutes \in Gifts /\ KeyOf(r) \in Option(Keys)
           /\ r.kind = "open" => r.queue \in Queues /\ QueueIn(r) = r.queue
           /\ r.kind = "close" => /\ r.token \in Tokens /\ QueueIn(r) = QueueOf[r.token]
                                  /\ r.as \in Closings[QueueOf[r.token]] /\ KeyOf(r) = {}
           /\ r.kind # "open" => MinutesIn(r) \in Nat
  <1>1. CASE r \in [kind : {"gift"}, minutes : Gifts, key : Option(Keys)]
    BY <1>1, GiftsAssumption DEF KeyOf, MinutesIn
  <1>2. CASE r \in [kind : {"open"}, queue : Queues]
    BY <1>2 DEF QueueIn
  <1>3. ASSUME NEW t \in Tokens, r \in [kind : {"close"}, token : {t}, as : Closings[QueueOf[t]]]
        PROVE  /\ r.kind = "close" /\ r.token \in Tokens /\ QueueIn(r) = QueueOf[r.token]
               /\ r.as \in Closings[QueueOf[r.token]] /\ MinutesIn(r) \in Nat /\ KeyOf(r) = {}
    BY <1>3, WorthAssumption DEF KeyOf, QueueIn, MinutesIn
  <1> QED
    BY <1>1, <1>2, <1>3 DEF Requests

\* Of a token that is closed nothing is said that would open it.
LEMMA ClosingTypes ==
    ASSUME NEW t \in Tokens
    PROVE  /\ QueueOf[t] \in Queues
           /\ Closings[QueueOf[t]] \subseteq {"approved", "denied", "redeemed"} \ {Opening[QueueOf[t]]}
  <1>1. QueueOf[t] \in {"requests", "codes"}
    BY WorthAssumption
  <1>2. CASE QueueOf[t] = "requests"
    BY <1>2 DEF Closings, Opening, Queues
  <1>3. CASE QueueOf[t] = "codes"
    BY <1>3 DEF Closings, Opening, Queues
  <1> QED
    BY <1>1, <1>2, <1>3

\* One request at a time.
LEMMA OneRequest ==
    ASSUME HandlerTypes, NEW c \in Callers, NEW r \in req[c]
    PROVE  r \in Requests /\ req[c] = {r}
  <1>1. req[c] = {} \/ \E x \in Requests : req[c] = {x}
    BY DEF HandlerTypes, Option
  <1> QED
    BY <1>1

LEMMA MovesTypes ==
    ASSUME Types, NEW c \in Callers, NEW from, NEW to \in Steps, Moves(c, from, to)
    PROVE  HandlerTypes'
  <1>1. {today} \in Option(Dates) /\ {} \in Option(Dates)
    BY DEF Types, GrantTypes, Option
  <1> QED
    BY <1>1 DEF Types, HandlerTypes, Moves

LEMMA EndsTypes ==
    ASSUME Types, NEW c \in Callers, NEW from, Ends(c, from)
    PROVE  HandlerTypes'
  <1>1. {} \in Option(Dates) /\ {} \in Option(Requests)
    BY DEF Option
  <1> QED
    BY <1>1 DEF Types, HandlerTypes, Ends, Steps, Answered

LEMMA LineTypes ==
    ASSUME NEW event \in Events, NEW t \in Tokens
    PROVE  /\ Line(event, t) \in Lines
           /\ Line(event, t).id = {t} /\ Line(event, t).event = event
  BY DEF Line, Lines, Option

\* What a line about t does to its file, written or not: nothing else is said of anybody, and nothing
\* stands or is the newest line that was not before.
LineAdded(q, event, t) ==
    /\ \A o \in Queues \ {q} : logs'[o] = logs[o]
    /\ \A id : Mentions(logs'[q], id) => id = t \/ Mentions(logs[q], id)
    /\ \A id, opening : id \in Standing(logs'[q], opening) /\ (id # t \/ event # opening) =>
           id \in Standing(logs[q], opening) /\ (id # t \/ t \in unwritten')
    /\ \A id : \A i \in NewestAbout(logs'[q], id) :
           \/ id = t /\ logs'[q].live[i].event = event
           \/ /\ id = t => t \in unwritten'
              /\ \E j \in NewestAbout(logs[q], id) : logs[q].live[j].event = logs'[q].live[i].event

LEMMA WritesLines ==
    ASSUME QueueTypes, NEW q \in Queues, NEW event \in Events, NEW t \in Tokens, Writes(q, event, t)
    PROVE  /\ logs' \in [Queues -> [live : Seq(Lines), backup : Seq(Lines)]]
           /\ unwritten' \in {unwritten, unwritten \union {t}}
           /\ LineAdded(q, event, t)
  <1> DEFINE log == logs[q]
             line == Line(event, t)
  <1>1. log \in [live : Seq(Lines), backup : Seq(Lines)]
    BY DEF QueueTypes
  <1>2. line \in Lines /\ line.id = {t} /\ line.event = event
    BY LineTypes
  <1>3. /\ \/ logs' = [logs EXCEPT ![q] = Recorded(log, line)] /\ unwritten' = unwritten
           \/ /\ unwritten' = unwritten \union {t}
              /\ \E lost \in Unrecorded(log) : logs' = [logs EXCEPT ![q] = lost]
        /\ logs \in [Queues -> [live : Seq(Lines), backup : Seq(Lines)]]
    BY DEF Writes, QueueTypes
  <1> HIDE DEF line, log
  <1>4. CASE logs' = [logs EXCEPT ![q] = Recorded(log, line)] /\ unwritten' = unwritten
    <2>1. Recorded(log, line) \in [live : Seq(Lines), backup : Seq(Lines)]
      BY <1>1, <1>2, RecordedLines
    <2>2. logs'[q] = Recorded(log, line)
      BY <1>3, <1>4
    <2>3. /\ logs' \in [Queues -> [live : Seq(Lines), backup : Seq(Lines)]]
          /\ \A o \in Queues \ {q} : logs'[o] = logs[o]
      BY <1>3, <1>4, <2>1
    <2>4. ASSUME NEW id, Mentions(logs'[q], id) PROVE id = t \/ Mentions(log, id)
      <3>1. line.id = {id} \/ Mentions(log, id)
        BY <1>1, <1>2, <2>2, <2>4, RecordedMentions
      <3> QED
        BY <1>2, <3>1
    <2>5. ASSUME NEW id, NEW opening, id \in Standing(logs'[q], opening), id # t \/ event # opening
          PROVE  id \in Standing(log, opening) /\ id # t
      <3>1. line.id # {id} \/ line.event # opening
        BY <1>2, <2>5
      <3>2. id \in Standing(log, opening) /\ line.id # {id}
        BY <1>1, <1>2, <2>2, <2>5, <3>1, StaysDecided
      <3> QED
        BY <1>2, <3>2
    <2>6. ASSUME NEW id, NEW i \in NewestAbout(logs'[q], id)
          PROVE  \/ id = t /\ logs'[q].live[i].event = event
                 \/ id # t /\ \E j \in NewestAbout(log, id) : log.live[j].event = logs'[q].live[i].event
      <3>1. i \in NewestAbout(Recorded(log, line), id)
        BY <2>2
      <3>2. log \in [live : Seq(Lines), backup : Seq(Lines)] /\ line \in Lines
        BY <1>1, <1>2
      <3>3. IF line.id = {id}
             THEN Recorded(log, line).live[i].event = line.event
             ELSE \E j \in NewestAbout(log, id) : log.live[j].event = Recorded(log, line).live[i].event
        BY <3>1, <3>2, NewestAfter
      <3>4. CASE id = t
        <4>1. line.id = {id}
          BY <1>2, <3>4
        <4> QED
          BY <1>2, <2>2, <3>4, <3>3, <4>1
      <3>5. CASE id # t
        <4>1. line.id # {id}
          BY <1>2, <3>5
        <4> QED
          BY <2>2, <3>5, <3>3, <4>1
      <3> QED
        BY <3>4, <3>5
    <2> QED
      BY <1>4, <2>3, <2>4, <2>5, <2>6 DEF log, LineAdded
  <1>5. CASE unwritten' = unwritten \union {t} /\ \E lost \in Unrecorded(log) : logs' = [logs EXCEPT ![q] = lost]
    <2>1. PICK lost \in Unrecorded(log) : logs' = [logs EXCEPT ![q] = lost]
      BY <1>5
    <2>2. lost \in [live : Seq(Lines), backup : Seq(Lines)] /\ logs'[q] = lost
      BY <1>1, <1>3, <2>1, LostLines
    <2>3. /\ logs' \in [Queues -> [live : Seq(Lines), backup : Seq(Lines)]]
          /\ \A o \in Queues \ {q} : logs'[o] = logs[o]
      BY <1>3, <2>1, <2>2
    <2>4. ASSUME NEW id
          PROVE  /\ Mentions(logs'[q], id) => Mentions(log, id)
                 /\ \A opening : id \in Standing(logs'[q], opening) => id \in Standing(log, opening)
                 /\ \A i \in NewestAbout(logs'[q], id) :
                       \E j \in NewestAbout(log, id) : log.live[j].event = logs'[q].live[i].event
      <3>1. /\ Mentions(lost, id) => Mentions(log, id)
            /\ \A opening : id \in Standing(lost, opening) => id \in Standing(log, opening)
            /\ \A i \in NewestAbout(lost, id) : i \in NewestAbout(log, id) /\ lost.live[i] = log.live[i]
        BY <1>1, LostSays
      <3> QED
        BY <2>2, <3>1
    <2>5. t \in unwritten'
      BY <1>5
    <2> QED
      BY <1>5, <2>3, <2>4, <2>5 DEF log, LineAdded
  <1> QED
    BY <1>3, <1>4, <1>5

LEMMA TypeStep == ASSUME Types, AskedAgrees, Next PROVE Types'
  <1> USE DEF Types, Steps, Answered
  <1>1. ASSUME UNCHANGED queueVars PROVE QueueTypes'
    BY <1>1 DEF QueueTypes, queueVars
  <1>2. ASSUME UNCHANGED <<today, extra, given, straddled>> PROVE GrantTypes'
    BY <1>2 DEF GrantTypes
  <1>3. ASSUME UNCHANGED <<paid, closed, unwritten>> PROVE TokenTypes'
    BY <1>3 DEF TokenTypes
  <1>4. ASSUME UNCHANGED <<step, req, day>> PROVE HandlerTypes'
    BY <1>4 DEF HandlerTypes
  <1>5. ASSUME NEW c \in Callers, NEW r \in Requests, Asks(c, r) PROVE Types'
    <2>1. HandlerTypes'
      BY <1>5 DEF Asks, HandlerTypes, Option
    <2> QED
      BY <1>5, <1>1, <1>2, <1>3, <2>1 DEF Asks, pastVars
  <1>6. ASSUME NEW c \in Callers, Replays(c) \/ ReadsToday(c) PROVE Types'
    <2>1. HandlerTypes'
      BY <1>6, MovesTypes, EndsTypes DEF Replays, ReadsToday
    <2> QED
      BY <1>6, <1>1, <1>2, <1>3, <2>1 DEF Replays, ReadsToday, pastVars
  <1>7. ASSUME NEW c \in Callers, Enters(c) PROVE Types'
    <2>1. HandlerTypes'
      BY <1>7, MovesTypes DEF Enters
    <2>2. QueueTypes'
      <3>1. PICK r \in req[c] : gates' = [gates EXCEPT ![QueueIn(r)] = {c}]
        BY <1>7 DEF Enters
      <3>2. {c} \in Option(Callers)
        BY DEF Option
      <3> QED
        BY <1>7, <3>1, <3>2 DEF Enters, QueueTypes
    <2> QED
      BY <1>7, <1>2, <1>3, <2>1, <2>2 DEF Enters, pastVars
  <1>8. ASSUME NEW c \in Callers, TurnedAway(c) \/ NotSaved(c) \/ LeavesUnanswered(c) PROVE Types'
    <2>1. HandlerTypes'
      BY <1>8, EndsTypes DEF TurnedAway, NotSaved, LeavesUnanswered
    <2> QED
      BY <1>8, <1>1, <1>2, <1>3, <2>1 DEF TurnedAway, NotSaved, LeavesUnanswered, pastVars
  <1>9. ASSUME NEW c \in Callers, Opens(c) PROVE Types'
    <2>1. HandlerTypes'
      BY <1>9, EndsTypes DEF Opens
    <2>2. PICK r \in req[c], t \in Tokens \ minted :
             /\ r.kind = "open" /\ QueueOf[t] = r.queue /\ minted' = minted \union {t}
             /\ Writes(r.queue, Opening[r.queue], t)
             /\ gates' = [gates EXCEPT ![r.queue] = {}]
      BY <1>9, OneRequest DEF Opens
    <2>3. r.queue \in Queues
      BY <2>2, OneRequest, RequestTypes
    <2>4. Opening[r.queue] \in Events
      BY <2>3 DEF Opening, Queues, Events
    <2>5. QueueTypes' /\ unwritten' \subseteq Tokens
      <3>1. /\ logs' \in [Queues -> [live : Seq(Lines), backup : Seq(Lines)]]
            /\ unwritten' \in {unwritten, unwritten \union {t}}
        BY <2>2, <2>3, <2>4, WritesLines
      <3> QED
        BY <2>2, <2>3, <3>1 DEF QueueTypes, TokenTypes, Option
    <2>6. TokenTypes'
      BY <1>9, <2>5 DEF Opens, TokenTypes
    <2> QED
      BY <1>9, <1>2, <2>1, <2>5, <2>6 DEF Opens
  <1>10. ASSUME NEW c \in Callers, Closes(c) PROVE Types'
    <2>1. PICK r \in req[c] :
             /\ r.kind = "close"
             /\ Moves(c, "inside", IF r.as = "denied" THEN "ok" ELSE "dated")
             /\ Writes(QueueIn(r), r.as, r.token)
             /\ gates' = [gates EXCEPT ![QueueIn(r)] = {}]
             /\ closed' = [closed EXCEPT ![r.token] = @ \union {r.as}]
      BY <1>10 DEF Closes
    <2>2. /\ r.token \in Tokens /\ QueueIn(r) = QueueOf[r.token] /\ QueueIn(r) \in Queues
          /\ r.as \in {"approved", "denied", "redeemed"}
      BY <2>1, OneRequest, RequestTypes, ClosingTypes
    <2>3. HandlerTypes'
      BY <2>1, MovesTypes
    <2>4. r.as \in Events /\ minted' \subseteq Tokens
      BY <1>10, <2>2 DEF Events, Closes, QueueTypes
    <2>5. QueueTypes' /\ unwritten' \subseteq Tokens
      <3>1. /\ logs' \in [Queues -> [live : Seq(Lines), backup : Seq(Lines)]]
            /\ unwritten' \in {unwritten, unwritten \union {r.token}}
        BY <2>1, <2>2, <2>4, WritesLines
      <3> QED
        BY <2>1, <2>2, <2>4, <3>1 DEF QueueTypes, TokenTypes, Option
    <2>6. TokenTypes'
      BY <1>10, <2>1, <2>2, <2>5 DEF Closes, TokenTypes
    <2> QED
      BY <1>10, <1>2, <2>3, <2>5, <2>6 DEF Closes
  <1>11. ASSUME NEW c \in Callers, Adds(c) PROVE Types'
    <2>1. PICK r \in req[c], d \in day[c] :
             /\ Moves(c, "dated", IF KeyOf(r) = {} THEN "ok" ELSE "granted")
             /\ extra' = Add(extra, d, MinutesIn(r))
             /\ given' = [given EXCEPT ![d] = @ + MinutesIn(r)]
             /\ paid' = IF r.kind = "close" THEN [paid EXCEPT ![r.token] = @ + 1] ELSE paid
             /\ straddled' = straddled \union ({today} \ {d})
      BY <1>11 DEF Adds
    <2>2. MinutesIn(r) \in Nat
      BY <2>1, OneRequest, RequestTypes DEF Moves, AskedAgrees
    <2>3. d \in Dates
      <3>1. day[c] = {} \/ \E x \in Dates : day[c] = {x}
        BY DEF HandlerTypes, Option
      <3> QED
        BY <3>1
    <2>4. HandlerTypes'
      BY <2>1, MovesTypes
    <2>5. extra' \in [date : Option(Dates), minutes : Nat]
      BY <2>1, <2>2, <2>3 DEF Add, ForDay, GrantTypes, Option
    <2>6. given' \in [Dates -> Nat]
      BY <2>1, <2>2, <2>3 DEF GrantTypes
    <2>7. GrantTypes'
      BY <1>11, <2>1, <2>5, <2>6 DEF Adds, GrantTypes
    <2>8. TokenTypes'
      <3>1. closed' = closed /\ unwritten' = unwritten /\ paid \in [Tokens -> Nat]
        BY <1>11 DEF Adds, TokenTypes
      <3>2. CASE r.kind = "close"
        <4>1. r.token \in Tokens
          BY <3>2, OneRequest, RequestTypes
        <4> QED
          BY <2>1, <3>1, <3>2, <4>1 DEF TokenTypes
      <3>3. CASE r.kind # "close"
        BY <2>1, <3>1, <3>3 DEF TokenTypes
      <3> QED
        BY <3>2, <3>3
    <2> QED
      BY <1>11, <1>1, <2>4, <2>7, <2>8 DEF Adds
  <1>12. ASSUME NEW c \in Callers, Remembers(c) PROVE Types'
    <2>1. HandlerTypes'
      BY <1>12 DEF Remembers, HandlerTypes
    <2> QED
      BY <1>12, <1>1, <1>2, <1>3, <2>1 DEF Remembers
  <1>13. CASE Expires
    BY <1>13, <1>1, <1>2, <1>3, <1>4 DEF Expires
  <1>14. CASE Midnight
    <2>1. GrantTypes'
      BY <1>14 DEF Midnight, GrantTypes, pastVars
    <2> QED
      BY <1>14, <1>1, <1>3, <1>4, <2>1 DEF Midnight, pastVars, handlerVars
  <1>15. CASE Restart
    <2>1. QueueTypes' /\ HandlerTypes'
      BY <1>15 DEF Restart, QueueTypes, HandlerTypes, Option
    <2> QED
      BY <1>15, <1>2, <1>3, <2>1 DEF Restart
  <1> QED
    BY <1>5, <1>6, <1>7, <1>8, <1>9, <1>10, <1>11, <1>12, <1>13, <1>14, <1>15 DEF Next, Handles

-----------------------------------------------------------------------------
(* What is so at every step. *)

LEMMA AskedStep == ASSUME Types, AskedAgrees, Next PROVE AskedAgrees'
  <1> USE DEF AskedAgrees
  <1>0. step \in [Callers -> Steps] /\ req \in [Callers -> Option(Requests)] /\ HandlerTypes
    BY DEF Types, HandlerTypes
  <1>1. ASSUME NEW c \in Callers, \A o \in Callers \ {c} : step'[o] = step[o] /\ req'[o] = req[o],
               step'[c] = "dated" => \A r \in req'[c] : r.kind # "open"
        PROVE  AskedAgrees'
    BY <1>1
  <1>2. ASSUME NEW c \in Callers,
               \/ \E r \in Requests : Asks(c, r)
               \/ Replays(c) \/ Enters(c) \/ TurnedAway(c) \/ Opens(c)
               \/ Adds(c) \/ NotSaved(c) \/ Remembers(c) \/ LeavesUnanswered(c)
        PROVE  AskedAgrees'
    <2>1. step'[c] # "dated" /\ \A o \in Callers \ {c} : step'[o] = step[o] /\ req'[o] = req[o]
      <3>1. CASE (\E r \in Requests : Asks(c, r)) \/ Remembers(c)
        BY <1>0, <3>1 DEF Asks, Remembers
      <3>2. CASE Replays(c) \/ Enters(c) \/ Adds(c)
        BY <1>0, <3>2 DEF Replays, Enters, Adds, Moves, Ends
      <3>3. CASE TurnedAway(c) \/ Opens(c) \/ NotSaved(c) \/ LeavesUnanswered(c)
        BY <1>0, <3>3 DEF TurnedAway, Opens, NotSaved, LeavesUnanswered, Ends
      <3> QED
        BY <1>2, <3>1, <3>2, <3>3
    <2> QED
      BY <1>1, <2>1
  <1>3. ASSUME NEW c \in Callers, ReadsToday(c) \/ Closes(c) PROVE AskedAgrees'
    <2>1. \E r \in req[c] : r.kind # "open"
      BY <1>3 DEF ReadsToday, Closes
    <2>2. \A r \in req[c] : r.kind # "open"
      BY <1>0, <2>1, OneRequest
    <2>3. req' = req /\ \A o \in Callers \ {c} : step'[o] = step[o]
      BY <1>0, <1>3 DEF ReadsToday, Closes, Moves
    <2> QED
      BY <1>1, <2>2, <2>3
  <1>4. CASE Expires \/ Midnight \/ Restart
    BY <1>4 DEF Expires, Midnight, Restart, handlerVars
  <1> QED
    BY <1>2, <1>3, <1>4 DEF Next, Handles

\* Whoever is inside holds the gate of the queue it is about, and nobody else does.
GatesAgree ==
    /\ \A c \in Callers : step[c] = "inside" =>
           \E r \in req[c] : r.kind \in {"open", "close"} /\ gates[QueueIn(r)] = {c}
    /\ \A q \in Queues, c \in Callers : gates[q] = {c} =>
           step[c] = "inside" /\ \A r \in req[c] : QueueIn(r) = q

\* What a handler does that is not inside, before or after.
LEMMA OutsideSteps ==
    ASSUME Types, NEW c \in Callers,
           \/ \E r \in Requests : Asks(c, r)
           \/ Replays(c) \/ ReadsToday(c) \/ TurnedAway(c)
           \/ Adds(c) \/ NotSaved(c) \/ Remembers(c) \/ LeavesUnanswered(c)
    PROVE  /\ UNCHANGED <<queueVars, closed, unwritten, today>>
           /\ step[c] # "inside" /\ step'[c] # "inside"
           /\ \A o \in Callers \ {c} : step'[o] = step[o] /\ req'[o] = req[o] /\ day'[o] = day[o]
  <1>0. /\ step \in [Callers -> Steps] /\ req \in [Callers -> Option(Requests)]
        /\ day \in [Callers -> Option(Dates)]
    BY DEF Types, HandlerTypes
  <1>1. CASE (\E r \in Requests : Asks(c, r)) \/ Remembers(c)
    BY <1>0, <1>1 DEF Asks, Remembers, pastVars, Answered
  <1>2. CASE Replays(c) \/ ReadsToday(c) \/ Adds(c)
    BY <1>0, <1>2 DEF Replays, ReadsToday, Adds, Moves, Ends, pastVars
  <1>3. CASE TurnedAway(c) \/ NotSaved(c) \/ LeavesUnanswered(c)
    BY <1>0, <1>3 DEF TurnedAway, NotSaved, LeavesUnanswered, Ends, pastVars
  <1> QED
    BY <1>1, <1>2, <1>3

\* Whoever writes a line holds the gate, and lets go of it.
LEMMA WritersHold ==
    ASSUME Types, GatesAgree, NEW c \in Callers, Opens(c) \/ Closes(c)
    PROVE  /\ step[c] = "inside" /\ step'[c] # "inside"
           /\ \A o \in Callers \ {c} : step'[o] = step[o] /\ req'[o] = req[o] /\ day'[o] = day[o]
           /\ \E r \in req[c] :
                 /\ QueueIn(r) \in Queues /\ gates[QueueIn(r)] = {c}
                 /\ gates' = [gates EXCEPT ![QueueIn(r)] = {}]
                 /\ \A q \in Queues \ {QueueIn(r)} : logs'[q] = logs[q]
  <1>0. /\ step \in [Callers -> Steps] /\ req \in [Callers -> Option(Requests)]
        /\ day \in [Callers -> Option(Dates)] /\ HandlerTypes
        /\ logs \in [Queues -> [live : Seq(Lines), backup : Seq(Lines)]]
    BY DEF Types, HandlerTypes, QueueTypes
  <1>1. /\ step[c] = "inside" /\ step'[c] # "inside"
        /\ \A o \in Callers \ {c} : step'[o] = step[o] /\ req'[o] = req[o] /\ day'[o] = day[o]
    BY <1>0 DEF Opens, Closes, Ends, Moves
  <1>2. PICK r \in req[c] : r.kind \in {"open", "close"} /\ gates[QueueIn(r)] = {c}
    BY <1>1 DEF GatesAgree
  <1>3. r \in Requests /\ req[c] = {r}
    BY <1>0, OneRequest
  <1>4. QueueIn(r) \in Queues
    BY <1>2, <1>3, RequestTypes, ClosingTypes
  <1>5. /\ gates' = [gates EXCEPT ![QueueIn(r)] = {}]
        /\ \E log : logs' = [logs EXCEPT ![QueueIn(r)] = log]
    <2>1. CASE Opens(c)
      BY <1>3, <2>1, RequestTypes DEF Opens, Writes
    <2>2. CASE Closes(c)
      BY <1>3, <2>2 DEF Closes, Writes
    <2> QED
      BY <2>1, <2>2
  <1> QED
    BY <1>0, <1>1, <1>2, <1>4, <1>5

LEMMA GatesStep == ASSUME Types, GatesAgree, Next PROVE GatesAgree'
  <1>0. /\ step \in [Callers -> Steps] /\ req \in [Callers -> Option(Requests)]
        /\ gates \in [Queues -> Option(Callers)] /\ HandlerTypes
    BY DEF Types, HandlerTypes, QueueTypes
  <1>1. ASSUME NEW c \in Callers, UNCHANGED gates, step[c] # "inside", step'[c] # "inside",
               \A o \in Callers \ {c} : step'[o] = step[o] /\ req'[o] = req[o]
        PROVE  GatesAgree'
    BY <1>1 DEF GatesAgree
  <1>2. ASSUME NEW c \in Callers, Enters(c) PROVE GatesAgree'
    <2>1. PICK r \in req[c] :
             /\ r.kind \in {"open", "close"} /\ gates[QueueIn(r)] = {}
             /\ gates' = [gates EXCEPT ![QueueIn(r)] = {c}]
      BY <1>2 DEF Enters
    <2>2. req[c] = {r} /\ QueueIn(r) \in Queues
      BY <1>0, <2>1, OneRequest, RequestTypes, ClosingTypes
    <2>3. step[c] = "asked" /\ step' = [step EXCEPT ![c] = "inside"] /\ req' = req
      BY <1>2 DEF Enters, Moves
    <2>4. ASSUME NEW o \in Callers, step'[o] = "inside"
          PROVE  \E s \in req'[o] : s.kind \in {"open", "close"} /\ gates'[QueueIn(s)] = {o}
      <3>1. CASE o = c
        BY <1>0, <2>1, <2>2, <2>3, <3>1
      <3>2. CASE o # c
        <4>1. PICK s \in req[o] : s.kind \in {"open", "close"} /\ gates[QueueIn(s)] = {o}
          BY <1>0, <2>3, <2>4, <3>2 DEF GatesAgree
        <4>2. QueueIn(s) # QueueIn(r)
          BY <2>1, <4>1
        <4>3. s \in Requests
          BY <1>0, OneRequest
        <4>4. QueueIn(s) \in Queues
          BY <4>1, <4>3, RequestTypes, ClosingTypes
        <4> QED
          BY <1>0, <2>1, <2>3, <4>1, <4>2, <4>4
      <3> QED
        BY <3>1, <3>2
    <2>5. ASSUME NEW q \in Queues, NEW o \in Callers, gates'[q] = {o}
          PROVE  step'[o] = "inside" /\ \A s \in req'[o] : QueueIn(s) = q
      <3>1. CASE q = QueueIn(r)
        BY <1>0, <2>1, <2>2, <2>3, <2>5, <3>1
      <3>2. CASE q # QueueIn(r)
        BY <1>0, <2>1, <2>3, <2>5, <3>2 DEF GatesAgree
      <3> QED
        BY <3>1, <3>2
    <2> QED
      BY <2>4, <2>5 DEF GatesAgree
  <1>3. ASSUME NEW c \in Callers, Opens(c) \/ Closes(c) PROVE GatesAgree'
    <2>1. PICK r \in req[c] :
             /\ QueueIn(r) \in Queues /\ gates[QueueIn(r)] = {c}
             /\ gates' = [gates EXCEPT ![QueueIn(r)] = {}]
      BY <1>3, WritersHold
    <2>2. /\ step'[c] # "inside"
          /\ \A o \in Callers \ {c} : step'[o] = step[o] /\ req'[o] = req[o]
      BY <1>3, WritersHold
    <2>3. ASSUME NEW o \in Callers, step'[o] = "inside"
          PROVE  \E s \in req'[o] : s.kind \in {"open", "close"} /\ gates'[QueueIn(s)] = {o}
      <3>1. o # c /\ step[o] = "inside" /\ req'[o] = req[o]
        BY <2>2, <2>3
      <3>2. PICK s \in req[o] : s.kind \in {"open", "close"} /\ gates[QueueIn(s)] = {o}
        BY <3>1 DEF GatesAgree
      <3>3. QueueIn(s) # QueueIn(r)
        BY <2>1, <3>1, <3>2
      <3>4. s \in Requests
        BY <1>0, OneRequest
      <3>5. QueueIn(s) \in Queues
        BY <3>2, <3>4, RequestTypes, ClosingTypes
      <3> QED
        BY <1>0, <2>1, <3>1, <3>2, <3>3, <3>5
    <2>4. ASSUME NEW q \in Queues, NEW o \in Callers, gates'[q] = {o}
          PROVE  step'[o] = "inside" /\ \A s \in req'[o] : QueueIn(s) = q
      <3>1. q # QueueIn(r) /\ gates[q] = {o}
        BY <1>0, <2>1, <2>4
      <3>2. step[o] = "inside" /\ \A s \in req[o] : QueueIn(s) = q
        BY <3>1 DEF GatesAgree
      <3>3. o # c
        BY <3>1, <3>2
      <3> QED
        BY <2>2, <3>2, <3>3
    <2> QED
      BY <2>3, <2>4 DEF GatesAgree
  <1>4. CASE Expires \/ Midnight
    BY <1>4 DEF Expires, Midnight, handlerVars, queueVars, GatesAgree
  <1>5. CASE Restart
    BY <1>5 DEF Restart, GatesAgree
  <1> QED
    BY <1>1, <1>2, <1>3, <1>4, <1>5, OutsideSteps DEF Next, Handles, queueVars

\* A token nobody has been given is in no file; one that is closed is not pending, if that could be
\* written; and what is about to be closed is.
QueuesAgree ==
    /\ \A t \in Tokens \ minted : closed[t] = {} /\ \A q \in Queues : ~Mentions(logs[q], t)
    /\ \A t \in Tokens \ unwritten : closed[t] # {} => t \notin Pending(QueueOf[t])
    /\ \A c \in Callers : \A r \in req[c] :
           step[c] = "inside" /\ r.kind = "close" => r.token \in Pending(QueueIn(r))

\* A line written leaves who waits inside for another queue as it was.
LEMMA OthersWait ==
    ASSUME Types, GatesAgree, QueuesAgree, NEW c \in Callers, Opens(c) \/ Closes(c),
           NEW o \in Callers, NEW r \in req'[o], step'[o] = "inside", r.kind = "close"
    PROVE  r.token \in Pending(QueueIn(r))'
  <1>1. PICK s \in req[c] :
             /\ QueueIn(s) \in Queues /\ gates[QueueIn(s)] = {c}
             /\ \A q \in Queues \ {QueueIn(s)} : logs'[q] = logs[q]
    BY WritersHold
  <1>2. o # c /\ step[o] = "inside" /\ r \in req[o]
    BY WritersHold
  <1>3. r \in Requests /\ req[o] = {r}
    BY <1>2, OneRequest DEF Types
  <1>4. gates[QueueIn(r)] = {o}
    BY <1>2, <1>3 DEF GatesAgree
  <1>5. QueueIn(r) \in Queues /\ QueueIn(r) # QueueIn(s)
    BY <1>1, <1>2, <1>3, <1>4, RequestTypes, ClosingTypes
  <1> QED
    BY <1>1, <1>2, <1>5 DEF QueuesAgree, Pending

LEMMA QueuesStep == ASSUME Types, GatesAgree, QueuesAgree, Next PROVE QueuesAgree'
  <1>0. /\ HandlerTypes /\ minted \subseteq Tokens
        /\ logs \in [Queues -> [live : Seq(Lines), backup : Seq(Lines)]]
        /\ closed \in [Tokens -> SUBSET {"approved", "denied", "redeemed"}]
    BY DEF Types, QueueTypes, TokenTypes
  <1>1. ASSUME NEW c \in Callers, UNCHANGED <<logs, minted, closed, unwritten>>,
               step'[c] = "inside" => \A r \in req'[c] : r.kind = "close" => r.token \in Pending(QueueIn(r)),
               \A o \in Callers \ {c} : step'[o] = step[o] /\ req'[o] = req[o]
        PROVE  QueuesAgree'
    BY <1>1 DEF QueuesAgree, Pending
  <1>2. ASSUME NEW c \in Callers, Enters(c) PROVE QueuesAgree'
    <2>1. PICK r \in req[c] : r.kind = "close" => r.token \in Pending(QueueIn(r))
      BY <1>2 DEF Enters
    <2>2. \A s \in req[c] : s.kind = "close" => s.token \in Pending(QueueIn(s))
      BY <1>0, <2>1, OneRequest
    <2>3. /\ UNCHANGED <<logs, minted, closed, unwritten, req>>
          /\ \A o \in Callers \ {c} : step'[o] = step[o]
      BY <1>0, <1>2 DEF Enters, Moves, pastVars, HandlerTypes
    <2> QED
      BY <1>1, <2>2, <2>3
  \* A line about t, which is minted, in its own file.
  <1>3. ASSUME NEW c \in Callers, Opens(c) \/ Closes(c), NEW t \in minted', NEW q \in Queues, NEW event \in Events,
               q = QueueOf[t], t \in Tokens, Writes(q, event, t), minted \subseteq minted',
               \A u \in Tokens \ {t} : closed'[u] = closed[u],
               closed'[t] # {} => event # Opening[q]
        PROVE  QueuesAgree'
    <2>1. /\ unwritten \subseteq unwritten'
          /\ \A o \in Queues \ {q} : logs'[o] = logs[o]
          /\ \A u : Mentions(logs'[q], u) => u = t \/ Mentions(logs[q], u)
          /\ \A u, opening : u \in Standing(logs'[q], opening) /\ (u # t \/ event # opening) =>
                 u \in Standing(logs[q], opening) /\ (u # t \/ t \in unwritten')
      <3>1. QueueTypes
        BY DEF Types
      <3>2. unwritten' \in {unwritten, unwritten \union {t}}
        BY <1>3, <3>1, WritesLines
      <3>3. unwritten \subseteq unwritten'
        BY <3>2
      <3>4. LineAdded(q, event, t)
        BY <1>3, <3>1, WritesLines
      <3> QED
        BY <3>3, <3>4 DEF LineAdded
    <2>2. ASSUME NEW u \in Tokens \ minted'
          PROVE  closed'[u] = {} /\ \A o \in Queues : ~Mentions(logs'[o], u)
      <3>1. u \in Tokens \ minted /\ u # t
        BY <1>3, <2>2
      <3>2. closed'[u] = {} /\ \A o \in Queues : ~Mentions(logs[o], u)
        BY <1>3, <3>1 DEF QueuesAgree
      <3> QED
        BY <2>1, <3>1, <3>2
    <2>3. ASSUME NEW u \in Tokens \ unwritten', closed'[u] # {} PROVE u \notin Pending(QueueOf[u])'
      <3>1. QueueOf[u] \in Queues
        BY ClosingTypes
      <3>2. CASE u = t
        <4>1. u \notin Standing(logs'[q], Opening[q])
          BY <1>3, <2>1, <2>3, <3>2
        <4> QED
          BY <1>3, <3>2, <4>1 DEF Pending
      <3>3. CASE u # t
        <4>1. u \notin Standing(logs[QueueOf[u]], Opening[QueueOf[u]])
          BY <1>3, <2>1, <2>3, <3>3 DEF QueuesAgree, Pending
        <4>2. u \notin Standing(logs'[QueueOf[u]], Opening[QueueOf[u]])
          <5>1. CASE QueueOf[u] = q
            BY <2>1, <3>3, <4>1, <5>1
          <5>2. CASE QueueOf[u] # q
            BY <2>1, <3>1, <4>1, <5>2
          <5> QED
            BY <5>1, <5>2
        <4> QED
          BY <4>2 DEF Pending
      <3> QED
        BY <3>2, <3>3
    <2> QED
      BY <1>3, <2>2, <2>3, OthersWait DEF QueuesAgree
  <1>4. ASSUME NEW c \in Callers, Opens(c) PROVE QueuesAgree'
    <2>1. PICK r \in req[c], t \in Tokens \ minted :
             /\ r.kind = "open" /\ QueueOf[t] = r.queue /\ minted' = minted \union {t}
             /\ Writes(r.queue, Opening[r.queue], t)
      BY <1>4 DEF Opens
    <2>2. r.queue \in Queues
      BY <1>0, <2>1, OneRequest, RequestTypes
    <2>3. Opening[r.queue] \in Events
      BY <2>2 DEF Opening, Queues, Events
    <2>4. closed' = closed /\ closed[t] = {}
      BY <1>4, <2>1 DEF Opens, QueuesAgree
    <2> QED
      BY <1>3, <1>4, <2>1, <2>2, <2>3, <2>4
  <1>5. ASSUME NEW c \in Callers, Closes(c) PROVE QueuesAgree'
    <2>1. PICK r \in req[c] :
             /\ r.kind = "close" /\ step[c] = "inside"
             /\ Writes(QueueIn(r), r.as, r.token)
             /\ closed' = [closed EXCEPT ![r.token] = @ \union {r.as}]
      BY <1>5 DEF Closes, Moves
    <2>2. /\ r.token \in Tokens /\ QueueIn(r) = QueueOf[r.token] /\ QueueIn(r) \in Queues
          /\ r.as \in {"approved", "denied", "redeemed"} /\ r.as # Opening[QueueIn(r)]
      <3>1. r \in Requests
        BY <1>0, OneRequest
      <3>2. r.token \in Tokens /\ QueueIn(r) = QueueOf[r.token] /\ r.as \in Closings[QueueOf[r.token]]
        BY <2>1, <3>1, RequestTypes
      <3> QED
        BY <3>2, ClosingTypes
    <2>3. minted' = minted /\ r.as \in Events
      BY <1>5, <2>2 DEF Closes, Events
    <2>4. r.token \in minted
      <3>1. r.token \in Standing(logs[QueueIn(r)], Opening[QueueIn(r)])
        BY <2>1 DEF QueuesAgree, Pending
      <3> QED
        BY <2>2, <3>1, StandingMentions DEF QueuesAgree
    <2>5. \A u \in Tokens \ {r.token} : closed'[u] = closed[u]
      BY <1>0, <2>1, <2>2
    <2> QED
      BY <1>3, <1>5, <2>1, <2>2, <2>3, <2>4, <2>5
  <1>6. CASE Expires \/ Midnight
    BY <1>6 DEF Expires, Midnight, handlerVars, queueVars, pastVars, QueuesAgree, Pending
  <1>7. CASE Restart
    BY <1>7 DEF Restart, QueuesAgree, Pending
  <1> QED
    BY <1>1, <1>2, <1>4, <1>5, <1>6, <1>7, OutsideSteps DEF Next, Handles, queueVars

\* The newest line about a token is in its own file, and says how it was closed, or that it was not.
FilesAgree ==
    \A t \in Tokens, q \in Queues : \A i \in NewestAbout(logs[q], t) :
        /\ q = QueueOf[t]
        /\ t \notin unwritten => closed[t] = {logs[q].live[i].event} \ {Opening[q]}

LEMMA FilesStep == ASSUME Types, QueuesAgree, FilesAgree, Next PROVE FilesAgree'
  <1>0. /\ HandlerTypes /\ minted \subseteq Tokens
        /\ logs \in [Queues -> [live : Seq(Lines), backup : Seq(Lines)]]
        /\ closed \in [Tokens -> SUBSET {"approved", "denied", "redeemed"}]
    BY DEF Types, QueueTypes, TokenTypes
  <1>1. ASSUME UNCHANGED <<logs, closed, unwritten>> PROVE FilesAgree'
    BY <1>1 DEF FilesAgree
  \* A line about t in its own file, and about no other token.
  <1>2. ASSUME NEW t \in Tokens, NEW q \in Queues, NEW event \in Events, q = QueueOf[t], Writes(q, event, t),
               t \notin unwritten' => closed'[t] = {event} \ {Opening[q]},
               \A u \in Tokens \ {t} : closed'[u] = closed[u]
        PROVE  FilesAgree'
    <2>1. SUFFICES ASSUME NEW u \in Tokens, NEW o \in Queues, NEW i \in NewestAbout(logs'[o], u)
                   PROVE  /\ o = QueueOf[u]
                          /\ u \notin unwritten' => closed'[u] = {logs'[o].live[i].event} \ {Opening[o]}
      BY DEF FilesAgree
    <2>2. /\ unwritten \subseteq unwritten'
          /\ \A x \in Queues \ {q} : logs'[x] = logs[x]
          /\ \A id : \A n \in NewestAbout(logs'[q], id) :
                \/ id = t /\ logs'[q].live[n].event = event
                \/ /\ id = t => t \in unwritten'
                   /\ \E j \in NewestAbout(logs[q], id) : logs[q].live[j].event = logs'[q].live[n].event
      <3>1. QueueTypes
        BY DEF Types
      <3>2. unwritten' \in {unwritten, unwritten \union {t}}
        BY <1>2, <3>1, WritesLines
      <3>3. unwritten \subseteq unwritten'
        BY <3>2
      <3>4. LineAdded(q, event, t)
        BY <1>2, <3>1, WritesLines
      <3> QED
        BY <3>3, <3>4 DEF LineAdded
    <2>3. CASE o # q
      <3>1. logs'[o] = logs[o]
        BY <2>2, <2>3
      <3>2. o = QueueOf[u] /\ (u \notin unwritten => closed[u] = {logs[o].live[i].event} \ {Opening[o]})
        BY <2>1, <3>1 DEF FilesAgree
      <3>3. u # t
        BY <1>2, <2>3, <3>2
      <3> QED
        BY <1>2, <2>2, <3>1, <3>2, <3>3
    <2>4. CASE o = q /\ u = t
      BY <1>2, <2>1, <2>2, <2>4
    <2>5. CASE o = q /\ u # t
      <3>1. PICK j \in NewestAbout(logs[q], u) : logs[q].live[j].event = logs'[q].live[i].event
        BY <2>1, <2>2, <2>5
      <3>2. q = QueueOf[u] /\ (u \notin unwritten => closed[u] = {logs[q].live[j].event} \ {Opening[q]})
        BY <3>1 DEF FilesAgree
      <3> QED
        BY <1>2, <2>2, <2>5, <3>1, <3>2
    <2> QED
      BY <2>3, <2>4, <2>5
  <1>3. ASSUME NEW c \in Callers, Opens(c) PROVE FilesAgree'
    <2>1. PICK r \in req[c], t \in Tokens \ minted :
             r.kind = "open" /\ QueueOf[t] = r.queue /\ Writes(r.queue, Opening[r.queue], t)
      BY <1>3 DEF Opens
    <2>2. r.queue \in Queues
      BY <1>0, <2>1, OneRequest, RequestTypes
    <2>3. Opening[r.queue] \in Events
      BY <2>2 DEF Opening, Queues, Events
    <2>4. closed' = closed /\ closed[t] = {}
      BY <1>3, <2>1 DEF Opens, QueuesAgree
    <2>5. {Opening[r.queue]} \ {Opening[r.queue]} = {}
      OBVIOUS
    <2> QED
      BY <1>2, <2>1, <2>2, <2>3, <2>4, <2>5
  <1>4. ASSUME NEW c \in Callers, Closes(c) PROVE FilesAgree'
    <2>1. PICK r \in req[c] :
             /\ r.kind = "close" /\ step[c] = "inside"
             /\ Writes(QueueIn(r), r.as, r.token)
             /\ closed' = [closed EXCEPT ![r.token] = @ \union {r.as}]
      BY <1>4 DEF Closes, Moves
    <2>2. /\ r.token \in Tokens /\ QueueIn(r) = QueueOf[r.token] /\ QueueIn(r) \in Queues
          /\ r.as \in {"approved", "denied", "redeemed"} \ {Opening[QueueIn(r)]}
      <3>1. r.token \in Tokens /\ QueueIn(r) = QueueOf[r.token] /\ r.as \in Closings[QueueOf[r.token]]
        BY <1>0, <2>1, OneRequest, RequestTypes
      <3> QED
        BY <3>1, ClosingTypes
    <2>3. r.as \in Events
      BY <2>2 DEF Events
    <2>4. \A u \in Tokens \ {r.token} : closed'[u] = closed[u]
      BY <1>0, <2>1, <2>2
    <2>5. ASSUME r.token \notin unwritten' PROVE closed'[r.token] = {r.as} \ {Opening[QueueIn(r)]}
      <3>1. r.token \notin unwritten
        BY <2>1, <2>5 DEF Writes
      <3>2. closed[r.token] = {}
        BY <2>1, <2>2, <3>1 DEF QueuesAgree
      <3> QED
        BY <1>0, <2>1, <2>2, <3>2
    <2> QED
      BY <1>2, <2>1, <2>2, <2>3, <2>4, <2>5
  <1>5. ASSUME NEW c \in Callers, Enters(c) PROVE FilesAgree'
    BY <1>1, <1>5 DEF Enters, pastVars
  <1>6. CASE Expires \/ Midnight \/ Restart
    BY <1>1, <1>6 DEF Expires, Midnight, Restart, queueVars, pastVars
  <1> QED
    BY <1>1, <1>3, <1>4, <1>5, <1>6, OutsideSteps DEF Next, Handles, queueVars

\* Whoever is about to pay for a token has closed it, is the only one, and has not been before.
Paying(c, t) == step[c] = "dated" /\ \E r \in req[c] : r.kind = "close" /\ r.token = t

PaysAgree ==
    \A t \in Tokens \ unwritten :
        /\ paid[t] <= 1 /\ \A a, b \in closed[t] : a = b
        /\ paid[t] = 1 \/ (\E c \in Callers : Paying(c, t)) =>
               closed[t] # {} /\ "denied" \notin closed[t]
        /\ \A c \in Callers : Paying(c, t) => paid[t] = 0
        /\ \A c, o \in Callers : Paying(c, t) /\ Paying(o, t) => c = o

LEMMA PaysStep == ASSUME Types, GatesAgree, QueuesAgree, PaysAgree, Next PROVE PaysAgree'
  <1>0. /\ HandlerTypes /\ step \in [Callers -> Steps] /\ paid \in [Tokens -> Nat]
        /\ closed \in [Tokens -> SUBSET {"approved", "denied", "redeemed"}]
    BY DEF Types, HandlerTypes, TokenTypes
  <1>1. ASSUME UNCHANGED <<paid, closed, unwritten>>,
               \A c \in Callers, t \in Tokens : Paying(c, t)' => Paying(c, t)
        PROVE  PaysAgree'
    BY <1>1 DEF PaysAgree
  <1>2. ASSUME NEW c \in Callers, UNCHANGED <<paid, closed, unwritten>>,
               step'[c] = "dated" => \A r \in req'[c] : r.kind # "close",
               \A o \in Callers \ {c} : step'[o] = step[o] /\ req'[o] = req[o]
        PROVE  PaysAgree'
    BY <1>1, <1>2 DEF Paying
  \* A token whose line could not be written is one less to speak of.
  <1>2a. ASSUME unwritten \subseteq unwritten', UNCHANGED <<paid, closed>>,
                \A c \in Callers, t \in Tokens : Paying(c, t)' => Paying(c, t)
         PROVE  PaysAgree'
    BY <1>2a DEF PaysAgree
  <1>3. ASSUME NEW c \in Callers, ReadsToday(c) PROVE PaysAgree'
    <2>1. \A r \in req[c] : r.kind = "gift"
      BY <1>0, <1>3, OneRequest DEF ReadsToday
    <2> QED
      BY <1>0, <1>2, <1>3, <2>1 DEF ReadsToday, Moves, pastVars
  <1>4. ASSUME NEW c \in Callers,
               \/ \E r \in Requests : Asks(c, r)
               \/ Replays(c) \/ TurnedAway(c) \/ NotSaved(c) \/ Remembers(c) \/ LeavesUnanswered(c)
        PROVE  PaysAgree'
    <2>1. step'[c] # "dated" /\ UNCHANGED <<paid, closed, unwritten>>
      <3>1. CASE (\E r \in Requests : Asks(c, r)) \/ Remembers(c)
        BY <1>0, <3>1 DEF Asks, Remembers, pastVars
      <3>2. CASE Replays(c)
        BY <1>0, <3>2 DEF Replays, Moves, Ends, pastVars
      <3>3. CASE TurnedAway(c) \/ NotSaved(c) \/ LeavesUnanswered(c)
        BY <1>0, <3>3 DEF TurnedAway, NotSaved, LeavesUnanswered, Ends, pastVars
      <3> QED
        BY <1>4, <3>1, <3>2, <3>3
    <2>2. \A o \in Callers \ {c} : step'[o] = step[o] /\ req'[o] = req[o]
      BY <1>4, OutsideSteps
    <2> QED
      BY <1>2, <2>1, <2>2
  <1>5. ASSUME NEW c \in Callers, Enters(c) \/ Opens(c) PROVE PaysAgree'
    <2>1. unwritten \subseteq unwritten' /\ UNCHANGED <<paid, closed>>
      BY <1>5 DEF Enters, Opens, Writes, pastVars
    <2>2. \A o \in Callers, t \in Tokens : Paying(o, t)' => Paying(o, t)
      <3>1. step'[c] # "dated" /\ \A o \in Callers \ {c} : step'[o] = step[o] /\ req'[o] = req[o]
        BY <1>0, <1>5 DEF Enters, Opens, Moves, Ends, HandlerTypes
      <3> QED
        BY <3>1 DEF Paying
    <2> QED
      BY <1>2a, <2>1, <2>2
  <1>6. ASSUME NEW c \in Callers, Closes(c) PROVE PaysAgree'
    <2>1. PICK r \in req[c] :
             /\ r.kind = "close" /\ step[c] = "inside"
             /\ step' = [step EXCEPT ![c] = IF r.as = "denied" THEN "ok" ELSE "dated"]
             /\ closed' = [closed EXCEPT ![r.token] = @ \union {r.as}]
      BY <1>6 DEF Closes, Moves
    <2>2. req' = req /\ paid' = paid
      BY <1>6 DEF Closes, Moves
    <2>3. r \in Requests /\ req[c] = {r}
      BY <1>0, OneRequest
    <2>4. r.token \in Tokens /\ QueueIn(r) = QueueOf[r.token]
      BY <2>1, <2>3, RequestTypes
    <2>5. unwritten \subseteq unwritten'
      BY <1>6, <2>1 DEF Closes, Writes
    <2>6. ASSUME r.token \notin unwritten
          PROVE  closed[r.token] = {} /\ paid[r.token] = 0 /\ \A o \in Callers : ~Paying(o, r.token)
      <3>0. closed[r.token] = {}
        BY <2>1, <2>4, <2>6 DEF QueuesAgree
      <3>1. paid[r.token] <= 1 /\ paid[r.token] # 1 /\ paid[r.token] \in Nat
        BY <1>0, <2>4, <2>6, <3>0 DEF PaysAgree
      <3>2. \A o \in Callers : ~Paying(o, r.token)
        BY <2>4, <2>6, <3>0 DEF PaysAgree
      <3> QED
        BY <3>0, <3>1, <3>2
    <2>7. /\ closed'[r.token] = closed[r.token] \union {r.as}
          /\ \A u \in Tokens \ {r.token} : closed'[u] = closed[u]
      BY <1>0, <2>1, <2>4
    <2>8. \A o \in Callers, u \in Tokens :
              Paying(o, u)' => IF o = c THEN u = r.token /\ r.as # "denied" ELSE Paying(o, u)
      BY <1>0, <2>1, <2>2, <2>3 DEF Paying
    <2>9. ASSUME NEW u \in Tokens \ unwritten'
          PROVE  /\ paid'[u] <= 1 /\ \A a, b \in closed'[u] : a = b
                 /\ paid'[u] = 1 \/ (\E o \in Callers : Paying(o, u)') =>
                       closed'[u] # {} /\ "denied" \notin closed'[u]
                 /\ \A o \in Callers : Paying(o, u)' => paid'[u] = 0
                 /\ \A o, p \in Callers : Paying(o, u)' /\ Paying(p, u)' => o = p
      <3>1. CASE u = r.token
        <4>1. r.token \notin unwritten
          BY <2>5, <2>9, <3>1
        <4>2. closed'[u] = {r.as} /\ paid'[u] = 0 /\ \A o \in Callers : ~Paying(o, u)
          BY <2>2, <2>6, <2>7, <3>1, <4>1
        <4> QED
          BY <2>8, <3>1, <4>2
      <3>2. CASE u # r.token
        BY <2>2, <2>5, <2>7, <2>8, <2>9, <3>2 DEF PaysAgree
      <3> QED
        BY <3>1, <3>2
    <2> QED
      BY <2>9 DEF PaysAgree
  <1>7. ASSUME NEW c \in Callers, Adds(c) PROVE PaysAgree'
    <2>1. PICK r \in req[c] : paid' = IF r.kind = "close" THEN [paid EXCEPT ![r.token] = @ + 1] ELSE paid
      BY <1>7 DEF Adds
    <2>2. step[c] = "dated" /\ step'[c] # "dated" /\ closed' = closed /\ unwritten' = unwritten
      BY <1>0, <1>7 DEF Adds, Moves
    <2>3. \A o \in Callers \ {c} : step'[o] = step[o] /\ req'[o] = req[o]
      BY <1>7, OutsideSteps
    <2>4. \A o \in Callers, u \in Tokens : Paying(o, u)' => o # c /\ Paying(o, u)
      BY <2>2, <2>3 DEF Paying
    <2>5. CASE r.kind # "close"
      BY <1>1, <2>1, <2>2, <2>4, <2>5
    <2>6. CASE r.kind = "close"
      <3>1. r.token \in Tokens
        BY <1>0, <2>6, OneRequest, RequestTypes
      <3>2. Paying(c, r.token)
        BY <2>2, <2>6 DEF Paying
      <3>3. ASSUME r.token \notin unwritten
            PROVE  /\ paid[r.token] = 0 /\ closed[r.token] # {} /\ "denied" \notin closed[r.token]
                   /\ \A o \in Callers \ {c} : ~Paying(o, r.token)
        BY <3>1, <3>2, <3>3 DEF PaysAgree
      <3>4. paid'[r.token] = paid[r.token] + 1 /\ \A u \in Tokens \ {r.token} : paid'[u] = paid[u]
        BY <1>0, <2>1, <2>6, <3>1
      <3>5. ASSUME NEW u \in Tokens \ unwritten
            PROVE  /\ paid'[u] <= 1 /\ \A a, b \in closed'[u] : a = b
                   /\ paid'[u] = 1 \/ (\E o \in Callers : Paying(o, u)') =>
                         closed'[u] # {} /\ "denied" \notin closed'[u]
                   /\ \A o \in Callers : Paying(o, u)' => paid'[u] = 0
                   /\ \A o, p \in Callers : Paying(o, u)' /\ Paying(p, u)' => o = p
        <4>1. CASE u = r.token
          <5>1. paid'[u] = 1 /\ \A o \in Callers : ~Paying(o, u)'
            BY <2>4, <3>3, <3>4, <3>5, <4>1
          <5> QED
            BY <2>2, <3>3, <3>5, <4>1, <5>1 DEF PaysAgree
        <4>2. CASE u # r.token
          BY <2>2, <2>4, <3>4, <3>5, <4>2 DEF PaysAgree
        <4> QED
          BY <4>1, <4>2
      <3> QED
        BY <2>2, <3>5 DEF PaysAgree
    <2> QED
      BY <2>5, <2>6
  <1>8. CASE Expires \/ Midnight
    BY <1>1, <1>8 DEF Expires, Midnight, handlerVars, pastVars, Paying
  <1>9. CASE Restart
    BY <1>1, <1>9 DEF Restart, Paying
  <1> QED
    BY <1>3, <1>4, <1>5, <1>6, <1>7, <1>8, <1>9 DEF Next, Handles

\* Nothing is granted for a day to come, and for each day no more is there than was.
DaysAgree ==
    /\ \A c \in Callers : \A d \in day[c] : d <= today
    /\ \A d \in Dates : /\ ForDay(extra, d) <= given[d]
                        /\ d > today => given[d] = 0 /\ extra.date # {d}
    /\ today \notin straddled => ForDay(extra, today) = given[today]

LEMMA DaysStep == ASSUME Types, AskedAgrees, DaysAgree, Next PROVE DaysAgree'
  <1>0. /\ HandlerTypes /\ step \in [Callers -> Steps] /\ day \in [Callers -> Option(Dates)]
        /\ today \in Nat /\ today \in Dates /\ given \in [Dates -> Nat]
        /\ extra \in [date : Option(Dates), minutes : Nat]
    BY DatesAssumption DEF Types, HandlerTypes, GrantTypes
  <1>1. ASSUME NEW c \in Callers, UNCHANGED <<today, extra, given, straddled>>,
               \A d \in day'[c] : d = today \/ d \in day[c],
               \A o \in Callers \ {c} : day'[o] = day[o]
        PROVE  DaysAgree'
    <2>1. ASSUME NEW o \in Callers, NEW d \in day'[o] PROVE d <= today
      <3>1. CASE d = today
        BY <1>0, <3>1
      <3>2. CASE d \in day[o]
        BY <3>2 DEF DaysAgree
      <3> QED
        BY <1>1, <3>1, <3>2
    <2> QED
      BY <1>1, <2>1 DEF DaysAgree
  <1>2. ASSUME NEW c \in Callers,
               (\E r \in Requests : Asks(c, r)) \/ Remembers(c)
        PROVE  DaysAgree'
    BY <1>1, <1>2 DEF Asks, Remembers, pastVars
  <1>3. ASSUME NEW c \in Callers, Replays(c) \/ ReadsToday(c) \/ Enters(c) \/ Closes(c)
        PROVE  DaysAgree'
    BY <1>0, <1>1, <1>3 DEF Replays, ReadsToday, Enters, Closes, Moves, Ends, pastVars
  <1>4. ASSUME NEW c \in Callers,
               TurnedAway(c) \/ Opens(c) \/ NotSaved(c) \/ LeavesUnanswered(c)
        PROVE  DaysAgree'
    BY <1>0, <1>1, <1>4 DEF TurnedAway, Opens, NotSaved, LeavesUnanswered, Ends, pastVars
  <1>5. ASSUME NEW c \in Callers, Adds(c) PROVE DaysAgree'
    <2>1. PICK r \in req[c], d \in day[c] :
             /\ Moves(c, "dated", IF KeyOf(r) = {} THEN "ok" ELSE "granted")
             /\ extra' = Add(extra, d, MinutesIn(r))
             /\ given' = [given EXCEPT ![d] = @ + MinutesIn(r)]
             /\ straddled' = straddled \union ({today} \ {d})
      BY <1>5 DEF Adds
    <2>2. MinutesIn(r) \in Nat /\ today' = today
      BY <1>0, <1>5, <2>1, OneRequest, RequestTypes DEF Moves, AskedAgrees, Adds
    <2>3. d \in Dates /\ d \in Nat /\ d <= today
      <3>1. day[c] = {} \/ \E x \in Dates : day[c] = {x}
        <4>1. day[c] \in Option(Dates)
          BY <1>0
        <4> QED
          BY <4>1 DEF Option
      <3> QED
        BY <3>1, DatesAssumption DEF DaysAgree
    <2>4. \A o \in Callers : \A x \in day'[o] : x <= today
      <3>1. day' = [day EXCEPT ![c] = {}]
        BY <2>1 DEF Moves
      <3> QED
        BY <1>0, <3>1 DEF DaysAgree
    <2>5. /\ given'[d] = given[d] + MinutesIn(r) /\ \A x \in Dates \ {d} : given'[x] = given[x]
          /\ extra'.date = {d} /\ ForDay(extra', d) = ForDay(extra, d) + MinutesIn(r)
          /\ \A x \in Dates \ {d} : ForDay(extra', x) = 0
      BY <1>0, <2>1, <2>3 DEF Add, ForDay
    <2>6. ForDay(extra, d) \in Nat /\ given[d] \in Nat
      BY <1>0, <2>3 DEF ForDay
    <2>7. ASSUME NEW x \in Dates
          PROVE  ForDay(extra', x) <= given'[x] /\ (x > today => given'[x] = 0 /\ extra'.date # {x})
      <3>1. CASE x = d
        BY <1>0, <2>2, <2>3, <2>5, <2>6, <3>1 DEF DaysAgree
      <3>2. CASE x # d
        <4>1. ForDay(extra', x) = 0 /\ given'[x] = given[x] /\ extra'.date # {x}
          BY <2>5, <3>2
        <4>2. given[x] \in Nat /\ (x > today => given[x] = 0)
          BY <1>0 DEF DaysAgree
        <4> QED
          BY <4>1, <4>2
      <3> QED
        BY <3>1, <3>2
    <2>8. ASSUME today \notin straddled' PROVE ForDay(extra', today) = given'[today]
      <3>1. d = today /\ today \notin straddled
        BY <2>1, <2>8
      <3> QED
        BY <2>5, <3>1 DEF DaysAgree
    <2> QED
      BY <2>2, <2>4, <2>7, <2>8 DEF DaysAgree
  <1>6. CASE Midnight
    <2>1. today' = today + 1 /\ today' \in Dates /\ UNCHANGED <<extra, given, straddled, day>>
      BY <1>6 DEF Midnight, handlerVars, pastVars
    <2>2. \A d \in Dates : d > today' => d > today
      BY <1>0, <2>1, DatesAssumption
    <2>3. given[today'] = 0 /\ extra.date # {today'}
      BY <1>0, <2>1 DEF DaysAgree
    <2>4. \A c \in Callers : \A d \in day[c] : d <= today'
      <3>1. ASSUME NEW c \in Callers, NEW d \in day[c] PROVE d <= today'
        <4>1. day[c] = {} \/ \E x \in Dates : day[c] = {x}
          <5>1. day[c] \in Option(Dates)
            BY <1>0
          <5> QED
            BY <5>1 DEF Option
        <4>2. d \in Nat /\ d <= today
          BY <4>1, DatesAssumption DEF DaysAgree
        <4> QED
          BY <1>0, <2>1, <4>2
      <3> QED
        BY <3>1
    <2> QED
      BY <2>1, <2>2, <2>3, <2>4 DEF DaysAgree, ForDay
  <1>7. CASE Expires
    BY <1>7 DEF Expires, DaysAgree
  <1>8. CASE Restart
    BY <1>8 DEF Restart, DaysAgree
  <1> QED
    BY <1>2, <1>3, <1>4, <1>5, <1>6, <1>7, <1>8 DEF Next, Handles

-----------------------------------------------------------------------------
(* The replay cache. *)

Entries == [key : Keys, minutes : Gifts]

ReplayTypes ==
    /\ replays \in Seq([key : Keys, minutes : Gifts]) /\ Len(replays) <= MaxEntries
    /\ since \in [Keys -> 0 .. MaxEntries] /\ retry \in [Callers -> BOOLEAN]

\* A key is found until MaxEntries others have come, and its retries are not past the cache.
KeysAgree ==
    /\ \A k \in Keys : since[k] < MaxEntries =>
           \E i \in DOMAIN replays : replays[i].key = k /\ Len(replays) - i <= since[k]
    /\ \A c \in Callers : retry[c] =>
           step[c] \notin {"dated", "granted"} /\ \E r \in req[c] : IsRetry(r)

LEMMA EntryTypes ==
    ASSUME ReplayTypes
    PROVE  /\ replays \in Seq(Entries) /\ Len(replays) \in Nat /\ DOMAIN replays = 1 .. Len(replays)
           /\ Len(replays) <= MaxEntries /\ MaxEntries \in Nat \ {0}
  BY BoundsAssumption DEF ReplayTypes, Entries

\* Without its first entry, the others are as far from its end as they were.
LEMMA TailEntries ==
    ASSUME NEW entries \in Seq(Entries), entries # <<>>
    PROVE  /\ Tail(entries) \in Seq(Entries) /\ Len(Tail(entries)) = Len(entries) - 1
           /\ \A i \in 2 .. Len(entries) : /\ i - 1 \in DOMAIN Tail(entries)
                                           /\ Tail(entries)[i - 1] = entries[i]
  OBVIOUS

\* Without a key the entries of the others are there, and no further from the end.
LEMMA WithoutEntries ==
    ASSUME NEW entries \in Seq(Entries), NEW key
    PROVE  /\ Without(entries, key) \in Seq(Entries) /\ Len(Without(entries, key)) <= Len(entries)
           /\ \A i \in DOMAIN entries : entries[i].key # key =>
                  \E j \in DOMAIN Without(entries, key) :
                     /\ Without(entries, key)[j] = entries[i]
                     /\ Len(Without(entries, key)) - j <= Len(entries) - i
  <1> DEFINE has == {i \in DOMAIN entries : entries[i].key = key}
  <1>0. Len(entries) \in Nat /\ DOMAIN entries = 1 .. Len(entries)
    OBVIOUS
  <1>1. CASE has = {}
    <2>1. Without(entries, key) = entries
      BY <1>1 DEF Without
    <2> QED
      BY <1>0, <2>1
  <1>2. CASE has # {}
    <2> DEFINE at == CHOOSE i \in has : TRUE
               before == SubSeq(entries, 1, at - 1)
               after == SubSeq(entries, at + 1, Len(entries))
    <2>1. at \in 1 .. Len(entries) /\ entries[at].key = key
      <3>1. at \in has
        BY <1>2
      <3> QED
        BY <1>0, <3>1
    <2>2. Without(entries, key) = before \o after
      BY <1>2 DEF Without
    <2> HIDE DEF at
    <2>3. /\ before \in Seq(Entries) /\ Len(before) = at - 1
          /\ \A i \in 1 .. at - 1 : before[i] = entries[i]
      <3>1. 1 \in Int /\ at - 1 \in Int /\ at - 1 \in 0 .. Len(entries)
        BY <1>0, <2>1
      <3>2. \A i \in 1 .. at - 1 : entries[i] \in Entries
        BY <1>0, <3>1
      <3>3. /\ before \in Seq(Entries)
            /\ Len(before) = IF 1 <= at - 1 THEN (at - 1) - 1 + 1 ELSE 0
            /\ \A i \in 1 .. (at - 1) - 1 + 1 : before[i] = entries[1 + i - 1]
        BY <3>1, <3>2, SubSeqProperties
      <3> HIDE DEF before
      <3>4. Len(before) = at - 1
        BY <3>1, <3>3
      <3>5. ASSUME NEW i \in 1 .. at - 1 PROVE before[i] = entries[i]
        <4>1. i \in 1 .. (at - 1) - 1 + 1 /\ 1 + i - 1 = i
          BY <3>1
        <4> QED
          BY <3>3, <4>1
      <3> QED
        BY <3>3, <3>4, <3>5
    <2>4. /\ after \in Seq(Entries) /\ Len(after) = Len(entries) - at
          /\ \A i \in 1 .. Len(entries) - at : after[i] = entries[at + i]
      <3>1. at + 1 \in Int /\ Len(entries) \in Int /\ at \in 1 .. Len(entries)
        BY <1>0, <2>1
      <3>2. \A i \in at + 1 .. Len(entries) : entries[i] \in Entries
        BY <1>0, <3>1
      <3>3. /\ after \in Seq(Entries)
            /\ Len(after) = IF at + 1 <= Len(entries) THEN Len(entries) - (at + 1) + 1 ELSE 0
            /\ \A i \in 1 .. Len(entries) - (at + 1) + 1 : after[i] = entries[(at + 1) + i - 1]
        BY <3>1, <3>2, SubSeqProperties
      <3> HIDE DEF after
      <3>4. Len(after) = Len(entries) - at
        BY <3>1, <3>3
      <3>5. ASSUME NEW i \in 1 .. Len(entries) - at PROVE after[i] = entries[at + i]
        <4>1. i \in 1 .. Len(entries) - (at + 1) + 1 /\ (at + 1) + i - 1 = at + i
          BY <3>1
        <4> QED
          BY <3>3, <4>1
      <3> QED
        BY <3>3, <3>4, <3>5
    <2> HIDE DEF before, after
    <2> DEFINE rest == before \o after
    <2>5. /\ rest \in Seq(Entries) /\ Len(rest) = Len(entries) - 1
          /\ DOMAIN rest = 1 .. Len(entries) - 1
          /\ \A j \in 1 .. Len(entries) - 1 :
                 rest[j] = IF j <= at - 1 THEN before[j] ELSE after[j - (at - 1)]
      <3>1. /\ rest \in Seq(Entries) /\ Len(rest) = Len(before) + Len(after)
            /\ \A j \in 1 .. Len(before) + Len(after) :
                   rest[j] = IF j <= Len(before) THEN before[j] ELSE after[j - Len(before)]
        BY <2>3, <2>4, ConcatProperties
      <3>2. Len(before) + Len(after) = Len(entries) - 1
        BY <1>0, <2>1, <2>3, <2>4
      <3> HIDE DEF rest
      <3>3. DOMAIN rest = 1 .. Len(rest)
        BY <3>1
      <3> QED
        BY <2>3, <3>1, <3>2, <3>3
    <2> HIDE DEF rest
    <2>6. ASSUME NEW i \in DOMAIN entries, entries[i].key # key
          PROVE  \E j \in DOMAIN rest : rest[j] = entries[i] /\ Len(rest) - j <= Len(entries) - i
      <3>1. i # at /\ i \in 1 .. Len(entries)
        BY <1>0, <2>1, <2>6
      <3>2. CASE i < at
        <4>1. i \in 1 .. Len(entries) - 1 /\ i <= at - 1 /\ i \in 1 .. at - 1
          BY <1>0, <2>1, <3>1, <3>2
        <4>2. rest[i] = entries[i]
          BY <2>3, <2>5, <4>1
        <4>3. Len(rest) - i <= Len(entries) - i
          BY <1>0, <2>5, <3>1
        <4> QED
          BY <2>5, <4>1, <4>2, <4>3
      <3>3. CASE i > at
        <4>1. /\ i - 1 \in 1 .. Len(entries) - 1 /\ i - at \in 1 .. Len(entries) - at
              /\ ~(i - 1 <= at - 1) /\ (i - 1) - (at - 1) = i - at /\ at + (i - at) = i
          BY <1>0, <2>1, <3>1, <3>3
        <4>2. rest[i - 1] = after[i - at]
          BY <2>5, <4>1
        <4>3. after[i - at] = entries[i]
          BY <2>4, <4>1
        <4>4. Len(rest) - (i - 1) <= Len(entries) - i
          BY <1>0, <2>5, <3>1
        <4> QED
          BY <2>5, <4>1, <4>2, <4>3, <4>4
      <3> QED
        BY <1>0, <2>1, <3>1, <3>2, <3>3
    <2>7. Without(entries, key) = rest
      BY <2>2 DEF rest
    <2>8. Len(rest) <= Len(entries)
      BY <1>0, <2>5
    <2> QED
      BY <2>5, <2>6, <2>7, <2>8
  <1> QED
    BY <1>1, <1>2

\* An answer remembered is the newest, and moves the others away from the end by one at most, but for
\* the one that makes room.
LEMMA RememberedEntries ==
    ASSUME Types, ReplayTypes, NEW c \in Callers, Remembers(c)
    PROVE  \E k \in Keys :
             /\ since' = [x \in Keys |-> IF x = k THEN 0
                                       ELSE IF since[x] < MaxEntries THEN since[x] + 1 ELSE since[x]]
             /\ replays' \in Seq(Entries) /\ Len(replays') \in 1 .. MaxEntries
             /\ replays'[Len(replays')].key = k
             /\ \A i \in DOMAIN replays :
                   replays[i].key # k /\ Len(replays) - i < MaxEntries - 1 =>
                       \E j \in DOMAIN replays' : /\ replays'[j].key = replays[i].key
                                                 /\ Len(replays') - j <= Len(replays) - i + 1
  <1>0. /\ replays \in Seq(Entries) /\ Len(replays) \in Nat /\ DOMAIN replays = 1 .. Len(replays)
        /\ Len(replays) <= MaxEntries /\ MaxEntries \in Nat \ {0}
    BY EntryTypes
  <1> DEFINE room == IF Len(replays) >= MaxEntries THEN Tail(replays) ELSE replays
  <1>1. PICK r \in req[c] : \E k \in KeyOf(r) :
             /\ replays' = Append(Without(room, k), [key |-> k, minutes |-> r.minutes])
             /\ since' = [x \in Keys |-> IF x = k THEN 0
                                       ELSE IF since[x] < MaxEntries THEN since[x] + 1 ELSE since[x]]
    BY DEF Remembers
  <1>2. PICK k \in KeyOf(r) :
             /\ replays' = Append(Without(room, k), [key |-> k, minutes |-> r.minutes])
             /\ since' = [x \in Keys |-> IF x = k THEN 0
                                       ELSE IF since[x] < MaxEntries THEN since[x] + 1 ELSE since[x]]
    BY <1>1
  <1>3. k \in Keys /\ r.minutes \in Gifts
    <2>1. r \in Requests
      BY OneRequest DEF Types
    <2>2. r.kind = "gift"
      BY <1>2 DEF KeyOf
    <2>3. KeyOf(r) = {} \/ \E x \in Keys : KeyOf(r) = {x}
      <3>1. KeyOf(r) \in Option(Keys)
        BY <2>1, <2>2, RequestTypes
      <3> QED
        BY <3>1 DEF Option
    <2> QED
      BY <1>2, <2>1, <2>2, <2>3, RequestTypes
  <1> DEFINE entry == [key |-> k, minutes |-> r.minutes]
  <1>4. entry \in Entries /\ entry.key = k
    BY <1>3 DEF Entries
  <1>5. /\ room \in Seq(Entries) /\ Len(room) \in Nat /\ Len(room) <= MaxEntries - 1
        /\ \A i \in DOMAIN replays : Len(replays) - i < MaxEntries - 1 =>
              \E j \in DOMAIN room : room[j] = replays[i] /\ Len(room) - j = Len(replays) - i
    <2>1. CASE Len(replays) >= MaxEntries
      <3>1. replays # <<>> /\ room = Tail(replays) /\ Len(replays) = MaxEntries
        <4>1. Len(replays) = MaxEntries /\ Len(replays) # 0
          <5>1. Len(replays) <= MaxEntries /\ Len(replays) \in Nat /\ MaxEntries \in Nat /\ MaxEntries # 0
            BY <1>0
          <5> QED
            BY <2>1, <5>1
        <4>2. replays # <<>>
          BY <4>1, EmptySeq
        <4> QED
          BY <2>1, <4>1, <4>2
      <3>2. /\ room \in Seq(Entries) /\ Len(room) = Len(replays) - 1
            /\ \A i \in 2 .. Len(replays) : i - 1 \in DOMAIN room /\ room[i - 1] = replays[i]
        BY <1>0, <3>1, TailEntries
      <3> HIDE DEF room
      <3>3. ASSUME NEW i \in DOMAIN replays, Len(replays) - i < MaxEntries - 1
            PROVE  \E j \in DOMAIN room : room[j] = replays[i] /\ Len(room) - j = Len(replays) - i
        <4>1. i \in 2 .. Len(replays) /\ Len(room) - (i - 1) = Len(replays) - i
          BY <1>0, <3>1, <3>2, <3>3
        <4> QED
          BY <3>2, <4>1
      <3> QED
        BY <1>0, <3>1, <3>2, <3>3
    <2>2. CASE Len(replays) < MaxEntries
      <3>1. room = replays
        <4>1. ~(Len(replays) >= MaxEntries)
          BY <1>0, <2>2
        <4> QED
          BY <4>1
      <3> HIDE DEF room
      <3> QED
        BY <1>0, <2>2, <3>1
    <2> QED
      BY <1>0, <2>1, <2>2
  <1> HIDE DEF room
  <1> DEFINE rest == Without(room, k)
  <1>6. /\ rest \in Seq(Entries) /\ Len(rest) <= Len(room)
        /\ \A i \in DOMAIN room : room[i].key # k =>
              \E j \in DOMAIN rest : rest[j] = room[i] /\ Len(rest) - j <= Len(room) - i
    BY <1>5, WithoutEntries
  <1>7. replays' = Append(rest, entry)
    BY <1>2
  <1> HIDE DEF rest, entry
  <1>8. Len(rest) \in Nat /\ DOMAIN rest = 1 .. Len(rest)
    BY <1>6
  <1>9. /\ replays' \in Seq(Entries) /\ Len(replays') = Len(rest) + 1
        /\ replays'[Len(rest) + 1] = entry /\ DOMAIN replays' = 1 .. Len(rest) + 1
        /\ \A j \in 1 .. Len(rest) : replays'[j] = rest[j]
    BY <1>4, <1>6, <1>7, <1>8
  <1>10. Len(replays') \in 1 .. MaxEntries
    BY <1>0, <1>5, <1>6, <1>8, <1>9
  <1>11. ASSUME NEW i \in DOMAIN replays, replays[i].key # k, Len(replays) - i < MaxEntries - 1
         PROVE  \E j \in DOMAIN replays' : /\ replays'[j].key = replays[i].key
                                          /\ Len(replays') - j <= Len(replays) - i + 1
    <2>1. PICK m \in DOMAIN room : room[m] = replays[i] /\ Len(room) - m = Len(replays) - i
      BY <1>5, <1>11
    <2>2. PICK j \in DOMAIN rest : rest[j] = room[m] /\ Len(rest) - j <= Len(room) - m
      BY <1>6, <1>11, <2>1
    <2>3. j \in DOMAIN replays' /\ replays'[j] = replays[i]
      BY <1>8, <1>9, <2>1, <2>2
    <2>4. Len(rest) + 1 - j <= Len(replays) - i + 1
      <3>1. Len(rest) - j <= Len(replays) - i
        BY <2>1, <2>2
      <3>2. j \in Nat /\ i \in Nat
        BY <1>0, <1>8
      <3> QED
        BY <1>0, <1>8, <3>1, <3>2
    <2> QED
      BY <1>9, <2>3, <2>4
  <1> QED
    BY <1>2, <1>3, <1>4, <1>9, <1>10, <1>11

\* What has gone from the cache is the first of it.
LEMMA ExpiredEntries ==
    ASSUME ReplayTypes, Expires
    PROVE  /\ replays' \in Seq(Entries) /\ Len(replays') = Len(replays) - 1
           /\ \A i \in DOMAIN replays : replays[i].key # replays[1].key =>
                 \E j \in DOMAIN replays' : /\ replays'[j] = replays[i]
                                           /\ Len(replays') - j = Len(replays) - i
           /\ since' = [since EXCEPT ![replays[1].key] = MaxEntries] /\ replays[1].key \in Keys
           /\ Len(replays) \in Nat \ {0}
  <1>0. /\ replays \in Seq(Entries) /\ Len(replays) \in Nat /\ DOMAIN replays = 1 .. Len(replays)
    BY EntryTypes
  <1>1. /\ replays # <<>> /\ replays' = Tail(replays)
        /\ since' = [since EXCEPT ![Head(replays).key] = MaxEntries]
    BY DEF Expires
  <1>2. Head(replays) = replays[1] /\ replays[1] \in Entries /\ Len(replays) # 0
    BY <1>0, <1>1
  <1>3. /\ replays' \in Seq(Entries) /\ Len(replays') = Len(replays) - 1
        /\ \A i \in 2 .. Len(replays) : i - 1 \in DOMAIN replays' /\ replays'[i - 1] = replays[i]
    BY <1>0, <1>1, TailEntries
  <1>4. ASSUME NEW i \in DOMAIN replays, replays[i].key # replays[1].key
        PROVE  \E j \in DOMAIN replays' : /\ replays'[j] = replays[i]
                                         /\ Len(replays') - j = Len(replays) - i
    <2>1. i \in 2 .. Len(replays)
      BY <1>0, <1>4
    <2>2. Len(replays') - (i - 1) = Len(replays) - i
      BY <1>0, <1>3, <2>1
    <2> QED
      BY <1>3, <2>1, <2>2
  <1> QED
    BY <1>0, <1>1, <1>2, <1>3, <1>4 DEF Entries

LEMMA ReplayStep == ASSUME Types, ReplayTypes, Next PROVE ReplayTypes'
  <1>0. /\ MaxEntries \in Nat \ {0} /\ retry \in [Callers -> BOOLEAN]
        /\ since \in [Keys -> 0 .. MaxEntries]
    BY EntryTypes DEF ReplayTypes
  <1>1. ASSUME UNCHANGED <<replays, since>>, retry' \in [Callers -> BOOLEAN] PROVE ReplayTypes'
    BY <1>1 DEF ReplayTypes
  <1>2. ASSUME NEW c \in Callers, NEW r \in Requests, Asks(c, r) PROVE ReplayTypes'
    <2>1. IsRetry(r) \in BOOLEAN
      BY DEF IsRetry
    <2>2. retry' \in [Callers -> BOOLEAN]
      BY <1>0, <1>2, <2>1 DEF Asks
    <2> QED
      BY <1>1, <1>2, <2>2 DEF Asks, pastVars
  <1>3. ASSUME NEW c \in Callers, NEW from, NEW to, Moves(c, from, to) \/ Ends(c, from)
        PROVE  retry' \in [Callers -> BOOLEAN]
    BY <1>0, <1>3 DEF Moves, Ends
  <1>4. ASSUME NEW c \in Callers,
               Replays(c) \/ ReadsToday(c) \/ Enters(c) \/ Closes(c) \/ Adds(c)
        PROVE  ReplayTypes'
    BY <1>1, <1>3, <1>4 DEF Replays, ReadsToday, Enters, Closes, Adds, pastVars
  <1>5. ASSUME NEW c \in Callers,
               TurnedAway(c) \/ Opens(c) \/ NotSaved(c) \/ LeavesUnanswered(c)
        PROVE  ReplayTypes'
    BY <1>1, <1>3, <1>5 DEF TurnedAway, Opens, NotSaved, LeavesUnanswered, pastVars
  <1>6. ASSUME OutlivesKeys PROVE retry' \in [Callers -> BOOLEAN]
    <2>1. \A c \in Callers : (retry[c] /\ \E r \in req[c] : IsRetry(r)') \in BOOLEAN
      OBVIOUS
    <2> QED
      BY <1>6, <2>1 DEF OutlivesKeys
  <1>7. ASSUME NEW c \in Callers, Remembers(c) PROVE ReplayTypes'
    <2>1. retry' \in [Callers -> BOOLEAN]
      BY <1>6, <1>7 DEF Remembers
    <2>2. PICK k \in Keys :
             /\ since' = [x \in Keys |-> IF x = k THEN 0
                                       ELSE IF since[x] < MaxEntries THEN since[x] + 1 ELSE since[x]]
             /\ replays' \in Seq(Entries) /\ Len(replays') \in 1 .. MaxEntries
      BY <1>7, RememberedEntries
    <2>3. since' \in [Keys -> 0 .. MaxEntries]
      BY <1>0, <2>2
    <2> QED
      BY <2>1, <2>2, <2>3 DEF ReplayTypes, Entries
  <1>8. CASE Expires
    <2>1. retry' \in [Callers -> BOOLEAN]
      BY <1>6, <1>8 DEF Expires
    <2>2. /\ replays' \in Seq(Entries) /\ Len(replays') = Len(replays) - 1
          /\ since' = [since EXCEPT ![replays[1].key] = MaxEntries] /\ Len(replays) \in Nat \ {0}
      BY <1>8, ExpiredEntries
    <2>3. since' \in [Keys -> 0 .. MaxEntries]
      <3>1. MaxEntries \in 0 .. MaxEntries /\ since \in [Keys -> 0 .. MaxEntries]
        BY <1>0
      <3> QED
        BY <2>2, <3>1
    <2>4. Len(replays') <= MaxEntries
      BY <1>0, <2>2, EntryTypes
    <2> QED
      BY <2>1, <2>2, <2>3, <2>4 DEF ReplayTypes, Entries
  <1>9. CASE Midnight
    BY <1>0, <1>1, <1>9 DEF Midnight, handlerVars, pastVars
  <1>10. CASE Restart
    <2>1. replays' = <<>> /\ retry' \in [Callers -> BOOLEAN] /\ since' = [k \in Keys |-> MaxEntries]
      BY <1>10 DEF Restart
    <2>2. since' \in [Keys -> 0 .. MaxEntries]
      BY <1>0, <2>1
    <2>3. replays' \in Seq(Entries) /\ Len(replays') <= MaxEntries
      BY <1>0, <2>1, EmptySeq
    <2> QED
      BY <2>1, <2>2, <2>3 DEF ReplayTypes, Entries
  <1> QED
    BY <1>2, <1>4, <1>5, <1>7, <1>8, <1>9, <1>10 DEF Next, Handles

LEMMA KeysStep == ASSUME Types, ReplayTypes, KeysAgree, Next PROVE KeysAgree'
  <1>0. /\ HandlerTypes /\ step \in [Callers -> Steps] /\ req \in [Callers -> Option(Requests)]
        /\ retry \in [Callers -> BOOLEAN] /\ since \in [Keys -> 0 .. MaxEntries]
        /\ MaxEntries \in Nat \ {0} /\ Len(replays) \in Nat /\ DOMAIN replays = 1 .. Len(replays)
    BY EntryTypes DEF Types, HandlerTypes, ReplayTypes
  \* What a handler does on its own.
  <1>1. ASSUME NEW c \in Callers, UNCHANGED <<replays, since>>,
               retry'[c] => step'[c] \notin {"dated", "granted"} /\ \E r \in req'[c] : IsRetry(r),
               \A o \in Callers \ {c} : UNCHANGED <<step[o], req[o], retry[o]>>
        PROVE  KeysAgree'
    <2>1. \A r : IsRetry(r)' = IsRetry(r)
      BY <1>1 DEF IsRetry
    <2> QED
      BY <1>1, <2>1 DEF KeysAgree
  <1>2. ASSUME NEW c \in Callers, NEW from, Ends(c, from), UNCHANGED <<replays, since>> PROVE KeysAgree'
    BY <1>0, <1>1, <1>2 DEF Ends
  <1>3. ASSUME NEW c \in Callers, NEW from, NEW to, Moves(c, from, to), UNCHANGED <<replays, since>>,
               retry[c] => to \notin {"dated", "granted"}
        PROVE  KeysAgree'
    <2>1. step' = [step EXCEPT ![c] = to] /\ UNCHANGED <<req, retry>>
      BY <1>3 DEF Moves
    <2>2. retry'[c] => step'[c] \notin {"dated", "granted"} /\ \E r \in req'[c] : IsRetry(r)
      BY <1>0, <1>3, <2>1 DEF KeysAgree
    <2> QED
      BY <1>0, <1>1, <1>3, <2>1, <2>2
  \* Retries are found.
  <1>4. ASSUME NEW c \in Callers, NEW r \in req[c], retry[c]
        PROVE  r.kind = "gift" /\ Kept(r.key) # {}
    <2>1. req[c] = {r} /\ r \in Requests
      BY <1>0, OneRequest
    <2>2. PICK k \in KeyOf(r) : since[k] < MaxEntries
      BY <1>4, <2>1 DEF KeysAgree, IsRetry
    <2>3. r.kind = "gift" /\ KeyOf(r) = r.key
      BY <2>2 DEF KeyOf
    <2>4. k \in Keys /\ r.key = {k}
      <3>1. KeyOf(r) \in Option(Keys)
        BY <2>1, <2>3, RequestTypes
      <3>2. KeyOf(r) = {} \/ \E x \in Keys : KeyOf(r) = {x}
        BY <3>1 DEF Option
      <3> QED
        BY <2>2, <2>3, <3>2
    <2>5. PICK i \in DOMAIN replays : replays[i].key = k
      BY <2>2, <2>4 DEF KeysAgree
    <2> QED
      BY <2>3, <2>4, <2>5 DEF Kept
  <1>5. ASSUME NEW c \in Callers, NEW r \in Requests, Asks(c, r) PROVE KeysAgree'
    BY <1>0, <1>1, <1>5 DEF Asks, pastVars
  <1>6. ASSUME NEW c \in Callers, Replays(c) PROVE KeysAgree'
    BY <1>2, <1>3, <1>6 DEF Replays, pastVars
  <1>7. ASSUME NEW c \in Callers, ReadsToday(c) PROVE KeysAgree'
    <2>1. ~retry[c]
      BY <1>4, <1>7 DEF ReadsToday
    <2> QED
      BY <1>3, <1>7, <2>1 DEF ReadsToday, pastVars
  <1>8. ASSUME NEW c \in Callers, Enters(c) PROVE KeysAgree'
    BY <1>3, <1>8 DEF Enters, pastVars
  <1>9. ASSUME NEW c \in Callers, Closes(c) PROVE KeysAgree'
    <2>1. PICK r \in req[c] : r.kind = "close" /\ Moves(c, "inside", IF r.as = "denied" THEN "ok" ELSE "dated")
      BY <1>9 DEF Closes
    <2>2. ~retry[c]
      BY <1>4, <2>1
    <2> QED
      BY <1>3, <1>9, <2>1, <2>2 DEF Closes
  <1>10. ASSUME NEW c \in Callers, Adds(c) PROVE KeysAgree'
    <2>1. ~retry[c]
      BY <1>10 DEF Adds, Moves, KeysAgree
    <2> QED
      BY <1>3, <1>10, <2>1 DEF Adds
  <1>11. ASSUME NEW c \in Callers,
                TurnedAway(c) \/ Opens(c) \/ NotSaved(c) \/ LeavesUnanswered(c)
         PROVE  KeysAgree'
    BY <1>2, <1>11 DEF TurnedAway, Opens, NotSaved, LeavesUnanswered, pastVars
  \* What the cache does.
  <1>12. ASSUME OutlivesKeys, UNCHANGED req,
                \A c \in Callers : step'[c] \in {"dated", "granted"} => step'[c] = step[c],
                \A k \in Keys : since'[k] < MaxEntries =>
                    \E i \in DOMAIN replays' : replays'[i].key = k /\ Len(replays') - i <= since'[k]
         PROVE  KeysAgree'
    <2>1. ASSUME NEW c \in Callers, retry'[c]
          PROVE  step'[c] \notin {"dated", "granted"} /\ \E r \in req'[c] : IsRetry(r)'
      <3>1. retry[c] /\ \E r \in req[c] : IsRetry(r)'
        BY <1>12, <2>1 DEF OutlivesKeys
      <3>2. step[c] \notin {"dated", "granted"}
        BY <3>1 DEF KeysAgree
      <3> QED
        BY <1>12, <3>1, <3>2
    <2> QED
      BY <1>12, <2>1 DEF KeysAgree
  <1>13. ASSUME NEW c \in Callers, Remembers(c) PROVE KeysAgree'
    <2>1. PICK k \in Keys :
             /\ since' = [x \in Keys |-> IF x = k THEN 0
                                       ELSE IF since[x] < MaxEntries THEN since[x] + 1 ELSE since[x]]
             /\ replays' \in Seq(Entries) /\ Len(replays') \in 1 .. MaxEntries
             /\ replays'[Len(replays')].key = k
             /\ \A i \in DOMAIN replays :
                   replays[i].key # k /\ Len(replays) - i < MaxEntries - 1 =>
                       \E j \in DOMAIN replays' : /\ replays'[j].key = replays[i].key
                                                 /\ Len(replays') - j <= Len(replays) - i + 1
      BY <1>13, RememberedEntries
    <2>2. DOMAIN replays' = 1 .. Len(replays')
      BY <2>1
    <2>3. ASSUME NEW x \in Keys, since'[x] < MaxEntries
          PROVE  \E i \in DOMAIN replays' : replays'[i].key = x /\ Len(replays') - i <= since'[x]
      <3>1. CASE x = k
        <4>1. Len(replays') \in DOMAIN replays' /\ Len(replays') - Len(replays') <= since'[x]
          BY <1>0, <2>1, <2>2, <3>1
        <4> QED
          BY <2>1, <3>1, <4>1
      <3>2. CASE x # k
        <4>1. since[x] < MaxEntries - 1 /\ since'[x] = since[x] + 1 /\ since[x] \in Nat
          <5>1. since[x] \in 0 .. MaxEntries
            BY <1>0
          <5>2. since'[x] = IF since[x] < MaxEntries THEN since[x] + 1 ELSE since[x]
            BY <2>1, <3>2
          <5> QED
            BY <1>0, <2>3, <5>1, <5>2
        <4>2. since[x] < MaxEntries
          BY <1>0, <4>1
        <4>3. PICK i \in DOMAIN replays : replays[i].key = x /\ Len(replays) - i <= since[x]
          BY <4>2 DEF KeysAgree
        <4>4. Len(replays) - i < MaxEntries - 1
          BY <1>0, <4>1, <4>3
        <4>5. PICK j \in DOMAIN replays' : /\ replays'[j].key = x
                                          /\ Len(replays') - j <= Len(replays) - i + 1
          BY <2>1, <3>2, <4>3, <4>4
        <4>6. Len(replays') - j <= since'[x]
          BY <1>0, <2>1, <2>2, <4>1, <4>3, <4>5
        <4> QED
          BY <4>5, <4>6
      <3> QED
        BY <3>1, <3>2
    <2>4. /\ OutlivesKeys /\ UNCHANGED req
          /\ \A o \in Callers : step'[o] \in {"dated", "granted"} => step'[o] = step[o]
      BY <1>0, <1>13 DEF Remembers
    <2> QED
      BY <1>12, <2>3, <2>4
  <1>14. CASE Expires
    <2>1. /\ replays' \in Seq(Entries) /\ Len(replays') = Len(replays) - 1
          /\ \A i \in DOMAIN replays : replays[i].key # replays[1].key =>
                \E j \in DOMAIN replays' : /\ replays'[j] = replays[i]
                                          /\ Len(replays') - j = Len(replays) - i
          /\ since' = [since EXCEPT ![replays[1].key] = MaxEntries] /\ replays[1].key \in Keys
      BY <1>14, ExpiredEntries
    <2>2. ASSUME NEW x \in Keys, since'[x] < MaxEntries
          PROVE  \E i \in DOMAIN replays' : replays'[i].key = x /\ Len(replays') - i <= since'[x]
      <3>1. x # replays[1].key /\ since'[x] = since[x]
        <4>1. CASE x = replays[1].key
          BY <1>0, <2>1, <2>2, <4>1
        <4>2. CASE x # replays[1].key
          BY <1>0, <2>1, <4>2
        <4> QED
          BY <4>1, <4>2
      <3>2. PICK i \in DOMAIN replays : replays[i].key = x /\ Len(replays) - i <= since[x]
        BY <2>2, <3>1 DEF KeysAgree
      <3> QED
        BY <2>1, <3>1, <3>2
    <2> QED
      BY <1>12, <1>14, <2>2 DEF Expires
  <1>15. CASE Midnight
    BY <1>15 DEF Midnight, handlerVars, pastVars, KeysAgree, IsRetry
  <1>16. CASE Restart
    <2>1. \A k \in Keys : ~(since'[k] < MaxEntries)
      BY <1>0, <1>16 DEF Restart
    <2>2. \A c \in Callers : ~retry'[c]
      BY <1>16 DEF Restart
    <2> QED
      BY <2>1, <2>2 DEF KeysAgree
  <1> QED
    BY <1>5, <1>6, <1>7, <1>8, <1>9, <1>10, <1>11, <1>13, <1>14, <1>15, <1>16 DEF Next, Handles

-----------------------------------------------------------------------------
(* The theorems. *)

IInv ==
    /\ Types /\ AskedAgrees /\ GatesAgree /\ QueuesAgree /\ FilesAgree /\ PaysAgree /\ DaysAgree
    /\ ReplayTypes /\ KeysAgree

LEMMA InitAgrees == Init => IInv
  <1> SUFFICES ASSUME Init PROVE IInv
    OBVIOUS
  <1> USE DEF Init
  <1>1. Types
    BY InitTypes
  <1>2. AskedAgrees /\ GatesAgree
    BY DEF AskedAgrees, GatesAgree
  <1>3. QueuesAgree
    BY KeptLines DEF QueuesAgree, Mentions, EmptyLog
  <1>4. PaysAgree
    BY DEF PaysAgree, Paying
  <1>5. DaysAgree
    BY DatesAssumption DEF DaysAgree, ForDay, Option
  <1>6. FilesAgree
    BY KeptLines DEF FilesAgree, NewestAbout, About, Recent, EmptyLog
  <1>7. ReplayTypes /\ KeysAgree
    <2>1. MaxEntries \in Nat
      BY BoundsAssumption
    <2>2. replays \in Seq([key : Keys, minutes : Gifts]) /\ Len(replays) <= MaxEntries
      BY <2>1, EmptySeq
    <2>3. since \in [Keys -> 0 .. MaxEntries]
      BY <2>1
    <2>4. retry \in [Callers -> BOOLEAN]
      OBVIOUS
    <2>5. KeysAgree
      BY <2>1 DEF KeysAgree
    <2> QED
      BY <2>2, <2>3, <2>4, <2>5 DEF ReplayTypes
  <1> QED
    BY <1>1, <1>2, <1>3, <1>4, <1>5, <1>6, <1>7 DEF IInv

LEMMA IInvStep == ASSUME IInv, [Next]_vars PROVE IInv'
  <1> USE DEF IInv
  <1>1. CASE Next
    BY <1>1, TypeStep, AskedStep, GatesStep, QueuesStep, FilesStep, PaysStep, DaysStep, ReplayStep, KeysStep
  <1>2. CASE UNCHANGED vars
    <2> USE <1>2 DEF vars, queueVars, handlerVars, pastVars
    <2>1. Types'
      BY DEF Types, QueueTypes, GrantTypes, HandlerTypes, TokenTypes
    <2>2. AskedAgrees' /\ GatesAgree'
      BY DEF AskedAgrees, GatesAgree
    <2>3. QueuesAgree' /\ PaysAgree'
      BY DEF QueuesAgree, Pending, PaysAgree, Paying
    <2>4. DaysAgree' /\ FilesAgree'
      BY DEF DaysAgree, FilesAgree
    <2>5. ReplayTypes' /\ KeysAgree'
      BY DEF ReplayTypes, KeysAgree, IsRetry
    <2> QED
      BY <2>1, <2>2, <2>3, <2>4, <2>5
  <1> QED
    BY <1>1, <1>2

LEMMA Inductive == Spec => []IInv
  BY InitAgrees, IInvStep, PTL DEF Spec

(* Every variable has its type; whoever holds a gate is at work behind it.   *)
THEOREM TypeCorrect == Spec => []TypeOK
  <1>1. ASSUME IInv PROVE TypeOK
    <2>1. Types /\ GatesAgree /\ ReplayTypes
      BY <1>1 DEF IInv
    <2>2. ASSUME NEW q \in Queues, NEW c \in Callers, c \in gates[q] PROVE step[c] = "inside"
      <3>1. gates[q] = {} \/ \E x \in Callers : gates[q] = {x}
        <4>1. gates[q] \in Option(Callers)
          BY <2>1 DEF Types, QueueTypes
        <4> QED
          BY <4>1 DEF Option
      <3>2. gates[q] = {c}
        BY <2>2, <3>1
      <3> QED
        BY <2>1, <3>2 DEF GatesAgree
    <2> QED
      BY <2>1, <2>2 DEF TypeOK, Types, QueueTypes, GrantTypes, HandlerTypes, TokenTypes, ReplayTypes
  <1> QED
    BY <1>1, Inductive, PTL

(* However many press at the same moment, however often the service starts   *)
(* anew and the files rotate, a request is decided once, a code is spent     *)
(* once, and minutes are granted for it at most once and never after a       *)
(* denial.                                                                   *)
THEOREM AlwaysDecidedOnce == Spec => []DecidedOnce
  <1>1. IInv => DecidedOnce
    BY DEF IInv, Types, TokenTypes, PaysAgree, DecidedOnce
  <1> QED
    BY <1>1, Inductive, PTL

(* The day's extra minutes are what was granted for the day, whichever       *)
(* grants cross each other, midnight or a restart; less only where a grant   *)
(* dated before midnight was added after it.                                 *)
THEOREM GrantsAlwaysAddUp == Spec => []GrantsAddUp
  <1>1. IInv => GrantsAddUp
    BY DEF IInv, Types, GrantTypes, DaysAgree, GrantsAddUp
  <1> QED
    BY <1>1, Inductive, PTL

(* A key that is among the last MAX_ENTRIES answered grants nothing more,    *)
(* whatever other keys come between, expire or are put out to make room.     *)
THEOREM RetriesAlwaysGrantNothing == Spec => []RetriesGrantNothing
  <1>1. IInv => RetriesGrantNothing
    BY DEF IInv, KeysAgree, RetriesGrantNothing
  <1> QED
    BY <1>1, Inductive, PTL

(* What the child's page says of the newest request is what the parent       *)
(* decided of it, through every rotation and restart: its newest line is     *)
(* the decision, or the file has nothing of it.                              *)
THEOREM ChildIsAlwaysToldTheDecision == Spec => []ChildIsToldTheDecision
  <1>1. ASSUME IInv PROVE ChildIsToldTheDecision
    <2>1. SUFFICES ASSUME NEW now \in Latest(logs["requests"], "requested"), now.id \notin unwritten
                   PROVE  closed[now.id] = {now.event} \ {"requested"}
      BY DEF ChildIsToldTheDecision
    <2>2. "requests" \in Queues /\ Opening["requests"] = "requested"
      BY DEF Queues, Opening
    <2> DEFINE log == logs["requests"]
    <2>3. log \in [live : Seq(Lines), backup : Seq(Lines)]
      BY <1>1, <2>2 DEF IInv, Types, QueueTypes
    <2>4. PICK i \in DOMAIN log.live : \E id \in log.live[i].id : \E n \in NewestAbout(log, id) :
             now = [id |-> id, event |-> log.live[n].event]
      BY <2>1 DEF Latest, Saying, Recent
    <2>5. PICK id \in log.live[i].id : \E n \in NewestAbout(log, id) :
             now = [id |-> id, event |-> log.live[n].event]
      BY <2>4
    <2>6. PICK n \in NewestAbout(log, id) : now = [id |-> id, event |-> log.live[n].event]
      BY <2>5
    <2>7. id \in Tokens
      <3>1. log.live[i] \in Lines
        BY <2>3
      <3>2. log.live[i].id \in Option(Tokens)
        BY <3>1 DEF Lines
      <3>3. log.live[i].id = {} \/ \E t \in Tokens : log.live[i].id = {t}
        BY <3>2 DEF Option
      <3> QED
        BY <3>3
    <2>8. closed[id] = {log.live[n].event} \ {Opening["requests"]}
      BY <1>1, <2>1, <2>2, <2>6, <2>7 DEF IInv, FilesAgree
    <2> QED
      BY <2>2, <2>6, <2>8
  <1> QED
    BY <1>1, Inductive, PTL

-----------------------------------------------------------------------------
(* The file of deeds: its rows are the deeds one after the other, with a      *)
(* mark where it rotated, and the rotations tell what is gone from it.        *)

\* What a file of deeds is made of.
Noted == {"process_kill", "screenshot_taken", "live_view"}
Row == {Marker} \union [event : Noted, id : {{line} : line \in [at : Nat, no : Nat]}]

\* The line of a deed.
Deed(k) == Line(deeds[k].event, [at |-> deeds[k].at, no |-> k])

AuditTypes ==
    /\ auditTime \in Nat
    /\ deeds \in Seq([event : Noted, at : 0..auditTime])
    /\ frames \in Seq(0..auditTime) /\ turns \in Seq(0..auditTime)
    /\ live \in [frames : Nat, lastEmit : Option(0..auditTime)]
    /\ actions \in [live : Seq(Row), backup : Seq(Row)]

\* A file has a mark, perhaps, and then the deeds from one number up to another, without a gap.
KeepsDeeds(file, marks, from, to) ==
    /\ Len(file) = marks + (to - from)
    /\ \A i \in 1..Len(file) : file[i] = IF i <= marks THEN Marker ELSE Deed(from + i - marks - 1)

\* What is in the backup was done before one rotation, and what is gone before two.
TurnsAgree(lo, mid) ==
    /\ \A k \in 1..(mid - 1) : \E i \in DOMAIN turns : deeds[k].at <= turns[i]
    /\ \A k \in 1..(lo - 1) :
           \E i \in DOMAIN turns : \E j \in DOMAIN turns :
               i # j /\ deeds[k].at <= turns[i] /\ deeds[k].at <= turns[j]

\* The backup has the deeds from lo up to mid, the live file those from mid on; what is gone has left
\* its mark and a backup that was full.
FilesHold(lo, mid, older, newer) ==
    /\ 1 <= lo /\ lo <= mid /\ mid <= Len(deeds) + 1
    /\ KeepsDeeds(actions.backup, older, lo, mid)
    /\ KeepsDeeds(actions.live, newer, mid, Len(deeds) + 1)
    /\ newer = 0 => older = 0 /\ lo = 1
    /\ newer = 1 => Len(actions.backup) > MaxLines
    /\ TurnsAgree(lo, mid)

DeedsAgree == \E lo, mid \in 1..(Len(deeds) + 1) : \E older, newer \in {0, 1} : FilesHold(lo, mid, older, newer)

Lives(date) == {k \in DOMAIN deeds : deeds[k].event = "live_view" /\ DayOf(deeds[k].at) = date}
Glanced(date) == {i \in DOMAIN frames : DayOf(frames[i]) = date}

\* Whoever watches live leaves a line of it within a window, and no more lines than frames.
GlancesAgree ==
    /\ \A last \in live.lastEmit : \E k \in DOMAIN deeds : deeds[k].event = "live_view" /\ deeds[k].at = last
    /\ \A i \in DOMAIN frames :
           \E k \in DOMAIN deeds : /\ deeds[k].event = "live_view"
                                   /\ frames[i] - Window <= deeds[k].at /\ deeds[k].at <= frames[i]
    /\ \A date \in Int : Cardinality(Lives(date)) <= Cardinality(Glanced(date))

AuditIInv == AuditTypes /\ DeedsAgree /\ GlancesAgree

\* The figures of the module, one by one.
LEMMA AuditFigures ==
    /\ ActionView \in Nat /\ Window \in Nat /\ ActionView <= MaxLines + 1
    /\ DayLength \in Nat /\ DayLength > 0 /\ Ahead \in Int
    /\ MaxLines \in Nat /\ MaxLines > 0
  BY AuditAssumption, LinesAssumption

\* Later instants are not of earlier days.
LEMMA DaysInOrder ==
    ASSUME NEW x \in Int, NEW y \in Int, x <= y
    PROVE  DayOf(x) \in Int /\ DayOf(y) \in Int /\ DayOf(x) <= DayOf(y)
<1> USE AuditFigures
<1> DEFINE u == x + Ahead
           v == y + Ahead
<1>1. u \in Int /\ v \in Int /\ u <= v
  OBVIOUS
<1> HIDE DEF u, v
<1>2. u \div DayLength <= v \div DayLength
  <2> DEFINE p == u \div DayLength
             q == v \div DayLength
  <2>1. p \in Int /\ q \in Int /\ DayLength * p <= u /\ v < DayLength * q + DayLength
    BY <1>1
  <2>2. SUFFICES ASSUME q + 1 <= p PROVE FALSE
    BY <2>1
  <2> HIDE DEF p, q
  <2>3. DayLength * (q + 1) <= DayLength * p
    BY <2>1, <2>2
  <2>4. DayLength * (q + 1) = DayLength * q + DayLength
    BY <2>1
  <2> QED BY <1>1, <2>1, <2>3, <2>4
<1> QED BY <1>1, <1>2 DEF DayOf, u, v

\* A mark is a row that speaks of nobody.
LEMMA MarkIs ==
    /\ Marker \in Row /\ Marker.id = {} /\ Marker.event \notin ViewEvents
    /\ <<>> \in Seq(Row) /\ <<Marker>> \in Seq(Row) /\ Len(<<Marker>>) = 1 /\ <<Marker>>[1] = Marker
<1>1. Marker \in Row /\ Marker.id = {} /\ Marker.event \notin ViewEvents
  BY DEF Marker, Row, ViewEvents
<1> QED BY <1>1

\* A deed has a line of its own.
LEMMA DeedIs ==
    ASSUME AuditTypes, NEW k \in DOMAIN deeds
    PROVE  /\ Deed(k) \in Row /\ Deed(k).event = deeds[k].event
           /\ Deed(k).id = {[at |-> deeds[k].at, no |-> k]}
           /\ Deed(k) # Marker
           /\ deeds[k].event \in Noted /\ deeds[k].at \in 0..auditTime
<1>1. DOMAIN deeds = 1..Len(deeds) /\ Len(deeds) \in Nat /\ auditTime \in Nat
  BY DEF AuditTypes
<1>2. k \in Nat
  BY <1>1
<1>3. deeds[k] \in [event : Noted, at : 0..auditTime]
  <2> DEFINE D == [event : Noted, at : 0..auditTime]
  <2>1. deeds \in Seq(D) /\ k \in 1..Len(deeds)
    BY <1>1 DEF AuditTypes
  <2> HIDE DEF D
  <2>2. deeds[k] \in D
    BY <2>1
  <2> QED BY <2>2 DEF D
<1>4. deeds[k].event \in Noted /\ deeds[k].at \in 0..auditTime /\ deeds[k].at \in Nat
  BY <1>1, <1>3
<1> DEFINE line == [at |-> deeds[k].at, no |-> k]
<1>5. line \in [at : Nat, no : Nat]
  BY <1>2, <1>4
<1>6. Deed(k) = [event |-> deeds[k].event, id |-> {line}]
  BY DEF Deed, Line
<1> HIDE DEF line
<1>7. {line} \in {{l} : l \in [at : Nat, no : Nat]}
  BY <1>5
<1>8. Deed(k) \in [event : Noted, id : {{l} : l \in [at : Nat, no : Nat]}]
  BY <1>4, <1>6, <1>7
<1>9. Deed(k).id = {line} /\ Deed(k).event = deeds[k].event
  BY <1>6
<1>10. Deed(k) # Marker
  BY <1>9, MarkIs
<1> QED BY <1>4, <1>8, <1>9, <1>10 DEF Row, line

-----------------------------------------------------------------------------
(* What a step does to the file of deeds. *)

\* A parent's deed is noted.
Notes(event) ==
    /\ deeds' = Append(deeds, [event |-> event, at |-> auditTime])
    /\ actions' = Recorded(actions, Line(event, [at |-> auditTime, no |-> Len(deeds) + 1]))
    /\ turns' = IF Len(actions.live) > MaxLines THEN Append(turns, auditTime) ELSE turns
    /\ auditTime' = auditTime

\* A step notes a deed, perhaps for a frame, or counts a frame, or leaves both alone.
LEMMA StepsOfAudit ==
    ASSUME AuditNext
    PROVE  \/ /\ \E event \in {"process_kill", "screenshot_taken"} : Notes(event)
              /\ UNCHANGED <<frames, live>>
           \/ /\ Notes("live_view") /\ Due(auditTime) /\ frames' = Append(frames, auditTime)
              /\ live' = [frames |-> 0, lastEmit |-> {auditTime}]
           \/ /\ ~ Due(auditTime) /\ frames' = Append(frames, auditTime)
              /\ live' = [live EXCEPT !.frames = @ + 1] /\ UNCHANGED <<actions, deeds, turns, auditTime>>
           \/ UNCHANGED <<actions, deeds, turns, auditTime, frames>> /\ live' \in {live, NoFrames}
           \/ auditTime' = auditTime + 1 /\ UNCHANGED <<actions, deeds, turns, frames, live>>
<1>1. ~ IsAttempt("process_kill") /\ ~ IsAttempt("screenshot_taken") /\ ~ IsAttempt("live_view")
  BY DEF IsAttempt, AttemptEvents
<1>2. CASE Knocks
  <2>1. PICK event \in AttemptEvents : Records(event)
    BY <1>2 DEF Knocks
  <2>2. UNCHANGED <<actions, turns>>
    BY <2>1 DEF Records, IsAttempt
  <2> QED BY <1>2, <2>2 DEF Knocks
<1>3. CASE Acts
  <2>1. Notes("process_kill")
    BY <1>1, <1>3 DEF Acts, Records, Notes
  <2> QED BY <1>3, <2>1 DEF Acts
<1>4. CASE Captures
  <2>1. Notes("screenshot_taken")
    BY <1>1, <1>4 DEF Captures, Records, Notes
  <2> QED BY <1>4, <2>1 DEF Captures
<1>5. CASE Glances /\ Due(auditTime)
  <2>1. Notes("live_view")
    BY <1>1, <1>5 DEF Glances, Records, Notes
  <2> QED BY <1>5, <2>1 DEF Glances
<1>6. CASE Glances /\ ~ Due(auditTime)
  BY <1>6 DEF Glances
<1>7. CASE ServiceRestarts
  BY <1>7 DEF ServiceRestarts
<1>8. CASE InstantPasses
  BY <1>8 DEF InstantPasses
<1> QED BY <1>2, <1>3, <1>4, <1>5, <1>6, <1>7, <1>8 DEF AuditNext

\* A row is added to the live file, or to a new one when that is put aside.
LEMMA RowsRecorded ==
    ASSUME NEW log \in [live : Seq(Row), backup : Seq(Row)], NEW line \in Row
    PROVE  /\ Recorded(log, line) \in [live : Seq(Row), backup : Seq(Row)]
           /\ IF Len(log.live) > MaxLines
              THEN /\ Recorded(log, line).backup = log.live
                   /\ Recorded(log, line).live = Append(IF log.backup = <<>> THEN <<>> ELSE <<Marker>>, line)
              ELSE /\ Recorded(log, line).backup = log.backup
                   /\ Recorded(log, line).live = Append(log.live, line)
<1> DEFINE left == IF log.backup = <<>> THEN <<>> ELSE <<Marker>>
<1> DEFINE kept == IF Len(log.live) > MaxLines THEN Rotated(log) ELSE log
<1>1. left \in Seq(Row)
  BY MarkIs
<1>2. Rotated(log) = [live |-> left, backup |-> log.live]
  BY DEF Rotated
<1> HIDE DEF left
<1>3. kept \in [live : Seq(Row), backup : Seq(Row)]
  BY <1>1, <1>2
<1>4. Recorded(log, line) = [kept EXCEPT !.live = Append(@, line)]
  BY DEF Recorded
<1>5. IF Len(log.live) > MaxLines THEN kept.backup = log.live /\ kept.live = left ELSE kept = log
  BY <1>2
<1> HIDE DEF kept
<1>6. Append(kept.live, line) \in Seq(Row)
  BY <1>3
<1>7. Recorded(log, line).live = Append(kept.live, line) /\ Recorded(log, line).backup = kept.backup
  BY <1>3, <1>4
<1>8. Recorded(log, line) \in [live : Seq(Row), backup : Seq(Row)]
  BY <1>3, <1>4, <1>6
<1> QED BY <1>5, <1>7, <1>8 DEF left

\* A deed more, and everything before it as it was.
LEMMA NotesTypes ==
    ASSUME AuditTypes, NEW event \in Noted, Notes(event)
    PROVE  /\ deeds' \in Seq([event : Noted, at : 0..auditTime])
           /\ Len(deeds') = Len(deeds) + 1
           /\ \A k \in 1..Len(deeds) : deeds'[k] = deeds[k]
           /\ deeds'[Len(deeds) + 1] = [event |-> event, at |-> auditTime]
           /\ Line(event, [at |-> auditTime, no |-> Len(deeds) + 1]) \in Row
           /\ actions' \in [live : Seq(Row), backup : Seq(Row)]
           /\ turns' \in Seq(0..auditTime)
<1> DEFINE D == [event : Noted, at : 0..auditTime]
           d == [event |-> event, at |-> auditTime]
           line == [at |-> auditTime, no |-> Len(deeds) + 1]
<1>1. auditTime \in Nat /\ auditTime \in 0..auditTime /\ turns \in Seq(0..auditTime)
  BY DEF AuditTypes
<1>2. deeds \in Seq(D)
  BY DEF AuditTypes
<1>3. d \in D
  BY <1>1
<1> HIDE DEF D
<1>4. deeds' = Append(deeds, d)
  BY DEF Notes
<1> HIDE DEF d
<1>5. /\ deeds' \in Seq(D) /\ Len(deeds') = Len(deeds) + 1
      /\ \A k \in 1..Len(deeds) : deeds'[k] = deeds[k]
      /\ deeds'[Len(deeds) + 1] = d
  BY <1>2, <1>3, <1>4
<1>6. line \in [at : Nat, no : Nat]
  BY <1>1, <1>2
<1>7. {line} \in {{l} : l \in [at : Nat, no : Nat]}
  BY <1>6
<1>8. Line(event, line) \in Row
  <2> HIDE DEF line
  <2>1. Line(event, line) \in [event : Noted, id : {{l} : l \in [at : Nat, no : Nat]}]
    BY <1>7 DEF Line
  <2> QED BY <2>1 DEF Row
<1>9. actions' \in [live : Seq(Row), backup : Seq(Row)]
  <2>1. actions' = Recorded(actions, Line(event, line)) /\ actions \in [live : Seq(Row), backup : Seq(Row)]
    BY DEF Notes, AuditTypes
  <2> QED BY <1>8, <2>1, RowsRecorded
<1>10. turns' \in Seq(0..auditTime)
  <2>1. turns' \in {turns, Append(turns, auditTime)}
    BY DEF Notes
  <2>2. Append(turns, auditTime) \in Seq(0..auditTime)
    BY <1>1
  <2> QED BY <1>1, <2>1, <2>2
<1> QED BY <1>5, <1>8, <1>9, <1>10 DEF D, d

\* What was so by an earlier instant is so by a later one.
LEMMA LaterTypes ==
    ASSUME NEW t \in Nat, NEW u \in Nat, t <= u
    PROVE  /\ Seq(0..t) \subseteq Seq(0..u) /\ Option(0..t) \subseteq Option(0..u)
           /\ Seq([event : Noted, at : 0..t]) \subseteq Seq([event : Noted, at : 0..u])
<1>1. 0..t \subseteq 0..u
  OBVIOUS
<1>2. [event : Noted, at : 0..t] \subseteq [event : Noted, at : 0..u]
  BY <1>1
<1>3. \A S, T : S \subseteq T => Seq(S) \subseteq Seq(T)
  <2> SUFFICES ASSUME NEW S, NEW T, S \subseteq T, NEW s \in Seq(S) PROVE s \in Seq(T)
    OBVIOUS
  <2>1. \A i \in 1..Len(s) : s[i] \in T
    OBVIOUS
  <2>2. s = [i \in 1..Len(s) |-> s[i]] /\ Len(s) \in Nat
    OBVIOUS
  <2>3. s \in [1..Len(s) -> T]
    BY <2>1, <2>2
  <2> QED BY <2>2, <2>3, SeqDef
<1>4. Option(0..t) \subseteq Option(0..u)
  BY <1>1 DEF Option
<1> QED BY <1>1, <1>2, <1>3, <1>4

LEMMA AuditTypesInit == AuditInit => AuditTypes
<1> SUFFICES ASSUME AuditInit PROVE AuditTypes
  OBVIOUS
<1>1. NoFrames \in [frames : Nat, lastEmit : Option(0..0)]
  BY DEF NoFrames, Option
<1>2. EmptyLog \in [live : Seq(Row), backup : Seq(Row)]
  BY MarkIs DEF EmptyLog
<1>3. /\ deeds \in Seq([event : Noted, at : 0..auditTime])
      /\ frames \in Seq(0..auditTime) /\ turns \in Seq(0..auditTime)
  <2>1. \A S : <<>> \in Seq(S)
    OBVIOUS
  <2> QED BY <2>1 DEF AuditInit
<1> QED BY <1>1, <1>2, <1>3 DEF AuditInit, AuditTypes

LEMMA AuditTypesStep == ASSUME AuditTypes, AuditNext PROVE AuditTypes'
<1>1. /\ auditTime \in Nat /\ auditTime \in 0..auditTime
      /\ live \in [frames : Nat, lastEmit : Option(0..auditTime)]
  BY DEF AuditTypes
<1>2. NoFrames \in [frames : Nat, lastEmit : Option(0..auditTime)]
  BY DEF NoFrames, Option
<1>3. [frames |-> 0, lastEmit |-> {auditTime}] \in [frames : Nat, lastEmit : Option(0..auditTime)]
  BY <1>1 DEF Option
<1>4. [live EXCEPT !.frames = @ + 1] \in [frames : Nat, lastEmit : Option(0..auditTime)]
  BY <1>1
<1>5. Append(frames, auditTime) \in Seq(0..auditTime)
  BY <1>1 DEF AuditTypes
<1>6. ASSUME NEW event \in Noted, Notes(event), frames' \in {frames, Append(frames, auditTime)},
             live' \in {live, [frames |-> 0, lastEmit |-> {auditTime}]}
      PROVE  AuditTypes'
  <2>1. auditTime' = auditTime
    BY <1>6 DEF Notes
  <2>2. frames \in Seq(0..auditTime)
    BY DEF AuditTypes
  <2> QED BY <1>1, <1>3, <1>5, <1>6, <2>1, <2>2, NotesTypes DEF AuditTypes
<1>7. CASE \E event \in {"process_kill", "screenshot_taken"} : Notes(event) /\ UNCHANGED <<frames, live>>
  BY <1>6, <1>7 DEF Noted
<1>8. CASE /\ Notes("live_view") /\ frames' = Append(frames, auditTime)
           /\ live' = [frames |-> 0, lastEmit |-> {auditTime}]
  BY <1>6, <1>8 DEF Noted
<1>9. CASE /\ frames' = Append(frames, auditTime) /\ live' = [live EXCEPT !.frames = @ + 1]
           /\ UNCHANGED <<actions, deeds, turns, auditTime>>
  BY <1>4, <1>5, <1>9 DEF AuditTypes
<1>10. CASE UNCHANGED <<actions, deeds, turns, auditTime, frames>> /\ live' \in {live, NoFrames}
  BY <1>1, <1>2, <1>10 DEF AuditTypes
<1>11. CASE auditTime' = auditTime + 1 /\ UNCHANGED <<actions, deeds, turns, frames, live>>
  <2>1. /\ deeds \in Seq([event : Noted, at : 0..auditTime]) /\ actions \in [live : Seq(Row), backup : Seq(Row)]
        /\ frames \in Seq(0..auditTime) /\ turns \in Seq(0..auditTime)
    BY DEF AuditTypes
  <2>2. PICK u \in Nat : u = auditTime + 1 /\ auditTime <= u
    BY <1>1
  <2>3. /\ Seq(0..auditTime) \subseteq Seq(0..u) /\ Option(0..auditTime) \subseteq Option(0..u)
        /\ Seq([event : Noted, at : 0..auditTime]) \subseteq Seq([event : Noted, at : 0..u])
    BY <1>1, <2>2, LaterTypes
  <2>4. [frames : Nat, lastEmit : Option(0..auditTime)] \subseteq [frames : Nat, lastEmit : Option(0..u)]
    BY <2>3
  <2>5. auditTime' = u
    BY <1>11, <2>2
  <2> QED BY <1>1, <1>11, <2>1, <2>3, <2>4, <2>5 DEF AuditTypes
<1> QED BY <1>7, <1>8, <1>9, <1>10, <1>11, StepsOfAudit

LEMMA DeedsInit == AuditInit => DeedsAgree
<1> SUFFICES ASSUME AuditInit PROVE DeedsAgree
  OBVIOUS
<1>1. Len(deeds) = 0 /\ actions.live = <<>> /\ actions.backup = <<>> /\ Len(<<>>) = 0
  BY DEF AuditInit, EmptyLog
<1>2. KeepsDeeds(actions.live, 0, 1, 1) /\ KeepsDeeds(actions.backup, 0, 1, 1)
  BY <1>1 DEF KeepsDeeds
<1>3. TurnsAgree(1, 1)
  BY DEF TurnsAgree
<1>4. FilesHold(1, 1, 0, 0)
  BY <1>1, <1>2, <1>3 DEF FilesHold
<1>5. 1 \in 1..(Len(deeds) + 1)
  BY <1>1
<1> QED BY <1>4, <1>5 DEF DeedsAgree

LEMMA DeedsStand ==
    ASSUME AuditTypes, NEW event \in Noted, Notes(event), NEW n \in Nat, n = Len(deeds)
    PROVE  /\ \A k \in 1..n : Deed(k)' = Deed(k)
           /\ Deed(n + 1)' = Line(event, [at |-> auditTime, no |-> Len(deeds) + 1])
<1>1. /\ \A k \in 1..n : deeds'[k] = deeds[k]
      /\ deeds'[n + 1] = [event |-> event, at |-> auditTime]
  BY NotesTypes
<1>2. \A k \in 1..n : Deed(k)' = Deed(k)
  BY <1>1 DEF Deed
<1>3. deeds'[n + 1].event = event /\ deeds'[n + 1].at = auditTime
  BY <1>1
<1>4. Deed(n + 1)' = Line(event, [at |-> auditTime, no |-> n + 1])
  BY <1>3 DEF Deed
<1> QED BY <1>2, <1>4

LEMMA LinesStand ==
    ASSUME NEW n \in Nat, n = Len(deeds), \A k \in 1..n : Deed(k)' = Deed(k),
           NEW file \in Seq(Row), NEW marks \in {0, 1}, NEW from \in Nat, NEW to \in Nat,
           1 <= from, from <= to, to <= n + 1, KeepsDeeds(file, marks, from, to)
    PROVE  KeepsDeeds(file, marks, from, to)'
<1>1. Len(file) = marks + (to - from)
  BY DEF KeepsDeeds
<1>2. ASSUME NEW i \in 1..Len(file) PROVE file[i] = IF i <= marks THEN Marker ELSE Deed(from + i - marks - 1)'
  <2>1. file[i] = IF i <= marks THEN Marker ELSE Deed(from + i - marks - 1)
    BY DEF KeepsDeeds
  <2>2. ~ (i <= marks) => from + i - marks - 1 \in 1..n
    BY <1>1
  <2> QED BY <2>1, <2>2
<1> QED BY <1>1, <1>2 DEF KeepsDeeds

LEMMA DeedAdded ==
    ASSUME NEW n \in Nat, n = Len(deeds), \A k \in 1..n : Deed(k)' = Deed(k),
           NEW line \in Row, Deed(n + 1)' = line,
           NEW file \in Seq(Row), NEW marks \in {0, 1}, NEW from \in Nat,
           1 <= from, from <= n + 1, KeepsDeeds(file, marks, from, n + 1)
    PROVE  KeepsDeeds(Append(file, line), marks, from, n + 2)'
<1>1. Len(file) = marks + (n + 1 - from) /\ Len(file) \in Nat
  BY DEF KeepsDeeds
<1>2. Append(file, line) \in Seq(Row) /\ Len(Append(file, line)) = marks + (n + 2 - from)
  BY <1>1
<1>3. ASSUME NEW i \in 1..Len(Append(file, line))
      PROVE  Append(file, line)[i] = IF i <= marks THEN Marker ELSE Deed(from + i - marks - 1)'
  <2>1. CASE i \in 1..Len(file)
    <3>1. Append(file, line)[i] = file[i]
      BY <2>1
    <3>2. file[i] = IF i <= marks THEN Marker ELSE Deed(from + i - marks - 1)
      BY <2>1 DEF KeepsDeeds
    <3>3. ~ (i <= marks) => from + i - marks - 1 \in 1..n
      BY <1>1, <2>1
    <3> QED BY <3>1, <3>2, <3>3
  <2>2. CASE i = Len(file) + 1
    <3>1. Append(file, line)[i] = line
      BY <2>2
    <3>2. ~ (i <= marks) /\ from + i - marks - 1 = n + 1
      BY <1>1, <2>2
    <3> QED BY <3>1, <3>2
  <2>3. i \in 1..Len(file) \/ i = Len(file) + 1
    BY <1>1, <1>2
  <2> QED BY <2>1, <2>2, <2>3
<1> QED BY <1>2, <1>3 DEF KeepsDeeds

\* What was done until now was done before a rotation that happens now.
LEMMA TurnsStand ==
    ASSUME AuditTypes, NEW event \in Noted, Notes(event), NEW n \in Nat, n = Len(deeds),
           NEW lo \in Nat, NEW mid \in Nat, 1 <= lo, lo <= mid, mid <= n + 1, TurnsAgree(lo, mid)
    PROVE  IF Len(actions.live) > MaxLines THEN TurnsAgree(mid, n + 1)' ELSE TurnsAgree(lo, mid)'
<1>1. \A k \in 1..n : deeds'[k] = deeds[k]
  BY NotesTypes
<1>2. CASE Len(actions.live) > MaxLines
  <2>1. turns' = Append(turns, auditTime) /\ turns \in Seq(0..auditTime) /\ auditTime \in Nat
    BY <1>2 DEF Notes, AuditTypes
  <2>2. PICK last \in Nat : last = Len(turns) + 1
    BY <2>1
  <2>3. /\ DOMAIN turns' = 1..last /\ DOMAIN turns = 1..Len(turns) /\ turns'[last] = auditTime
        /\ \A i \in DOMAIN turns : i # last /\ i \in DOMAIN turns' /\ turns'[i] = turns[i]
    BY <2>1, <2>2
  <2>4. ASSUME NEW k \in 1..n PROVE deeds'[k].at <= turns'[last]
    <3>1. k \in DOMAIN deeds
      BY DEF AuditTypes
    <3>2. deeds[k].at \in 0..auditTime
      BY <3>1, DeedIs
    <3> QED BY <1>1, <2>1, <2>3, <3>2
  <2>5. ASSUME NEW k \in 1..(n + 1 - 1) PROVE \E i \in DOMAIN turns' : deeds'[k].at <= turns'[i]
    <3>1. k \in 1..n /\ last \in DOMAIN turns'
      BY <2>2, <2>3
    <3> QED BY <2>4, <3>1
  <2>6. ASSUME NEW k \in 1..(mid - 1)
        PROVE  \E i \in DOMAIN turns' : \E j \in DOMAIN turns' :
                   i # j /\ deeds'[k].at <= turns'[i] /\ deeds'[k].at <= turns'[j]
    <3>1. k \in 1..n /\ last \in DOMAIN turns'
      BY <2>2, <2>3
    <3>2. PICK i \in DOMAIN turns : deeds[k].at <= turns[i]
      BY DEF TurnsAgree
    <3>3. i # last /\ i \in DOMAIN turns' /\ deeds'[k].at <= turns'[i]
      BY <1>1, <2>3, <3>1, <3>2
    <3> QED BY <2>4, <3>1, <3>3
  <2>7. TurnsAgree(mid, n + 1)'
    BY <2>5, <2>6 DEF TurnsAgree
  <2> QED BY <1>2, <2>7
<1>3. CASE ~ (Len(actions.live) > MaxLines)
  <2>1. turns' = turns
    BY <1>3 DEF Notes
  <2>2. \A k \in 1..(mid - 1) : deeds'[k] = deeds[k]
    BY <1>1
  <2>3. \A k \in 1..(lo - 1) : deeds'[k] = deeds[k]
    BY <1>1
  <2>4. TurnsAgree(lo, mid)'
    BY <2>1, <2>2, <2>3 DEF TurnsAgree
  <2> QED BY <1>3, <2>4
<1> QED BY <1>2, <1>3

LEMMA DeedsRest == ASSUME DeedsAgree, UNCHANGED <<actions, deeds, turns>> PROVE DeedsAgree'
<1>1. PICK lo \in 1..(Len(deeds) + 1), mid \in 1..(Len(deeds) + 1) :
          \E older, newer \in {0, 1} : FilesHold(lo, mid, older, newer)
  BY DEF DeedsAgree
<1>2. PICK older \in {0, 1}, newer \in {0, 1} : FilesHold(lo, mid, older, newer)
  BY <1>1
<1>3. KeepsDeeds(actions.backup, older, lo, mid)'
  BY <1>2 DEF FilesHold, KeepsDeeds, Deed
<1>4. KeepsDeeds(actions.live, newer, mid, Len(deeds) + 1)'
  BY <1>2 DEF FilesHold, KeepsDeeds, Deed
<1>5. TurnsAgree(lo, mid)'
  BY <1>2 DEF FilesHold, TurnsAgree
<1>6. FilesHold(lo, mid, older, newer)'
  BY <1>2, <1>3, <1>4, <1>5 DEF FilesHold
<1> QED BY <1>6 DEF DeedsAgree

LEMMA DeedsStep == ASSUME AuditTypes, DeedsAgree, AuditNext PROVE DeedsAgree'
<1>1. PICK lo \in 1..(Len(deeds) + 1), mid \in 1..(Len(deeds) + 1) :
          \E older, newer \in {0, 1} : FilesHold(lo, mid, older, newer)
  BY DEF DeedsAgree
<1>2. PICK older \in {0, 1}, newer \in {0, 1} : FilesHold(lo, mid, older, newer)
  BY <1>1
<1>3. PICK n \in Nat : n = Len(deeds)
  BY DEF AuditTypes
<1>4. /\ lo \in Nat /\ mid \in Nat /\ 1 <= lo /\ lo <= mid /\ mid <= n + 1
  BY <1>1, <1>2, <1>3 DEF FilesHold
<1>5. ASSUME NEW event \in Noted, Notes(event) PROVE DeedsAgree'
  <2>1. PICK line \in Row : line = Line(event, [at |-> auditTime, no |-> Len(deeds) + 1])
    BY <1>5, NotesTypes
  <2>2. PICK file \in Seq(Row), aside \in Seq(Row) : file = actions.live /\ aside = actions.backup
    BY DEF AuditTypes
  <2>3. (\A k \in 1..n : Deed(k)' = Deed(k)) /\ Deed(n + 1)' = line
    BY <1>3, <1>5, <2>1, DeedsStand
  <2>4. Len(deeds') = n + 1
    BY <1>3, <1>5, NotesTypes
  <2>5. KeepsDeeds(file, newer, mid, n + 1) /\ KeepsDeeds(aside, older, lo, mid)
    BY <1>2, <1>3, <2>2 DEF FilesHold
  <2>6. CASE Len(file) > MaxLines
    <3>1. PICK left \in {0, 1} : left = IF aside = <<>> THEN 0 ELSE 1
      OBVIOUS
    <3>2. PICK fresh \in Seq(Row) : fresh = IF aside = <<>> THEN <<>> ELSE <<Marker>>
      BY MarkIs
    <3>3. actions'.backup = file /\ actions'.live = Append(fresh, line)
      <4>1. actions' = Recorded(actions, line) /\ actions \in [live : Seq(Row), backup : Seq(Row)]
        BY <1>5, <2>1 DEF Notes, AuditTypes
      <4> QED BY <2>2, <2>6, <3>2, <4>1, RowsRecorded
    <3>4. KeepsDeeds(fresh, left, n + 1, n + 1)
      <4>1. CASE aside = <<>>
        BY <3>1, <3>2, <4>1 DEF KeepsDeeds
      <4>2. CASE aside # <<>>
        BY <3>1, <3>2, <4>2, MarkIs DEF KeepsDeeds
      <4> QED BY <4>1, <4>2
    <3>5. KeepsDeeds(Append(fresh, line), left, n + 1, n + 2)'
      <4>1. n + 1 \in Nat /\ 1 <= n + 1
        OBVIOUS
      <4> QED BY <1>3, <2>3, <3>4, <4>1, DeedAdded
    <3>6. KeepsDeeds(file, newer, mid, n + 1)'
      <4>1. PICK to \in Nat : to = n + 1
        OBVIOUS
      <4>2. KeepsDeeds(file, newer, mid, to)
        BY <2>5, <4>1
      <4>3. mid <= to /\ to <= n + 1 /\ \A k \in 1..n : Deed(k)' = Deed(k)
        BY <1>4, <2>3, <4>1
      <4>4. KeepsDeeds(file, newer, mid, to)'
        BY <1>3, <1>4, <4>2, <4>3, LinesStand
      <4> QED BY <4>1, <4>4
    <3>7. TurnsAgree(mid, n + 1)'
      <4>1. TurnsAgree(lo, mid)
        BY <1>2 DEF FilesHold
      <4> QED BY <1>3, <1>4, <1>5, <2>2, <2>6, <4>1, TurnsStand
    <3>8. left = 0 => newer = 0 /\ mid = 1
      <4>1. left = 0 => Len(aside) = 0
        BY <3>1
      <4>2. left = 0 => newer = 0
        BY <1>2, <2>2, <4>1, AuditFigures DEF FilesHold
      <4>3. Len(aside) = older + (mid - lo)
        BY <2>5 DEF KeepsDeeds
      <4> QED BY <1>2, <1>4, <4>1, <4>2, <4>3 DEF FilesHold
    <3>9. FilesHold(mid, n + 1, newer, left)'
      <4>1. mid <= n + 1 /\ n + 1 <= Len(deeds') + 1 /\ Len(deeds') + 1 = n + 2
        BY <1>4, <2>4
      <4>2. KeepsDeeds(actions.live, left, n + 1, Len(deeds) + 1)'
        BY <2>4, <3>3, <3>5, <4>1 DEF KeepsDeeds
      <4>3. KeepsDeeds(actions.backup, newer, mid, n + 1)'
        BY <3>3, <3>6 DEF KeepsDeeds
      <4> QED BY <1>4, <2>6, <3>3, <3>7, <3>8, <4>1, <4>2, <4>3 DEF FilesHold
    <3>10. mid \in 1..(Len(deeds') + 1) /\ n + 1 \in 1..(Len(deeds') + 1)
      BY <1>4, <2>4
    <3> QED BY <3>9, <3>10 DEF DeedsAgree
  <2>7. CASE ~ (Len(file) > MaxLines)
    <3>1. actions'.backup = aside /\ actions'.live = Append(file, line)
      <4>1. actions' = Recorded(actions, line) /\ actions \in [live : Seq(Row), backup : Seq(Row)]
        BY <1>5, <2>1 DEF Notes, AuditTypes
      <4> QED BY <2>2, <2>7, <4>1, RowsRecorded
    <3>2. KeepsDeeds(Append(file, line), newer, mid, n + 2)'
      BY <1>3, <1>4, <2>3, <2>5, DeedAdded
    <3>3. KeepsDeeds(aside, older, lo, mid)'
      BY <1>3, <1>4, <2>3, <2>5, LinesStand
    <3>4. TurnsAgree(lo, mid)'
      <4>1. TurnsAgree(lo, mid)
        BY <1>2 DEF FilesHold
      <4> QED BY <1>3, <1>4, <1>5, <2>2, <2>7, <4>1, TurnsStand
    <3>5. FilesHold(lo, mid, older, newer)'
      <4>1. mid <= Len(deeds') + 1 /\ Len(deeds') + 1 = n + 2
        BY <1>4, <2>4
      <4>2. KeepsDeeds(actions.live, newer, mid, Len(deeds) + 1)'
        BY <2>4, <3>1, <3>2, <4>1 DEF KeepsDeeds
      <4>3. KeepsDeeds(actions.backup, older, lo, mid)'
        BY <3>1, <3>3 DEF KeepsDeeds
      <4>4. (newer = 0 => older = 0 /\ lo = 1) /\ (newer = 1 => Len(aside) > MaxLines)
        BY <1>2, <2>2 DEF FilesHold
      <4> QED BY <1>4, <3>1, <3>4, <4>1, <4>2, <4>3, <4>4 DEF FilesHold
    <3>6. lo \in 1..(Len(deeds') + 1) /\ mid \in 1..(Len(deeds') + 1)
      BY <1>4, <2>4
    <3> QED BY <3>5, <3>6 DEF DeedsAgree
  <2> QED BY <2>6, <2>7
<1>6. CASE UNCHANGED <<actions, deeds, turns>>
  BY <1>6, DeedsRest
<1> QED BY <1>5, <1>6, StepsOfAudit DEF Noted

\* Whatever is counted can be.
LEMMA CountsAreFinite ==
    ASSUME AuditTypes
    PROVE  /\ DOMAIN deeds = 1..Len(deeds) /\ DOMAIN frames = 1..Len(frames) /\ DOMAIN turns = 1..Len(turns)
           /\ Len(deeds) \in Nat /\ Len(frames) \in Nat /\ Len(turns) \in Nat
           /\ \A S \in SUBSET DOMAIN deeds : IsFiniteSet(S) /\ Cardinality(S) \in Nat
           /\ \A S \in SUBSET DOMAIN frames : IsFiniteSet(S) /\ Cardinality(S) \in Nat
           /\ \A S \in SUBSET DOMAIN turns : IsFiniteSet(S) /\ Cardinality(S) \in Nat
<1>1. /\ DOMAIN deeds = 1..Len(deeds) /\ DOMAIN frames = 1..Len(frames) /\ DOMAIN turns = 1..Len(turns)
      /\ Len(deeds) \in Nat /\ Len(frames) \in Nat /\ Len(turns) \in Nat
  BY DEF AuditTypes
<1>2. ASSUME NEW n \in Nat, NEW S \in SUBSET (1..n) PROVE IsFiniteSet(S) /\ Cardinality(S) \in Nat
  <2>1. IsFiniteSet(1..n)
    BY FS_Interval
  <2>2. IsFiniteSet(S)
    BY <2>1, FS_Subset
  <2> QED BY <2>2, FS_CardinalityType
<1> QED BY <1>1, <1>2

LEMMA FrameIs ==
    ASSUME AuditTypes, NEW i \in DOMAIN frames
    PROVE  frames[i] \in 0..auditTime /\ frames[i] \in Int
<1>1. frames \in Seq(0..auditTime) /\ auditTime \in Nat
  BY DEF AuditTypes
<1>2. i \in 1..Len(frames)
  BY CountsAreFinite
<1>3. frames[i] \in 0..auditTime
  BY <1>1, <1>2
<1> QED BY <1>1, <1>3

\* A frame more.
LEMMA GlancesGrow ==
    ASSUME AuditTypes, frames' = Append(frames, auditTime)
    PROVE  /\ \A i \in DOMAIN frames' :
                  frames'[i] = auditTime \/ (i \in DOMAIN frames /\ frames'[i] = frames[i])
           /\ \A date \in Int :
                  Glanced(date)' = Glanced(date) \union IF DayOf(auditTime) = date THEN {Len(frames) + 1} ELSE {}
           /\ \A date \in Int :
                  Cardinality(Glanced(date)') = Cardinality(Glanced(date)) + IF DayOf(auditTime) = date THEN 1 ELSE 0
<1>1. PICK m \in Nat : m = Len(frames)
  BY CountsAreFinite
<1>2. frames \in Seq(0..auditTime) /\ auditTime \in Nat /\ DOMAIN frames = 1..m
  BY <1>1, CountsAreFinite DEF AuditTypes
<1>3. /\ DOMAIN frames' = 1..(m + 1) /\ frames'[m + 1] = auditTime
      /\ \A i \in 1..m : frames'[i] = frames[i]
  BY <1>1, <1>2
<1>4. \A i \in DOMAIN frames' : frames'[i] = auditTime \/ (i \in DOMAIN frames /\ frames'[i] = frames[i])
  BY <1>2, <1>3
<1>5. ASSUME NEW date \in Int
      PROVE  /\ Glanced(date)' = Glanced(date) \union IF DayOf(auditTime) = date THEN {m + 1} ELSE {}
             /\ Cardinality(Glanced(date)') = Cardinality(Glanced(date)) + IF DayOf(auditTime) = date THEN 1 ELSE 0
  <2>1. Glanced(date)' = {i \in 1..(m + 1) : DayOf(frames'[i]) = date}
    BY <1>3 DEF Glanced, DayOf
  <2>2. Glanced(date) = {i \in 1..m : DayOf(frames[i]) = date}
    BY <1>2 DEF Glanced
  <2>3. Glanced(date)' = Glanced(date) \union IF DayOf(auditTime) = date THEN {m + 1} ELSE {}
    BY <1>3, <2>1, <2>2
  <2>4. IsFiniteSet(Glanced(date)) /\ Cardinality(Glanced(date)) \in Nat
    BY CountsAreFinite DEF Glanced
  <2>5. m + 1 \notin Glanced(date)
    BY <2>2
  <2>6. Cardinality(Glanced(date) \union {m + 1}) = Cardinality(Glanced(date)) + 1
    BY <2>4, <2>5, FS_AddElement
  <2>7. CASE DayOf(auditTime) = date
    BY <2>3, <2>6, <2>7
  <2>8. CASE DayOf(auditTime) # date
    <3>1. Glanced(date)' = Glanced(date)
      BY <2>3, <2>8
    <3> QED BY <2>3, <2>4, <2>8, <3>1
  <2> QED BY <2>7, <2>8
<1> QED BY <1>1, <1>4, <1>5

\* A deed more.
LEMMA LivesGrow ==
    ASSUME AuditTypes, NEW event \in Noted, Notes(event), NEW date \in Int
    PROVE  Cardinality(Lives(date)') =
               Cardinality(Lives(date)) + IF event = "live_view" /\ DayOf(auditTime) = date THEN 1 ELSE 0
<1>1. PICK n \in Nat : n = Len(deeds)
  BY CountsAreFinite
<1>2. /\ Len(deeds') = n + 1 /\ DOMAIN deeds = 1..n
      /\ \A k \in 1..n : deeds'[k] = deeds[k]
      /\ deeds'[n + 1] = [event |-> event, at |-> auditTime]
  BY <1>1, NotesTypes, CountsAreFinite
<1>3. DOMAIN deeds' = 1..(n + 1)
  <2>1. deeds' \in Seq([event : Noted, at : 0..auditTime])
    BY NotesTypes
  <2> QED BY <1>2, <2>1
<1>4. deeds'[n + 1].event = event /\ deeds'[n + 1].at = auditTime
  BY <1>2
<1>5. Lives(date)' = {k \in 1..(n + 1) : deeds'[k].event = "live_view" /\ DayOf(deeds'[k].at) = date}
  BY <1>3 DEF Lives, DayOf
<1>6. Lives(date) = {k \in 1..n : deeds[k].event = "live_view" /\ DayOf(deeds[k].at) = date}
  BY <1>2 DEF Lives
<1>7. IsFiniteSet(Lives(date)) /\ Cardinality(Lives(date)) \in Nat
  BY CountsAreFinite DEF Lives
<1>8. CASE event = "live_view" /\ DayOf(auditTime) = date
  <2>1. Lives(date)' = Lives(date) \union {n + 1}
    BY <1>2, <1>4, <1>5, <1>6, <1>8
  <2>2. n + 1 \notin Lives(date)
    BY <1>6
  <2> QED BY <1>7, <1>8, <2>1, <2>2, FS_AddElement
<1>9. CASE ~ (event = "live_view" /\ DayOf(auditTime) = date)
  <2>1. Lives(date)' = Lives(date)
    BY <1>2, <1>4, <1>5, <1>6, <1>9
  <2> QED BY <1>7, <1>9, <2>1
<1> QED BY <1>8, <1>9

\* What was noted of a look stays noted.
LEMMA LooksStand ==
    ASSUME AuditTypes, NEW event \in Noted, Notes(event)
    PROVE  /\ \A k \in DOMAIN deeds : k \in DOMAIN deeds' /\ deeds'[k] = deeds[k]
           /\ Len(deeds) + 1 \in DOMAIN deeds'
           /\ deeds'[Len(deeds) + 1].event = event /\ deeds'[Len(deeds) + 1].at = auditTime
<1>1. /\ Len(deeds') = Len(deeds) + 1 /\ DOMAIN deeds = 1..Len(deeds) /\ Len(deeds) \in Nat
      /\ \A k \in 1..Len(deeds) : deeds'[k] = deeds[k]
      /\ deeds'[Len(deeds) + 1] = [event |-> event, at |-> auditTime]
      /\ deeds' \in Seq([event : Noted, at : 0..auditTime])
  BY NotesTypes, CountsAreFinite
<1>2. DOMAIN deeds' = 1..Len(deeds')
  BY <1>1
<1>3. deeds'[Len(deeds) + 1].event = event /\ deeds'[Len(deeds) + 1].at = auditTime
  BY <1>1
<1> QED BY <1>1, <1>2, <1>3

LEMMA GlancesInit == AuditInit => GlancesAgree
<1> SUFFICES ASSUME AuditInit PROVE GlancesAgree
  OBVIOUS
<1>1. DOMAIN deeds = {} /\ DOMAIN frames = {} /\ live.lastEmit = {}
  BY DEF AuditInit, NoFrames
<1>2. \A date \in Int : Lives(date) = {} /\ Glanced(date) = {}
  BY <1>1 DEF Lives, Glanced
<1>3. Cardinality({}) = 0
  BY FS_EmptySet
<1>4. \A date \in Int : Cardinality(Lives(date)) <= Cardinality(Glanced(date))
  BY <1>2, <1>3
<1> QED BY <1>1, <1>4 DEF GlancesAgree

LEMMA GlancesRest ==
    ASSUME GlancesAgree, UNCHANGED <<deeds, frames>>, live' \in {live, NoFrames}
    PROVE  GlancesAgree'
<1>1. \A last \in live'.lastEmit : \E k \in DOMAIN deeds' : deeds'[k].event = "live_view" /\ deeds'[k].at = last
  BY DEF GlancesAgree, NoFrames
<1>2. \A date \in Int : Lives(date)' = Lives(date) /\ Glanced(date)' = Glanced(date)
  BY DEF Lives, Glanced, DayOf
<1>3. \A date \in Int : Cardinality(Lives(date)') <= Cardinality(Glanced(date)')
  BY <1>2 DEF GlancesAgree
<1>4. \A i \in DOMAIN frames' :
         \E k \in DOMAIN deeds' : /\ deeds'[k].event = "live_view"
                                  /\ frames'[i] - Window <= deeds'[k].at /\ deeds'[k].at <= frames'[i]
  BY DEF GlancesAgree
<1> QED BY <1>1, <1>3, <1>4 DEF GlancesAgree

LEMMA GlancesStep == ASSUME AuditTypes, GlancesAgree, AuditNext PROVE GlancesAgree'
<1>1. auditTime \in Nat /\ Window \in Nat
  BY AuditFigures DEF AuditTypes
<1>2. \A date \in Int : Cardinality(Lives(date)) \in Nat /\ Cardinality(Glanced(date)) \in Nat
  BY CountsAreFinite DEF Lives, Glanced
<1>3. CASE \E event \in {"process_kill", "screenshot_taken"} : Notes(event) /\ UNCHANGED <<frames, live>>
  <2>1. PICK event \in {"process_kill", "screenshot_taken"} : Notes(event) /\ UNCHANGED <<frames, live>>
    BY <1>3
  <2>2. event \in Noted /\ event # "live_view"
    BY DEF Noted
  <2>3. \A k \in DOMAIN deeds : k \in DOMAIN deeds' /\ deeds'[k] = deeds[k]
    BY <2>1, <2>2, LooksStand
  <2>4. \A last \in live'.lastEmit : \E k \in DOMAIN deeds' : deeds'[k].event = "live_view" /\ deeds'[k].at = last
    BY <2>1, <2>3 DEF GlancesAgree
  <2>5. \A i \in DOMAIN frames' :
           \E k \in DOMAIN deeds' : /\ deeds'[k].event = "live_view"
                                    /\ frames'[i] - Window <= deeds'[k].at /\ deeds'[k].at <= frames'[i]
    BY <2>1, <2>3 DEF GlancesAgree
  <2>6. ASSUME NEW date \in Int PROVE Cardinality(Lives(date)') <= Cardinality(Glanced(date)')
    <3>1. Cardinality(Lives(date)') = Cardinality(Lives(date)) + 0
      BY <2>1, <2>2, LivesGrow
    <3>2. Glanced(date)' = Glanced(date)
      BY <2>1 DEF Glanced, DayOf
    <3> QED BY <1>2, <3>1, <3>2 DEF GlancesAgree
  <2> QED BY <2>4, <2>5, <2>6 DEF GlancesAgree
<1>4. CASE /\ Notes("live_view") /\ frames' = Append(frames, auditTime)
           /\ live' = [frames |-> 0, lastEmit |-> {auditTime}]
  <2>1. "live_view" \in Noted
    BY DEF Noted
  <2>2. /\ \A k \in DOMAIN deeds : k \in DOMAIN deeds' /\ deeds'[k] = deeds[k]
        /\ Len(deeds) + 1 \in DOMAIN deeds'
        /\ deeds'[Len(deeds) + 1].event = "live_view" /\ deeds'[Len(deeds) + 1].at = auditTime
    BY <1>4, <2>1, LooksStand
  <2>3. live'.lastEmit = {auditTime}
    BY <1>4
  <2>4. \A last \in live'.lastEmit : \E k \in DOMAIN deeds' : deeds'[k].event = "live_view" /\ deeds'[k].at = last
    BY <2>2, <2>3
  <2>5. ASSUME NEW i \in DOMAIN frames'
        PROVE  \E k \in DOMAIN deeds' : /\ deeds'[k].event = "live_view"
                                        /\ frames'[i] - Window <= deeds'[k].at /\ deeds'[k].at <= frames'[i]
    <3>1. CASE frames'[i] = auditTime
      BY <1>1, <2>2, <3>1
    <3>2. CASE i \in DOMAIN frames /\ frames'[i] = frames[i]
      BY <2>2, <3>2 DEF GlancesAgree
    <3> QED BY <1>4, <3>1, <3>2, GlancesGrow
  <2>6. ASSUME NEW date \in Int PROVE Cardinality(Lives(date)') <= Cardinality(Glanced(date)')
    <3>1. Cardinality(Lives(date)') = Cardinality(Lives(date)) + IF DayOf(auditTime) = date THEN 1 ELSE 0
      BY <1>4, <2>1, LivesGrow
    <3>2. Cardinality(Glanced(date)') = Cardinality(Glanced(date)) + IF DayOf(auditTime) = date THEN 1 ELSE 0
      BY <1>4, GlancesGrow
    <3>3. Cardinality(Lives(date)) <= Cardinality(Glanced(date))
      BY DEF GlancesAgree
    <3> QED BY <1>2, <3>1, <3>2, <3>3
  <2> QED BY <2>4, <2>5, <2>6 DEF GlancesAgree
<1>5. CASE /\ ~ Due(auditTime) /\ frames' = Append(frames, auditTime)
           /\ live' = [live EXCEPT !.frames = @ + 1] /\ UNCHANGED <<actions, deeds, turns, auditTime>>
  <2>1. live'.lastEmit = live.lastEmit
    BY <1>5 DEF AuditTypes
  <2>2. PICK last \in live.lastEmit : ~ (auditTime - last >= Window)
    BY <1>5 DEF Due
  <2>3. last \in 0..auditTime
    <3>1. live.lastEmit \in Option(0..auditTime)
      BY DEF AuditTypes
    <3> QED BY <2>2, <3>1 DEF Option
  <2>4. PICK k \in DOMAIN deeds : deeds[k].event = "live_view" /\ deeds[k].at = last
    BY <2>2 DEF GlancesAgree
  <2>5. auditTime - Window <= deeds[k].at /\ deeds[k].at <= auditTime
    BY <1>1, <2>2, <2>3, <2>4
  <2>6. ASSUME NEW i \in DOMAIN frames'
        PROVE  \E j \in DOMAIN deeds' : /\ deeds'[j].event = "live_view"
                                        /\ frames'[i] - Window <= deeds'[j].at /\ deeds'[j].at <= frames'[i]
    <3>1. CASE frames'[i] = auditTime
      BY <1>5, <2>4, <2>5, <3>1
    <3>2. CASE i \in DOMAIN frames /\ frames'[i] = frames[i]
      BY <1>5, <3>2 DEF GlancesAgree
    <3> QED BY <1>5, <3>1, <3>2, GlancesGrow
  <2>7. ASSUME NEW date \in Int PROVE Cardinality(Lives(date)') <= Cardinality(Glanced(date)')
    <3>1. Lives(date)' = Lives(date)
      BY <1>5 DEF Lives, DayOf
    <3>2. Cardinality(Glanced(date)') = Cardinality(Glanced(date)) + IF DayOf(auditTime) = date THEN 1 ELSE 0
      BY <1>5, GlancesGrow
    <3>3. Cardinality(Lives(date)) <= Cardinality(Glanced(date))
      BY DEF GlancesAgree
    <3> QED BY <1>2, <3>1, <3>2, <3>3
  <2>8. \A l \in live'.lastEmit : \E j \in DOMAIN deeds' : deeds'[j].event = "live_view" /\ deeds'[j].at = l
    BY <1>5, <2>1 DEF GlancesAgree
  <2> QED BY <2>6, <2>7, <2>8 DEF GlancesAgree
<1>6. CASE UNCHANGED <<deeds, frames>> /\ live' \in {live, NoFrames}
  BY <1>6, GlancesRest
<1> QED BY <1>3, <1>4, <1>5, <1>6, StepsOfAudit

-----------------------------------------------------------------------------
(* What is read back of the file. *)

\* The row of a deed in what is retained.
Place(k, lo, mid, older, newer) == k - lo + 1 + older + IF k < mid THEN 0 ELSE newer

\* The rows are the deeds from lo up to now and the marks of the two files.
RowsHold(rows, n, lo, mid, older, newer) ==
    /\ rows \in Seq(Row) /\ Len(rows) = older + newer + (n + 1 - lo)
    /\ 1 <= lo /\ lo <= mid /\ mid <= n + 1
    /\ \A i \in 1..Len(rows) :
           \/ rows[i] = Marker
           \/ \E k \in lo..n : Place(k, lo, mid, older, newer) = i /\ rows[i] = Deed(k)
    /\ \A k \in lo..n :
           /\ Place(k, lo, mid, older, newer) \in 1..Len(rows)
           /\ rows[Place(k, lo, mid, older, newer)] = Deed(k)
    /\ older = 1 => rows[1] = Marker
    /\ newer = 1 => rows[older + (mid - lo) + 1] = Marker

\* The two files read one after the other.
LEMMA RetainedRows ==
    ASSUME AuditTypes, NEW lo \in Nat, NEW mid \in Nat, NEW older \in {0, 1}, NEW newer \in {0, 1},
           FilesHold(lo, mid, older, newer), NEW n \in Nat, n = Len(deeds), NEW rows, rows = Retained(actions)
    PROVE  RowsHold(rows, n, lo, mid, older, newer)
<1>1. PICK file \in Seq(Row), aside \in Seq(Row) : file = actions.live /\ aside = actions.backup
  BY DEF AuditTypes
<1>2. 1 <= lo /\ lo <= mid /\ mid <= n + 1
  BY DEF FilesHold
<1>3. /\ Len(aside) = older + (mid - lo)
      /\ \A i \in 1..Len(aside) : aside[i] = IF i <= older THEN Marker ELSE Deed(lo + i - older - 1)
  BY <1>1 DEF FilesHold, KeepsDeeds
<1>4. /\ Len(file) = newer + (n + 1 - mid)
      /\ \A i \in 1..Len(file) : file[i] = IF i <= newer THEN Marker ELSE Deed(mid + i - newer - 1)
  BY <1>1 DEF FilesHold, KeepsDeeds
<1>5. rows = aside \o file
  BY <1>1 DEF Retained
<1>6. /\ rows \in Seq(Row) /\ Len(rows) = Len(aside) + Len(file)
      /\ \A i \in 1..Len(aside) : rows[i] = aside[i]
      /\ \A i \in 1..Len(file) : rows[Len(aside) + i] = file[i]
  BY <1>5
<1>7. Len(rows) = older + newer + (n + 1 - lo)
  <2>1. PICK p, q : p = Len(aside) /\ q = Len(file)
    OBVIOUS
  <2>2. p = older + (mid - lo) /\ q = newer + (n + 1 - mid) /\ Len(rows) = p + q
    BY <1>3, <1>4, <1>6, <2>1
  <2> QED BY <2>2
<1>8. ASSUME NEW k \in lo..n
      PROVE  /\ Place(k, lo, mid, older, newer) \in 1..Len(rows)
             /\ rows[Place(k, lo, mid, older, newer)] = Deed(k)
  <2>1. CASE k < mid
    <3>1. PICK i \in 1..Len(aside) : i = k - lo + 1 + older
      BY <1>2, <1>3, <2>1
    <3>2. i = Place(k, lo, mid, older, newer) /\ ~ (i <= older) /\ lo + i - older - 1 = k
      BY <2>1, <3>1 DEF Place
    <3>3. rows[i] = Deed(k)
      BY <1>3, <1>6, <3>1, <3>2
    <3> QED BY <1>6, <3>1, <3>2, <3>3
  <2>2. CASE ~ (k < mid)
    <3>1. PICK i \in 1..Len(file) : i = k - mid + 1 + newer
      BY <1>2, <1>4, <2>2
    <3>2. Len(aside) + i = Place(k, lo, mid, older, newer) /\ ~ (i <= newer) /\ mid + i - newer - 1 = k
      BY <1>2, <1>3, <2>2, <3>1 DEF Place
    <3>3. rows[Len(aside) + i] = Deed(k)
      BY <1>4, <1>6, <3>1, <3>2
    <3> QED BY <1>6, <3>1, <3>2, <3>3
  <2> QED BY <2>1, <2>2
<1>9. ASSUME NEW i \in 1..Len(rows)
      PROVE  rows[i] = Marker \/ \E k \in lo..n : Place(k, lo, mid, older, newer) = i /\ rows[i] = Deed(k)
  <2>1. CASE i \in 1..Len(aside) /\ i <= older
    BY <1>3, <1>6, <2>1
  <2>2. CASE i \in 1..Len(aside) /\ ~ (i <= older)
    <3>1. PICK k \in lo..n : k = lo + i - older - 1
      BY <1>2, <1>3, <2>2
    <3>2. Place(k, lo, mid, older, newer) = i
      BY <1>2, <1>3, <2>2, <3>1 DEF Place
    <3> QED BY <1>8, <3>2
  <2>3. CASE ~ (i \in 1..Len(aside))
    <3>1. PICK j \in 1..Len(file) : i = Len(aside) + j
      <4>1. Len(aside) \in Nat /\ Len(file) \in Nat /\ Len(rows) = Len(aside) + Len(file)
        BY <1>6
      <4>2. i - Len(aside) \in 1..Len(file) /\ i = Len(aside) + (i - Len(aside))
        BY <2>3, <4>1
      <4> QED BY <4>2
    <3>2. CASE j <= newer
      BY <1>4, <1>6, <3>1, <3>2
    <3>3. CASE ~ (j <= newer)
      <4>1. PICK k \in lo..n : k = mid + j - newer - 1
        BY <1>2, <1>4, <3>1, <3>3
      <4>2. Place(k, lo, mid, older, newer) = i
        BY <1>2, <1>3, <1>4, <3>1, <3>3, <4>1 DEF Place
      <4> QED BY <1>8, <4>2
    <3> QED BY <3>2, <3>3
  <2> QED BY <2>1, <2>2, <2>3
<1>10. older = 1 => rows[1] = Marker
  BY <1>2, <1>3, <1>6
<1>11. newer = 1 => rows[older + (mid - lo) + 1] = Marker
  <2>1. SUFFICES ASSUME newer = 1 PROVE rows[Len(aside) + 1] = Marker
    BY <1>3
  <2>2. 1 \in 1..Len(file) /\ 1 <= newer
    BY <1>2, <1>4, <2>1
  <2>3. file[1] = Marker
    BY <1>4, <2>2
  <2> QED BY <1>6, <2>2, <2>3
<1> QED BY <1>2, <1>6, <1>7, <1>8, <1>9, <1>10, <1>11 DEF RowsHold

\* The last of what is retained.
LEMMA NewestRows ==
    ASSUME NEW rows \in Seq(Row), NEW limit \in Nat
    PROVE  \E from \in Nat :
               /\ 1 <= from /\ from <= Len(rows) + 1
               /\ Len(rows) - from + 1 = IF Len(rows) > limit THEN limit ELSE Len(rows)
               /\ Newest(rows, limit) \in Seq(Row) /\ Len(Newest(rows, limit)) = Len(rows) - from + 1
               /\ \A i \in 1..(Len(rows) - from + 1) : Newest(rows, limit)[i] = rows[from + i - 1]
<1>1. PICK from \in Nat : from = IF Len(rows) > limit THEN Len(rows) - limit + 1 ELSE 1
  <2>1. Len(rows) \in Nat
    OBVIOUS
  <2>2. (IF Len(rows) > limit THEN Len(rows) - limit + 1 ELSE 1) \in Nat
    BY <2>1
  <2> QED BY <2>2
<1>2. /\ 1 <= from /\ from <= Len(rows) + 1 /\ Len(rows) \in Nat
      /\ Len(rows) - from + 1 = IF Len(rows) > limit THEN limit ELSE Len(rows)
  BY <1>1
<1>3. Newest(rows, limit) = SubSeq(rows, from, Len(rows))
  BY <1>1 DEF Newest
<1>4. \A i \in from..Len(rows) : rows[i] \in Row
  BY <1>2
<1>5. /\ SubSeq(rows, from, Len(rows)) \in Seq(Row)
      /\ Len(SubSeq(rows, from, Len(rows))) = IF from <= Len(rows) THEN Len(rows) - from + 1 ELSE 0
      /\ \A i \in 1..(Len(rows) - from + 1) : SubSeq(rows, from, Len(rows))[i] = rows[from + i - 1]
  <2>1. from \in Int /\ Len(rows) \in Int
    BY <1>2
  <2> QED BY <1>4, <2>1, SubSeqProperties
<1> QED BY <1>2, <1>3, <1>5

\* A set with two elements has at least two.
LEMMA TwoOf ==
    ASSUME NEW S, IsFiniteSet(S), NEW i \in S, NEW j \in S, i # j
    PROVE  Cardinality(S) >= 2
<1>1. IsFiniteSet({i}) /\ Cardinality({i}) = 1 /\ j \notin {i}
  BY FS_Singleton
<1>2. PICK both, c : both = {i} \union {j} /\ c = Cardinality(both)
  OBVIOUS
<1>3. c = Cardinality({i}) + 1
  BY <1>1, <1>2, FS_AddElement
<1>4. c = 1 + 1
  BY <1>1, <1>3, Zenon
<1>5. both \in SUBSET S
  BY <1>2
<1>6. c <= Cardinality(S) /\ Cardinality(S) \in Nat
  BY <1>2, <1>5, FS_Subset, FS_CardinalityType
<1> QED BY <1>4, <1>6

\* A page starts somewhere among the rows, and has every deed from there on.
LEMMA NewestAreShown == AuditTypes /\ DeedsAgree => NewestDeedsAreShown
<1> SUFFICES ASSUME AuditTypes, DeedsAgree PROVE NewestDeedsAreShown
  OBVIOUS
<1>1. PICK lo \in 1..(Len(deeds) + 1), mid \in 1..(Len(deeds) + 1) :
          \E older, newer \in {0, 1} : FilesHold(lo, mid, older, newer)
  BY DEF DeedsAgree
<1>2. PICK older \in {0, 1}, newer \in {0, 1} : FilesHold(lo, mid, older, newer)
  BY <1>1
<1>3. PICK n \in Nat : n = Len(deeds)
  BY DEF AuditTypes
<1>4. PICK all : all = Retained(actions)
  OBVIOUS
<1> DEFINE At(k) == Place(k, lo, mid, older, newer)
<1>5. lo \in Nat /\ mid \in Nat /\ older \in Nat /\ newer \in Nat
  BY <1>3
<1> HIDE DEF At
<1>6. RowsHold(all, n, lo, mid, older, newer)
  BY <1>2, <1>3, <1>4, <1>5, RetainedRows
<1>7. /\ lo \in Nat /\ mid \in Nat /\ older \in Nat /\ newer \in Nat /\ 1 <= lo /\ lo <= mid /\ mid <= n + 1
      /\ all \in Seq(Row) /\ Len(all) = older + newer + (n + 1 - lo)
  BY <1>5, <1>6 DEF RowsHold
<1>8. \A i \in 1..Len(all) : all[i] = Marker \/ \E k \in lo..n : At(k) = i /\ all[i] = Deed(k)
  BY <1>6 DEF At, RowsHold
<1>9. \A k \in lo..n : At(k) \in 1..Len(all) /\ all[At(k)] = Deed(k)
  BY <1>6 DEF At, RowsHold
<1>10. (older = 1 => all[1] = Marker) /\ (newer = 1 => all[older + (mid - lo) + 1] = Marker)
  BY <1>6 DEF RowsHold
<1>11. /\ newer = 0 => older = 0 /\ lo = 1
       /\ newer = 1 => older + (mid - lo) > MaxLines
  BY <1>2 DEF FilesHold, KeepsDeeds
<1>12. PICK page : page = Newest(all, ActionView)
  OBVIOUS
<1>13. Page.actions = page
  BY <1>4, <1>12 DEF Page
<1>14. PICK a \in Nat :
          /\ 1 <= a /\ a <= Len(all) + 1
          /\ Len(all) - a + 1 = IF Len(all) > ActionView THEN ActionView ELSE Len(all)
          /\ page \in Seq(Row) /\ Len(page) = Len(all) - a + 1
          /\ \A i \in 1..(Len(all) - a + 1) : page[i] = all[a + i - 1]
  BY <1>7, <1>12, NewestRows, AuditFigures
<1>15. PICK len \in Nat : len = Len(all) - a + 1
  BY <1>7, <1>14
<1>16. DOMAIN page = 1..len /\ len = older + newer + (n + 1 - lo) - a + 1
  BY <1>7, <1>14, <1>15
<1>17. \A i \in 1..len : page[i] = all[a + i - 1] /\ a + i - 1 \in 1..Len(all)
  BY <1>7, <1>14, <1>15
<1>18. PICK shown : shown = UNION {{line.no : line \in page[i].id} : i \in DOMAIN page}
  OBVIOUS
<1>19. PICK marks : marks = {i \in DOMAIN page : page[i] = Marker}
  OBVIOUS
<1>20. \A k \in lo..n : Deed(k).id = {[at |-> deeds[k].at, no |-> k]}
  <2>1. \A k \in lo..n : k \in DOMAIN deeds
    BY <1>3, <1>7, CountsAreFinite
  <2> QED BY <2>1, DeedIs
<1>21. shown = {k \in lo..n : a <= At(k)}
  <2>1. ASSUME NEW no \in shown PROVE no \in lo..n /\ a <= At(no)
    <3>1. PICK i \in 1..len : no \in {line.no : line \in page[i].id}
      BY <1>16, <1>18
    <3>2. page[i] # Marker
      BY <3>1, MarkIs
    <3>3. PICK k \in lo..n : At(k) = a + i - 1 /\ page[i] = Deed(k)
      BY <1>8, <1>17, <3>2
    <3>4. no = k
      BY <1>20, <3>1, <3>3
    <3>5. a <= a + i - 1
      OBVIOUS
    <3> QED BY <3>3, <3>4, <3>5
  <2>2. ASSUME NEW k \in lo..n, a <= At(k) PROVE k \in shown
    <3>1. At(k) \in Nat /\ At(k) <= Len(all) /\ all[At(k)] = Deed(k) /\ Len(all) \in Nat
      BY <1>7, <1>9
    <3>2. PICK i \in 1..len : i = At(k) - a + 1
      BY <1>15, <2>2, <3>1
    <3>3. a + i - 1 = At(k)
      BY <3>1, <3>2
    <3>4. page[i] = Deed(k)
      BY <1>17, <3>1, <3>3
    <3>5. k \in {line.no : line \in page[i].id}
      <4>1. PICK line : line = [at |-> deeds[k].at, no |-> k]
        OBVIOUS
      <4>2. line \in page[i].id /\ line.no = k
        BY <1>20, <3>4, <4>1
      <4> QED BY <4>2
    <3> QED BY <1>16, <1>18, <3>5
  <2> QED BY <2>1, <2>2
<1>22. \A k \in lo..n : At(k) = k - lo + 1 + older + IF k < mid THEN 0 ELSE newer
  BY DEF At, Place
<1>23. PICK first :
          first = IF a <= older THEN lo
                  ELSE IF a <= older + (mid - lo) THEN lo + a - older - 1
                  ELSE IF a <= older + (mid - lo) + newer THEN mid
                  ELSE lo + a - older - newer - 1
  OBVIOUS
<1>24. a \in Nat /\ 1 <= a /\ a <= older + newer + (n + 1 - lo) + 1
  BY <1>7, <1>14
<1>25. /\ first \in Nat /\ lo <= first /\ first <= n + 1
       /\ \A k \in lo..n : a <= At(k) <=> first <= k
  <2>1. CASE a <= older
    <3>1. first = lo
      BY <1>23, <2>1
    <3> QED BY <1>7, <1>22, <1>24, <2>1, <3>1
  <2>2. CASE ~ (a <= older) /\ a <= older + (mid - lo)
    <3>1. first = lo + a - older - 1
      BY <1>23, <2>2
    <3>2. first \in Nat /\ lo <= first /\ first < mid
      BY <1>7, <1>24, <2>2, <3>1
    <3> QED BY <1>7, <1>22, <1>24, <2>2, <3>1, <3>2
  <2>3. CASE ~ (a <= older + (mid - lo)) /\ a <= older + (mid - lo) + newer
    <3>1. first = mid
      BY <1>7, <1>23, <1>24, <2>3
    <3>2. \A k \in lo..n : a <= At(k) <=> first <= k
      BY <1>7, <1>22, <1>24, <2>3, <3>1
    <3> QED BY <1>7, <3>1, <3>2
  <2>4. CASE ~ (a <= older + (mid - lo) + newer)
    <3>1. first = lo + a - older - newer - 1
      BY <1>7, <1>23, <1>24, <2>4
    <3>2. first \in Nat /\ mid <= first /\ first <= n + 1
      BY <1>7, <1>24, <2>4, <3>1
    <3> QED BY <1>7, <1>22, <1>24, <2>4, <3>1, <3>2
  <2> QED BY <1>7, <1>24, <2>1, <2>2, <2>3, <2>4
<1>26. shown = first..n
  BY <1>7, <1>21, <1>25
<1>27. Cardinality(shown) = n - first + 1
  <2>1. first \in Int /\ n \in Int /\ first <= n + 1
    BY <1>25
  <2>2. Cardinality(first..n) = IF first > n THEN 0 ELSE n - first + 1
    BY <2>1, FS_Interval
  <2> QED BY <1>26, <2>1, <2>2
<1>28. IsFiniteSet(marks) /\ Cardinality(marks) \in Nat
  <2>1. IsFiniteSet(1..len) /\ marks \in SUBSET (1..len)
    BY <1>16, <1>19, FS_Interval
  <2> QED BY <2>1, FS_Subset, FS_CardinalityType
<1>29. Cardinality(marks) >= len - (n - first + 1)
  <2>1. CASE a <= older
    <3>1. older = 1 /\ newer = 1 /\ a = 1
      <4>1. older = 1 /\ a = 1
        BY <1>24, <2>1
      <4>2. newer # 0
        BY <1>11, <4>1
      <4> QED BY <4>1, <4>2
    <3>2. PICK i \in Nat : i = older + (mid - lo) + 1
      BY <1>7
    <3>3. 1 \in 1..len /\ i \in 1..len /\ i # 1 /\ len = 2 + (n - first + 1)
      BY <1>7, <1>16, <1>23, <3>1, <3>2
    <3>4. page[1] = Marker /\ page[i] = Marker
      <4>1. a + 1 - 1 = 1 /\ a + i - 1 = i
        BY <3>1, <3>2
      <4>2. page[1] = all[1] /\ page[i] = all[i]
        BY <1>17, <3>3, <4>1
      <4> QED BY <1>10, <3>1, <3>2, <4>2
    <3>5. 1 \in marks /\ i \in marks
      BY <1>16, <1>19, <3>3, <3>4
    <3>6. Cardinality(marks) >= 2
      BY <1>28, <3>3, <3>5, TwoOf
    <3> QED BY <1>25, <1>28, <3>3, <3>6
  <2>2. CASE ~ (a <= older) /\ newer = 1 /\ a <= older + (mid - lo) + newer
    <3>1. PICK i \in 1..len : i = older + (mid - lo) + 1 - a + 1
      BY <1>7, <1>16, <2>2
    <3>2. a + i - 1 = older + (mid - lo) + 1
      BY <1>7, <1>14, <3>1
    <3>3. page[i] = Marker
      BY <1>10, <1>17, <2>2, <3>2
    <3>4. i \in marks
      BY <1>16, <1>19, <3>3
    <3>5. Cardinality(marks) # 0
      BY <1>28, <3>4, FS_EmptySet
    <3>6. len = 1 + (n - first + 1)
      BY <1>7, <1>24, <1>16, <1>23, <2>2
    <3> QED BY <1>25, <1>28, <3>5, <3>6
  <2>3. CASE ~ (a <= older) /\ ~ (newer = 1 /\ a <= older + (mid - lo) + newer)
    <3>1. len = n - first + 1
      BY <1>7, <1>24, <1>16, <1>23, <2>3
    <3> QED BY <1>28, <3>1
  <2> QED BY <2>1, <2>2, <2>3
<1>30. len >= IF n < ActionView THEN n ELSE ActionView
  <2>1. CASE Len(all) > ActionView
    BY <1>14, <1>15, <2>1, AuditFigures
  <2>2. CASE ~ (Len(all) > ActionView)
    <3>1. len = Len(all)
      BY <1>14, <1>15, <2>2
    <3>2. newer = 0
      BY <1>7, <1>11, <2>2, AuditFigures
    <3>3. older = 0 /\ lo = 1
      BY <1>11, <3>2
    <3>4. len = n
      BY <1>7, <3>1, <3>2, <3>3
    <3> QED BY <3>4, AuditFigures
  <2> QED BY <2>1, <2>2
<1>31. n - Cardinality(shown) + 1 = first
  BY <1>25, <1>27
<1>32. Cardinality(shown) + Cardinality(marks) >= IF n < ActionView THEN n ELSE ActionView
  BY <1>25, <1>27, <1>28, <1>29, <1>30, AuditFigures
<1>33. shown = (Len(deeds) - Cardinality(shown) + 1)..Len(deeds)
  BY <1>3, <1>26, <1>31
<1> QED BY <1>3, <1>13, <1>18, <1>19, <1>32, <1>33 DEF NewestDeedsAreShown

\* A file that has not rotated twice today has all of today.
LEMMA TodayIsKept ==
    ASSUME AuditTypes, NEW lo \in Nat, NEW mid \in Nat, NEW older \in {0, 1}, NEW newer \in {0, 1},
           FilesHold(lo, mid, older, newer), NEW present, present = DayOf(auditTime),
           Cardinality({i \in DOMAIN turns : DayOf(turns[i]) = present}) < 2,
           NEW k \in DOMAIN deeds, DayOf(deeds[k].at) = present
    PROVE  lo <= k
<1>1. /\ auditTime \in Nat /\ turns \in Seq(0..auditTime) /\ k \in Nat /\ 1 <= k
      /\ DOMAIN turns = 1..Len(turns)
  BY CountsAreFinite DEF AuditTypes
<1>2. SUFFICES ASSUME k \in 1..(lo - 1) PROVE FALSE
  BY <1>1
<1>3. PICK i \in DOMAIN turns, j \in DOMAIN turns : i # j /\ deeds[k].at <= turns[i] /\ deeds[k].at <= turns[j]
  BY <1>2 DEF FilesHold, TurnsAgree
<1>4. deeds[k].at \in 0..auditTime
  BY DeedIs
<1>5. ASSUME NEW l \in DOMAIN turns, deeds[k].at <= turns[l] PROVE DayOf(turns[l]) = present
  <2>1. turns[l] \in 0..auditTime
    BY <1>1
  <2>2. PICK x, y, z : x = deeds[k].at /\ y = turns[l] /\ z = auditTime
    OBVIOUS
  <2>3. x \in Int /\ y \in Int /\ z \in Int /\ x <= y /\ y <= z
    BY <1>1, <1>4, <1>5, <2>1, <2>2
  <2>4. DayOf(x) \in Int /\ DayOf(y) \in Int /\ DayOf(z) \in Int /\ DayOf(x) <= DayOf(y) /\ DayOf(y) <= DayOf(z)
    BY <2>3, DaysInOrder
  <2>5. DayOf(x) = present /\ DayOf(z) = present
    BY <2>2
  <2>6. DayOf(y) = present
    BY <2>4, <2>5
  <2> QED BY <2>2, <2>6
<1> DEFINE T == {l \in DOMAIN turns : DayOf(turns[l]) = present}
<1>6. i \in T /\ j \in T
  BY <1>3, <1>5
<1>7. IsFiniteSet(T) /\ Cardinality(T) \in Nat /\ Cardinality(T) < 2
  BY CountsAreFinite
<1> HIDE DEF T
<1>8. Cardinality(T) >= 2
  BY <1>3, <1>6, <1>7, TwoOf
<1> QED BY <1>7, <1>8

\* The views of today among the rows are the looks of today among the deeds, one for one.
LEMMA LooksCounted == AuditTypes /\ DeedsAgree /\ GlancesAgree => LooksAreCounted
<1> SUFFICES ASSUME AuditTypes, DeedsAgree, GlancesAgree PROVE LooksAreCounted
  OBVIOUS
<1>1. PICK present : present = DayOf(auditTime)
  OBVIOUS
<1>2. PICK asked :
          asked = {i \in DOMAIN deeds : deeds[i].event = "screenshot_taken" /\ DayOf(deeds[i].at) = present}
  OBVIOUS
<1>3. PICK told : told = ViewsOn(present)
  OBVIOUS
<1>4. SUFFICES ASSUME Cardinality({i \in DOMAIN turns : DayOf(turns[i]) = present}) < 2
               PROVE  /\ told \in Cardinality(asked)..Cardinality(asked) + Cardinality(Glanced(present))
                      /\ (\E i \in Glanced(present) : DayOf(frames[i] - Window) = present) =>
                            told > Cardinality(asked)
  BY <1>1, <1>2, <1>3 DEF LooksAreCounted, Glanced
<1>5. PICK lo \in 1..(Len(deeds) + 1), mid \in 1..(Len(deeds) + 1) :
          \E older, newer \in {0, 1} : FilesHold(lo, mid, older, newer)
  BY DEF DeedsAgree
<1>6. PICK older \in {0, 1}, newer \in {0, 1} : FilesHold(lo, mid, older, newer)
  BY <1>5
<1>7. PICK n \in Nat : n = Len(deeds)
  BY DEF AuditTypes
<1>8. PICK all : all = Retained(actions)
  OBVIOUS
<1>9. lo \in Nat /\ mid \in Nat
  BY <1>7
<1>10. RowsHold(all, n, lo, mid, older, newer)
  BY <1>6, <1>7, <1>8, <1>9, RetainedRows
<1> DEFINE At(k) == Place(k, lo, mid, older, newer)
           views == {k \in DOMAIN deeds : deeds[k].event \in ViewEvents /\ DayOf(deeds[k].at) = present}
           shown == {i \in DOMAIN all :
                        all[i].event \in ViewEvents /\ \A line \in all[i].id : DayOf(line.at) = present}
<1>11. told = Cardinality(shown)
  BY <1>3, <1>8 DEF ViewsOn, ViewsIn
<1>12. \A k \in DOMAIN deeds : /\ k \in 1..n /\ Deed(k).event = deeds[k].event
                               /\ (\A line \in Deed(k).id : DayOf(line.at) = present) <=> DayOf(deeds[k].at) = present
  <2> SUFFICES ASSUME NEW k \in DOMAIN deeds
               PROVE  /\ k \in 1..n /\ Deed(k).event = deeds[k].event
                      /\ (\A line \in Deed(k).id : DayOf(line.at) = present) <=> DayOf(deeds[k].at) = present
    OBVIOUS
  <2>1. PICK line : line = [at |-> deeds[k].at, no |-> k]
    OBVIOUS
  <2>2. Deed(k).id = {line} /\ Deed(k).event = deeds[k].event
    BY <2>1, DeedIs
  <2>3. line.at = deeds[k].at
    BY <2>1
  <2> QED BY <1>7, <2>2, <2>3, CountsAreFinite
<1>13. /\ DOMAIN all = 1..Len(all)
       /\ \A i \in 1..Len(all) : all[i] = Marker \/ \E k \in lo..n : At(k) = i /\ all[i] = Deed(k)
       /\ \A k \in lo..n : At(k) \in 1..Len(all) /\ all[At(k)] = Deed(k)
  BY <1>10 DEF RowsHold
<1>14. \A k \in views : k \in lo..n
  <2> SUFFICES ASSUME NEW k \in views PROVE k \in lo..n
    OBVIOUS
  <2>1. k \in DOMAIN deeds /\ DayOf(deeds[k].at) = present
    OBVIOUS
  <2>2. lo <= k
    BY <1>1, <1>4, <1>6, <1>9, <2>1, TodayIsKept
  <2> QED BY <1>9, <1>12, <2>1, <2>2
<1>15. \A k, l \in lo..n : At(k) = At(l) => k = l
  <2>1. older \in Nat /\ newer \in Nat
    OBVIOUS
  <2> QED BY <1>9, <2>1 DEF Place
<1>16. 1 <= lo
  OBVIOUS
<1> HIDE DEF At
<1>17. \A k \in views : At(k) \in shown
  <2> SUFFICES ASSUME NEW k \in views PROVE At(k) \in shown
    OBVIOUS
  <2>1. k \in lo..n /\ k \in DOMAIN deeds /\ deeds[k].event \in ViewEvents /\ DayOf(deeds[k].at) = present
    BY <1>14
  <2>2. At(k) \in DOMAIN all /\ all[At(k)] = Deed(k)
    BY <1>13, <2>1
  <2> QED BY <1>12, <2>1, <2>2
<1>18. \A i \in shown : \E k \in views : At(k) = i
  <2> SUFFICES ASSUME NEW i \in shown PROVE \E k \in views : At(k) = i
    OBVIOUS
  <2>1. i \in 1..Len(all) /\ all[i].event \in ViewEvents /\ \A line \in all[i].id : DayOf(line.at) = present
    BY <1>13
  <2>2. all[i] # Marker
    BY <2>1, MarkIs
  <2>3. PICK k \in lo..n : At(k) = i /\ all[i] = Deed(k)
    BY <1>13, <2>1, <2>2
  <2>4. k \in DOMAIN deeds
    BY <1>7, <1>9, <1>16, CountsAreFinite
  <2> QED BY <1>12, <2>1, <2>3, <2>4
<1>19. IsFiniteSet(views) /\ Cardinality(views) \in Nat
  BY CountsAreFinite
<1>20. views = asked \union Lives(present) /\ asked \intersect Lives(present) = {}
  BY <1>2 DEF Lives, ViewEvents
<1>21. Cardinality(shown) = Cardinality(views)
  <2> HIDE DEF views, shown
  <2> DEFINE f == [k \in views |-> At(k)]
  <2>1. f \in [views -> shown]
    BY <1>17
  <2>2. \A k, l \in views : f[k] = f[l] => k = l
    BY <1>14, <1>15
  <2>3. \A i \in shown : \E k \in views : f[k] = i
    BY <1>18
  <2> HIDE DEF f
  <2>4. f \in Bijection(views, shown)
    BY <2>1, <2>2, <2>3, Fun_IsBij
  <2> QED BY <1>19, <2>4, FS_Bijection DEF ExistsBijection
<1> HIDE DEF views, shown
<1>22. /\ IsFiniteSet(asked) /\ Cardinality(asked) \in Nat
       /\ IsFiniteSet(Lives(present)) /\ Cardinality(Lives(present)) \in Nat
       /\ IsFiniteSet(Glanced(present)) /\ Cardinality(Glanced(present)) \in Nat
  BY <1>2, CountsAreFinite DEF Lives, Glanced
<1>23. Cardinality(asked \union Lives(present)) = Cardinality(asked) + Cardinality(Lives(present))
  <2>1. Cardinality(asked \intersect Lives(present)) = 0
    BY <1>20, FS_EmptySet
  <2>2. Cardinality(asked \union Lives(present)) =
            Cardinality(asked) + Cardinality(Lives(present)) - Cardinality(asked \intersect Lives(present))
    BY <1>22, FS_Union
  <2> QED BY <1>22, <2>1, <2>2
<1>24. told = Cardinality(asked) + Cardinality(Lives(present))
  BY <1>11, <1>20, <1>21, <1>23
<1>25. Cardinality(Lives(present)) <= Cardinality(Glanced(present))
  <2>1. auditTime \in Int
    BY DEF AuditTypes
  <2>2. present \in Int
    BY <1>1, <2>1, DaysInOrder
  <2> QED BY <2>2 DEF GlancesAgree
<1>26. ASSUME NEW i \in Glanced(present), DayOf(frames[i] - Window) = present
       PROVE  Cardinality(Lives(present)) > 0
  <2>1. i \in DOMAIN frames /\ DayOf(frames[i]) = present
    BY DEF Glanced
  <2>2. PICK k \in DOMAIN deeds : /\ deeds[k].event = "live_view"
                                  /\ frames[i] - Window <= deeds[k].at /\ deeds[k].at <= frames[i]
    BY <2>1 DEF GlancesAgree
  <2>3. frames[i] \in Int /\ deeds[k].at \in 0..auditTime /\ auditTime \in Nat
    BY <2>1, FrameIs, DeedIs DEF AuditTypes
  <2>4. PICK x, y, z : x = frames[i] - Window /\ y = deeds[k].at /\ z = frames[i]
    OBVIOUS
  <2>5. x \in Int /\ y \in Int /\ z \in Int /\ x <= y /\ y <= z
    BY <2>2, <2>3, <2>4, AuditFigures
  <2>6. DayOf(x) \in Int /\ DayOf(y) \in Int /\ DayOf(z) \in Int /\ DayOf(x) <= DayOf(y) /\ DayOf(y) <= DayOf(z)
    BY <2>5, DaysInOrder
  <2>7. DayOf(x) = present /\ DayOf(z) = present
    BY <1>26, <2>1, <2>4
  <2>8. DayOf(y) = present
    BY <2>6, <2>7
  <2>9. k \in Lives(present)
    BY <2>2, <2>4, <2>8 DEF Lives
  <2>10. Cardinality(Lives(present)) # 0
    BY <1>22, <2>9, FS_EmptySet
  <2> QED BY <1>22, <2>10
<1> QED BY <1>22, <1>24, <1>25, <1>26

LEMMA AuditInductive == AuditSpec => []AuditIInv
<1>1. AuditInit => AuditIInv
  BY AuditTypesInit, DeedsInit, GlancesInit DEF AuditIInv
<1>2. AuditIInv /\ [AuditNext]_auditVars => AuditIInv'
  <2> SUFFICES ASSUME AuditIInv, [AuditNext]_auditVars PROVE AuditIInv'
    OBVIOUS
  <2>1. CASE AuditNext
    BY <2>1, AuditTypesStep, DeedsStep, GlancesStep DEF AuditIInv
  <2>2. CASE UNCHANGED auditVars
    <3>1. AuditTypes'
      BY <2>2 DEF AuditIInv, AuditTypes, auditVars
    <3>2. DeedsAgree'
      BY <2>2, DeedsRest DEF AuditIInv, auditVars
    <3>3. GlancesAgree'
      BY <2>2, GlancesRest DEF AuditIInv, auditVars
    <3> QED BY <3>1, <3>2, <3>3 DEF AuditIInv
  <2> QED BY <2>1, <2>2
<1> QED BY <1>1, <1>2, PTL DEF AuditSpec

(* Every reachable state of the audit trail has the declared types, for any   *)
(* size of its files and pages, any window and any zone.                      *)
THEOREM AuditTypeCorrect == AuditSpec => []AuditTypeOK
  <1> DEFINE Bounded == auditTime \in 0..LastAudited
  <1>1. LastAudited \in Nat
    BY AuditAssumption
  <1>2. AuditInit => AuditTypes /\ Bounded
    BY <1>1, AuditTypesInit DEF AuditInit
  <1>3. AuditTypes /\ Bounded /\ [AuditNext]_auditVars => (AuditTypes /\ Bounded)'
    <2> SUFFICES ASSUME AuditTypes, Bounded, [AuditNext]_auditVars PROVE AuditTypes' /\ Bounded'
      OBVIOUS
    <2>1. CASE AuditNext
      <3>1. auditTime' = auditTime \/ InstantPasses
        BY <2>1 DEF AuditNext, Knocks, Acts, Captures, Glances, ServiceRestarts
      <3>2. InstantPasses => auditTime < LastAudited /\ auditTime' = auditTime + 1
        BY DEF InstantPasses
      <3>3. Bounded'
        BY <1>1, <3>1, <3>2
      <3> QED
        BY <2>1, <3>3, AuditTypesStep
    <2>2. CASE UNCHANGED auditVars
      BY <2>2 DEF AuditTypes, auditVars
    <2> QED
      BY <2>1, <2>2
  <1>4. ASSUME AuditTypes, Bounded PROVE AuditTypeOK
    <2>1. auditTime \in Nat /\ auditTime <= LastAudited
      BY <1>4 DEF AuditTypes
    <2>2. 0..auditTime \subseteq 0..LastAudited
      BY <1>1, <2>1
    <2>3. live.frames \in Nat /\ live.lastEmit \in Option(0..LastAudited)
      BY <1>4, <2>2 DEF AuditTypes, Option
    <2>4. \A i \in DOMAIN turns : turns[i] \in 0..LastAudited
      BY <1>4, <2>2 DEF AuditTypes
    <2>5. \A k \in DOMAIN deeds : deeds[k].at \in 0..LastAudited
      BY <1>4, <2>2, DeedIs
    <2>6. \A i \in DOMAIN frames : frames[i] \in 0..LastAudited
      BY <1>4, <2>2, FrameIs
    <2> QED
      BY <1>4, <2>3, <2>4, <2>5, <2>6 DEF AuditTypeOK
  <1> QED
    BY <1>2, <1>3, <1>4, PTL DEF AuditSpec

(* The parent's page shows what was done last, without a gap and however many *)
(* strangers knocked, and the child is told of every look at his screen that  *)
(* somebody asked for and of no more than there were: for any size of the     *)
(* files that holds a page, any window, any length of day and any zone.       *)
THEOREM AuditIsAlwaysTrue == AuditSpec => []AuditIsTrue
  <1>1. AuditIInv => AuditIsTrue
    BY NewestAreShown, LooksCounted DEF AuditIInv, AuditIsTrue
  <1> QED
    BY <1>1, AuditInductive, PTL

=============================================================================
