------------------------------- MODULE Grants -------------------------------
(***************************************************************************)
(* Extra time: what the parent gives, what the child asks for and is given *)
(* or refused, and codes handed out and cashed in.  Each request is a      *)
(* handler of api.rs in several steps; between two of them others run, it  *)
(* may become midnight, the client may go away and the service restart.    *)
(*                                                                         *)
(* A change of the config is one step here, made and stored or refused:    *)
(* ConfigStore shows that try_update_config is such a step.                *)
(***************************************************************************)
EXTENDS JsonLog, Integers

LOCAL INSTANCE FiniteSetsExt

CONSTANTS
    Callers,      \* requests under way at a time
    Dates,        \* the calendar, as integers from 0 on
    Tokens,       \* requests and codes there may be, by their ids
    QueueOf,      \* "requests" or "codes", of each token
    Worth,        \* its minutes
    MaxStanding,  \* MAX_PENDING and MAX_ACTIVE_CODES
    Keys,         \* Idempotency-Keys the parent's clients make
    Gifts,        \* minutes a parent gives
    MaxEntries,   \* MAX_ENTRIES of the replay cache
    MaxGiven,     \* bound: minutes granted in all before nothing more is asked
    MaxLost,      \* bound: lines that cannot be written
    Restarts,     \* whether the service may be restarted
    Leaves        \* whether clients may be gone before they are answered

ASSUME DatesAssumption == Dates \subseteq Nat /\ 0 \in Dates
ASSUME WorthAssumption == QueueOf \in [Tokens -> {"requests", "codes"}] /\ Worth \in [Tokens -> Nat]
ASSUME GiftsAssumption == Gifts \subseteq Nat
ASSUME BoundsAssumption == {MaxStanding, MaxEntries} \subseteq Nat \ {0} /\ {MaxGiven, MaxLost} \subseteq Nat
ASSUME FaultsAssumption == {Restarts, Leaves} \subseteq BOOLEAN

Queues == {"requests", "codes"}
Opening == [requests |-> "requested", codes |-> "issued"]
Closings == [requests |-> {"approved", "denied"}, codes |-> {"redeemed"}]

Requests ==
    [kind : {"gift"}, minutes : Gifts, key : Option(Keys)]
    \union [kind : {"open"}, queue : Queues]
    \union UNION {[kind : {"close"}, token : {t}, as : Closings[QueueOf[t]]] : t \in Tokens}

VARIABLES
    today,      \* config::today
    logs,       \* timereq.jsonl and timecodes.jsonl
    gates,      \* who holds the gate of each
    extra,      \* Config::extra, a DailyGrant
    replays,    \* AppState::grant_replays, oldest first
    minted,     \* ids given out
    step,       \* how far each handler is
    req, day,   \* what it was asked, and the `today` it has read
    given,      \* history: minutes granted for each date
    paid, closed,   \* history: how often each token was paid, and how it was closed
    unwritten,  \* history: tokens with a line that could not be written
    since,      \* history: gifts answered since each key was, up to MaxEntries
    retry,      \* history: whether a request came with the key of one of the last MaxEntries
    straddled   \* history: dates on which a grant was added for another

handlerVars == <<step, req, day, retry>>
pastVars == <<given, paid, closed, unwritten, since, straddled>>
queueVars == <<logs, gates, minted>>
vars == <<today, queueVars, extra, replays, handlerVars, pastVars>>

Answered == {"idle", "ok"}
Steps == Answered \union {"asked", "inside", "dated", "granted"}

Events == {"requested", "approved", "denied", "issued", "redeemed", "rotated"}
Lines == [event : Events, id : Option(Tokens)]

TypeOK ==
    /\ today \in Dates /\ extra \in [date : Option(Dates), minutes : Nat]
    /\ logs \in [Queues -> [live : Seq(Lines), backup : Seq(Lines)]]
    /\ gates \in [Queues -> Option(Callers)] /\ minted \subseteq Tokens
    /\ \A q \in Queues, c \in Callers : c \in gates[q] => step[c] = "inside"
    /\ replays \in Seq([key : Keys, minutes : Gifts]) /\ Len(replays) <= MaxEntries
    /\ step \in [Callers -> Steps] /\ req \in [Callers -> Option(Requests)]
    /\ day \in [Callers -> Option(Dates)]
    /\ given \in [Dates -> Nat] /\ paid \in [Tokens -> Nat]
    /\ closed \in [Tokens -> SUBSET {"approved", "denied", "redeemed"}] /\ unwritten \subseteq Tokens
    /\ since \in [Keys -> 0 .. MaxEntries]
    /\ retry \in [Callers -> BOOLEAN] /\ straddled \subseteq Dates

Init ==
    /\ today = 0
    /\ logs = [q \in Queues |-> EmptyLog] /\ gates = [q \in Queues |-> {}] /\ minted = {}
    /\ extra = [date |-> {}, minutes |-> 0] /\ replays = <<>>
    /\ step = [c \in Callers |-> "idle"] /\ req = [c \in Callers |-> {}]
    /\ day = [c \in Callers |-> {}]
    /\ given = [d \in Dates |-> 0] /\ paid = [t \in Tokens |-> 0]
    /\ closed = [t \in Tokens |-> {}] /\ unwritten = {}
    /\ since = [k \in Keys |-> MaxEntries] /\ retry = [c \in Callers |-> FALSE] /\ straddled = {}

-----------------------------------------------------------------------------
(* DailyGrant. *)

ForDay(grant, d) == IF grant.date = {d} THEN grant.minutes ELSE 0

\* Wrong on purpose: the minutes of another day are kept.
AddKeeping(grant, d, mins) == [date |-> {d}, minutes |-> grant.minutes + mins]

Add(grant, d, mins) == [date |-> {d}, minutes |-> ForDay(grant, d) + mins]

-----------------------------------------------------------------------------
(* Requests come. *)

KeyOf(r) == IF r.kind = "gift" THEN r.key ELSE {}
QueueIn(r) == IF r.kind = "open" THEN r.queue ELSE QueueOf[r.token]
MinutesIn(r) == IF r.kind = "gift" THEN r.minutes ELSE Worth[r.token]

\* History: the gift its key was made for is among the last to be answered.
IsRetry(r) == \E k \in KeyOf(r) : since[k] < MaxEntries

Moves(c, from, to) ==
    /\ step[c] = from /\ step' = [step EXCEPT ![c] = to]
    /\ day' = [day EXCEPT ![c] = IF to = "dated" THEN {today} ELSE {}]
    /\ UNCHANGED <<req, retry>>

\* Answered with nothing to hold to, or gone.
Ends(c, from) ==
    /\ step[c] \in from /\ step' = [step EXCEPT ![c] = "idle"]
    /\ req' = [req EXCEPT ![c] = {}]
    /\ day' = [day EXCEPT ![c] = {}]
    /\ retry' = [retry EXCEPT ![c] = FALSE]

GivenInAll == LET plus(d, sum) == sum + given[d] IN FoldSet(plus, 0, Dates)

\* Ids are learnt from the lists the parent is shown, and codes from the parent.
MayAsk(r) ==
    /\ GivenInAll < MaxGiven
    /\ r.kind = "open" => \E t \in Tokens \ minted : QueueOf[t] = r.queue
    /\ r.kind = "close" => r.token \in minted

Asks(c, r) ==
    /\ step[c] \in Answered /\ MayAsk(r)
    /\ step' = [step EXCEPT ![c] = "asked"]
    /\ req' = [req EXCEPT ![c] = {r}]
    /\ retry' = [retry EXCEPT ![c] = IsRetry(r)]
    /\ UNCHANGED <<today, queueVars, extra, replays, day, pastVars>>

-----------------------------------------------------------------------------
(* extra_time, for the parent. *)

Kept(key) == {i \in DOMAIN replays : key = {replays[i].key}}

\* The key of a request that has run: its answer again, if the request is the same.
Replays(c) ==
    /\ \E r \in req[c] :
         /\ r.kind = "gift"
         /\ \E i \in Kept(r.key) :
              \/ replays[i].minutes = r.minutes /\ Moves(c, "asked", "ok")
              \/ replays[i].minutes # r.minutes /\ Ends(c, {"asked"})
    /\ UNCHANGED <<today, queueVars, extra, replays, pastVars>>

\* Wrong on purpose: a key that comes with other minutes is a new request.
ReadsTodayOnMismatch(c) ==
    /\ \E r \in req[c] : /\ r.kind = "gift"
                         /\ \A i \in Kept(r.key) : replays[i].minutes # r.minutes
    /\ Moves(c, "asked", "dated")
    /\ UNCHANGED <<today, queueVars, extra, replays, pastVars>>

ReadsToday(c) ==
    /\ \E r \in req[c] : r.kind = "gift" /\ Kept(r.key) = {}
    /\ Moves(c, "asked", "dated")
    /\ UNCHANGED <<today, queueVars, extra, replays, pastVars>>

-----------------------------------------------------------------------------
(* TimeRequests and TimeCodes: each looks and then writes, behind its gate. *)

Pending(q) == Standing(logs[q], Opening[q])

\* Nobody asks whether the line could be written.  (Bound: MaxLost lines cannot, of different tokens.)
Writes(q, event, t) ==
    \/ logs' = [logs EXCEPT ![q] = Recorded(@, Line(event, t))] /\ UNCHANGED unwritten
    \/ /\ t \notin unwritten /\ Cardinality(unwritten) < MaxLost
       /\ unwritten' = unwritten \union {t}
       /\ \E log \in Unrecorded(logs[q]) : logs' = [logs EXCEPT ![q] = log]

\* Wrong on purpose: the gate is taken to open, and to close only for the append.
EntersToClose(c) ==
    /\ Moves(c, "asked", "inside")
    /\ \E r \in req[c] :
         \/ /\ r.kind = "open" /\ Cardinality(Pending(QueueIn(r))) < MaxStanding
            /\ gates[QueueIn(r)] = {} /\ gates' = [gates EXCEPT ![QueueIn(r)] = {c}]
         \/ r.kind = "close" /\ r.token \in Pending(QueueIn(r)) /\ UNCHANGED gates
    /\ UNCHANGED <<today, logs, minted, extra, replays, pastVars>>

Enters(c) ==
    /\ Moves(c, "asked", "inside")
    /\ \E r \in req[c] :
         /\ \/ r.kind = "open"  /\ Cardinality(Pending(QueueIn(r))) < MaxStanding
            \/ r.kind = "close" /\ r.token \in Pending(QueueIn(r))
         /\ gates[QueueIn(r)] = {}
         /\ gates' = [gates EXCEPT ![QueueIn(r)] = {c}]
    /\ UNCHANGED <<today, logs, minted, extra, replays, pastVars>>

\* The queue is full, or the id is not pending: nothing is written.
TurnedAway(c) ==
    /\ Ends(c, {"asked"})
    /\ \E r \in req[c] :
         /\ \/ r.kind = "open"  /\ Cardinality(Pending(QueueIn(r))) >= MaxStanding
            \/ r.kind = "close" /\ r.token \notin Pending(QueueIn(r))
         /\ gates[QueueIn(r)] = {}
    /\ UNCHANGED <<today, queueVars, extra, replays, pastVars>>

Opens(c) ==
    /\ Ends(c, {"inside"})
    /\ \E r \in req[c] :
         /\ r.kind = "open"
         /\ \E t \in {u \in Tokens \ minted : QueueOf[u] = r.queue} :
              /\ minted' = minted \union {t}
              /\ Writes(r.queue, Opening[r.queue], t)
         /\ gates' = [gates EXCEPT ![r.queue] = {}]
    /\ UNCHANGED <<today, extra, replays, given, paid, closed, since, straddled>>

\* The line is written before the minutes are granted.
Closes(c) ==
    /\ \E r \in req[c] :
         LET q == QueueIn(r) IN
         /\ r.kind = "close"
         /\ Moves(c, "inside", IF r.as = "denied" THEN "ok" ELSE "dated")
         /\ Writes(q, r.as, r.token)
         /\ gates' = [gates EXCEPT ![q] = {}]
         /\ closed' = [closed EXCEPT ![r.token] = @ \union {r.as}]
    /\ UNCHANGED <<today, minted, extra, replays,
                   given, paid, since, straddled>>

-----------------------------------------------------------------------------
(* The grant. *)

NotSaved(c) ==
    /\ Ends(c, {"dated"})
    /\ UNCHANGED <<today, queueVars, extra, replays, pastVars>>

Adds(c) ==
    /\ \E r \in req[c], d \in day[c] :
         /\ Moves(c, "dated", IF KeyOf(r) = {} THEN "ok" ELSE "granted")
         /\ extra' = Add(extra, d, MinutesIn(r))
         /\ given' = [given EXCEPT ![d] = @ + MinutesIn(r)]
         /\ paid' = IF r.kind = "close" THEN [paid EXCEPT ![r.token] = @ + 1] ELSE paid
         /\ straddled' = straddled \union ({today} \ {d})
    /\ UNCHANGED <<today, queueVars, replays, closed, unwritten, since>>

-----------------------------------------------------------------------------
(* The replay cache. *)

\* A key is there once at most, for it is taken out before it is put in.
Without(entries, key) ==
    LET has == {i \in DOMAIN entries : entries[i].key = key}
    IN  IF has = {} THEN entries
        ELSE LET i == CHOOSE i \in has : TRUE
             IN  SubSeq(entries, 1, i - 1) \o SubSeq(entries, i + 1, Len(entries))

\* History: a request whose key has gone from those is nobody's retry any more.
OutlivesKeys ==
    retry' = [c \in Callers |-> retry[c] /\ \E r \in req[c] : IsRetry(r)']

\* The answer is kept under the key; the oldest makes room, even for a key that is there already.
Remembers(c) ==
    /\ step[c] = "granted" /\ step' = [step EXCEPT ![c] = "ok"]
    /\ \E r \in req[c] : \E k \in KeyOf(r) :
         LET room == IF Len(replays) >= MaxEntries THEN Tail(replays) ELSE replays
         IN  /\ replays' = Append(Without(room, k), [key |-> k, minutes |-> r.minutes])
             /\ since' = [x \in Keys |-> IF x = k THEN 0
                                        ELSE IF since[x] < MaxEntries THEN since[x] + 1 ELSE since[x]]
    /\ OutlivesKeys
    /\ UNCHANGED <<today, queueVars, extra, req, day,
                   given, paid, closed, unwritten, straddled>>

\* Older than RETENTION.
Expires ==
    /\ replays # <<>>
    /\ replays' = Tail(replays)
    /\ since' = [since EXCEPT ![Head(replays).key] = MaxEntries]
    /\ OutlivesKeys
    /\ UNCHANGED <<today, queueVars, extra, step, req, day,
                   given, paid, closed, unwritten, straddled>>

-----------------------------------------------------------------------------
(* The world. *)

Midnight ==
    /\ today + 1 \in Dates /\ today' = today + 1
    /\ UNCHANGED <<queueVars, extra, replays, handlerVars, pastVars>>

\* A handler is dropped at an await.  What it gave to the blocking pool is done all the same, so
\* it is gone before it has begun to write or after; a save likewise.
LeavesUnanswered(c) ==
    /\ Leaves /\ Ends(c, {"dated", "granted"})
    /\ UNCHANGED <<today, queueVars, extra, replays, pastVars>>

Restart ==
    /\ Restarts
    /\ step' = [c \in Callers |-> "idle"] /\ req' = [c \in Callers |-> {}]
    /\ day' = [c \in Callers |-> {}]
    /\ gates' = [q \in Queues |-> {}] /\ replays' = <<>>
    /\ since' = [k \in Keys |-> MaxEntries] /\ retry' = [c \in Callers |-> FALSE]
    /\ UNCHANGED <<today, logs, minted, extra,
                   given, paid, closed, unwritten, straddled>>

Handles(c) ==
    \/ Replays(c) \/ ReadsToday(c)
    \/ Enters(c) \/ TurnedAway(c) \/ Opens(c) \/ Closes(c)
    \/ Adds(c) \/ NotSaved(c) \/ Remembers(c)

Next ==
    \/ \E c \in Callers :
         (\E r \in Requests : Asks(c, r)) \/ Handles(c) \/ LeavesUnanswered(c)
    \/ Expires \/ Midnight \/ Restart

Spec == Init /\ [][Next]_vars

-----------------------------------------------------------------------------
(* A request is decided once and a code spent once, whoever presses at the   *)
(* same moment, and its minutes are granted at most once and never after a   *)
(* denial; no restart and no rotation of the file makes it good again.       *)
(* Only one whose line could not be written is there to be decided anew.     *)
(* (timereq.rs gate: "a parent double-tapping Approve on a phone granted the *)
(* minutes twice"; timecode.rs gate; jsonl.rs with_rotated.)                 *)
DecidedOnce ==
    \A t \in Tokens \ unwritten :
        /\ paid[t] <= 1 /\ \A a, b \in closed[t] : a = b
        /\ paid[t] = 1 => closed[t] \subseteq {"approved", "redeemed"} /\ closed[t] # {}

(* The day's extra minutes are the sum of what was granted for the day,      *)
(* nothing of yesterday's and nothing that was taken back, across restarts   *)
(* and however the grants interleave.  Only a grant that read the date       *)
(* before midnight and was added after it costs the new day its minutes.     *)
(* (config.rs DailyGrant, api.rs `let today` before update_config.)          *)
GrantsAddUp ==
    /\ ForDay(extra, today) <= given[today]
    /\ today \notin straddled => ForDay(extra, today) = given[today]

(* A key among the last MAX_ENTRIES answered since the service started, and  *)
(* not older than RETENTION, grants nothing more: neither again nor, with    *)
(* other minutes, anew.  (idempotency.rs: "the server returns the original   *)
(* outcome instead of acting twice".)                                        *)
RetriesGrantNothing ==
    \A c \in Callers : retry[c] => step[c] \notin {"dated", "granted"}

(* The child's page says of the newest request in the file what the parent   *)
(* decided, if that could be written, and before that that it waits.         *)
(* (timereq.rs latest: "telling a child their request was refused when it    *)
(* was not is the one wrong answer".)                                        *)
ChildIsToldTheDecision ==
    \A now \in Latest(logs["requests"], "requested") :
        now.id \notin unwritten => closed[now.id] = {now.event} \ {"requested"}

=============================================================================
