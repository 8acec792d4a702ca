---------------------------- MODULE TrustedClock ----------------------------
(***************************************************************************)
(* clock.rs: what time it is, on a machine whose time zone anybody at the  *)
(* keyboard may change.  The statics it decides from are read and written  *)
(* one at a time: by every caller of now(), by the rules loop, which keeps *)
(* the high-water mark on disk, and by POST /api/re-anchor.                *)
(*                                                                         *)
(* An offset is in hours from UTC.  What a caller is answered is the       *)
(* offset it is to read UTC at.                                            *)
(***************************************************************************)
EXTENDS Integers, Options

CONSTANTS
    Zones, Seasons,
    Offset,         \* Offset[z][s]: what the OS applies in zone z in season s
    Readers,        \* callers of now()
    MaxDrift,       \* MAX_DRIFT_MINS
    MaxOffset,      \* MAX_OFFSET_MINS
    MaxReanchors,   \* bound: re-anchors asked for
    IdentityFails,  \* whether GetDynamicTimeZoneInformation may have no answer
    SavesFail,      \* whether a file may fail to be written
    Restarts,       \* whether the service may be restarted
    Torn            \* what may come apart: "zone" if the zone may change in the middle of a
                    \* call, "stores" if other threads run between the stores of set_anchor

ASSUME OffsetAssumption ==
    /\ Offset \in [Zones -> [Seasons -> Int]]
    /\ \A z \in Zones, s \in Seasons : Offset[z][s] \in -MaxOffset .. MaxOffset
ASSUME BoundsAssumption == MaxDrift \in Nat /\ MaxOffset \in Nat /\ MaxReanchors \in Nat
ASSUME FailuresAssumption == /\ {IdentityFails, SavesFail, Restarts} \subseteq BOOLEAN
                             /\ Torn \subseteq {"zone", "stores"}

VARIABLES
    zone, season,          \* what the OS is set to, and the time of year
    anchor, recorded, highWater,  \* ANCHOR_MINS, ANCHOR_ZONE, HIGH_WATER_MINS
    cfg,                   \* tz_offset_mins and tz_zone in config.json
    disk,                  \* clock.json
    call,                  \* for each reader, how far its call of now() is and what it has read
    saver, lastSaved,      \* save_mark_if_changed of the rules loop, and last_saved_mark
    reanchor, reanchors    \* the handler of POST /api/re-anchor, and how often it was asked

worldVars == <<zone, season>>
staticVars == <<anchor, recorded, highWater>>
saverVars == <<saver, lastSaved, disk>>
reanchorVars == <<reanchor, reanchors, cfg>>
vars == <<worldVars, staticVars, call, saverVars, reanchorVars>>

Offsets == {Offset[z][s] : z \in Zones, s \in Seasons}
Marks == [anchor : Offsets, highWater : Offsets]

Idle == [step |-> "idle"]
\* What a call has read so far stays in its record until it answers.
Calls ==
    {Idle}
    \union [step : {"observe"}, anchor : Offsets]
    \union [step : {"identify"}, anchor : Offsets, observed : Offsets]
    \union [step : {"recall"}, anchor : Offsets, observed : Offsets, current : Option(Zones)]
    \union [step : {"decide"}, anchor : Offsets, observed : Offsets, current : Option(Zones),
            recorded : Option(Zones)]
    \union [step : {"raise"}, observed : Offsets]
    \union [step : {"believe"}]
    \union [step : {"answered"}, answer : Offsets]

Savers == {Idle} \union [step : {"mark"}, anchor : Offsets]
                 \union [step : {"write"}, mark : Marks]

Reanchors ==
    {Idle}
    \union [step : {"identify"}, offset : Offsets]
    \union [step : {"save", "anchor", "mark", "zone"}, offset : Offsets, zone : Option(Zones)]

TypeOK ==
    /\ zone \in Zones /\ season \in Seasons
    /\ anchor \in Option(Offsets) /\ highWater \in Option(Offsets)
    /\ recorded \in Option(Zones)
    /\ cfg \in [offset : Option(Offsets), zone : Option(Zones)]
    /\ call \in [Readers -> Calls]
    /\ saver \in Savers /\ lastSaved \in Option(Marks) /\ disk \in Option(Marks)
    /\ reanchor \in Reanchors /\ reanchors \in 0 .. MaxReanchors

-----------------------------------------------------------------------------
OsOffset == Offset[zone][season]

\* current_zone_identity: the zone, or no answer.
Identities == {{zone}} \union (IF IdentityFails THEN {{}} ELSE {})

Highest(S) == CHOOSE x \in S : \A y \in S : x >= y

\* restore: the mark on disk counts if it was saved under this very anchor.
Believable(mark) == /\ mark.anchor \in cfg.offset
                    /\ mark.highWater \in -MaxOffset .. MaxOffset

\* Wrong on purpose: the mark is left on disk.
SeededOnly == cfg.offset

\* set_anchor, then restore
Restored == {Highest({o} \union {m.highWater : m \in {n \in disk : Believable(n)}}) : o \in cfg.offset}

\* No anchor yet, an anchor from before zones were recorded, or both from an install.
Configs == [offset : {{}}, zone : {{}}]
           \union {[offset |-> {OsOffset}, zone |-> z] : z \in Identities \union {{}}}

Init ==
    /\ zone \in Zones /\ season \in Seasons
    /\ cfg \in Configs
    /\ anchor = cfg.offset /\ recorded = cfg.zone /\ highWater = cfg.offset
    /\ disk = {} /\ lastSaved = {}
    /\ call = [r \in Readers |-> Idle] /\ saver = Idle
    /\ reanchor = Idle /\ reanchors = 0

-----------------------------------------------------------------------------
(* The world. *)

\* Nobody is in the middle of a call.
Undisturbed == reanchor = Idle /\ \A r \in Readers : call[r].step \in {"idle", "answered"}
WorldMay == "zone" \in Torn \/ Undisturbed

ZoneChanges ==
    /\ WorldMay
    /\ zone' \in Zones \ {zone}
    /\ UNCHANGED <<season, staticVars, call, saverVars, reanchorVars>>

SeasonChanges ==
    /\ WorldMay
    /\ season' \in Seasons \ {season}
    /\ UNCHANGED <<zone, staticVars, call, saverVars, reanchorVars>>

-----------------------------------------------------------------------------
(* now(), one shared read or write at a time. *)

\* Without an anchor the answer is plain local time.
NowBegins(r) ==
    /\ call[r].step \in {"idle", "answered"}
    /\ call' = [call EXCEPT ![r] =
            IF anchor = {} THEN [step |-> "believe"]
            ELSE [step |-> "observe", anchor |-> CHOOSE a \in anchor : TRUE]]
    /\ UNCHANGED <<worldVars, staticVars, saverVars, reanchorVars>>

NowObserves(r) ==
    /\ call[r].step = "observe"
    /\ call' = [call EXCEPT ![r] = [step |-> "identify", anchor |-> call[r].anchor,
                                    observed |-> OsOffset]]
    /\ UNCHANGED <<worldVars, staticVars, saverVars, reanchorVars>>

NowIdentifies(r) ==
    /\ call[r].step = "identify"
    /\ \E z \in Identities :
         call' = [call EXCEPT ![r] = [step |-> "recall", anchor |-> call[r].anchor,
                                      observed |-> call[r].observed, current |-> z]]
    /\ UNCHANGED <<worldVars, staticVars, saverVars, reanchorVars>>

NowRecalls(r) ==
    /\ call[r].step = "recall"
    /\ call' = [call EXCEPT ![r] = [step |-> "decide", anchor |-> call[r].anchor,
                                    observed |-> call[r].observed, current |-> call[r].current,
                                    recorded |-> recorded]]
    /\ UNCHANGED <<worldVars, staticVars, saverVars, reanchorVars>>

\* decide: the same zone as recorded; another one; or nothing to compare.
Vouched(c) == c.recorded # {} /\ c.recorded = c.current
Substituted(c) == c.recorded # {} /\ c.current # {} /\ c.recorded # c.current
Tolerated(c) == /\ c.observed - c.anchor <= MaxDrift
                /\ c.anchor - c.observed <= MaxDrift

\* Wrong on purpose: the tolerance is asked first, whatever the zone.
DecideByOffset(c) ==
    IF Tolerated(c) THEN [step |-> "believe"]
    ELSE [step |-> "answered", answer |-> c.anchor]

Decide(c) ==
    IF Vouched(c) THEN [step |-> "raise", observed |-> c.observed]
    ELSE IF Substituted(c)
    THEN [step |-> "answered",
          answer |-> Highest({c.anchor} \union highWater)]
    ELSE IF Tolerated(c) THEN [step |-> "believe"]
    ELSE [step |-> "answered", answer |-> c.anchor]

NowDecides(r) ==
    /\ call[r].step = "decide"
    /\ call' = [call EXCEPT ![r] = Decide(call[r])]
    /\ UNCHANGED <<worldVars, staticVars, saverVars, reanchorVars>>

\* fetch_max
Raised(observed) == highWater' = {Highest({observed} \union highWater)}

NowRaises(r) ==
    /\ call[r].step = "raise"
    /\ Raised(call[r].observed)
    /\ call' = [call EXCEPT ![r] = [step |-> "believe"]]
    /\ UNCHANGED <<worldVars, anchor, recorded, saverVars, reanchorVars>>

\* Local::now() is read afresh.
NowBelieves(r) ==
    /\ call[r].step = "believe"
    /\ call' = [call EXCEPT ![r] = [step |-> "answered", answer |-> OsOffset]]
    /\ UNCHANGED <<worldVars, staticVars, saverVars, reanchorVars>>

-----------------------------------------------------------------------------
(* The rules loop keeps the mark. *)

SaverBegins ==
    /\ saver = Idle
    /\ \E a \in anchor : saver' = [step |-> "mark", anchor |-> a]
    /\ UNCHANGED <<worldVars, staticVars, call, lastSaved, disk, reanchorVars>>

IsSaved(mark) == lastSaved = {mark}

SaverMarks ==
    /\ saver.step = "mark"
    /\ LET mark == [anchor |-> saver.anchor,
                    highWater |-> Highest({saver.anchor} \union highWater)]
       IN  saver' = IF IsSaved(mark) THEN Idle ELSE [step |-> "write", mark |-> mark]
    /\ UNCHANGED <<worldVars, staticVars, call, lastSaved, disk, reanchorVars>>

SaverWrites ==
    /\ saver.step = "write"
    /\ \/ disk' = {saver.mark} /\ lastSaved' = {saver.mark}
       \/ SavesFail /\ UNCHANGED <<disk, lastSaved>>
    /\ saver' = Idle
    /\ UNCHANGED <<worldVars, staticVars, call, reanchorVars>>

-----------------------------------------------------------------------------
(* POST /api/re-anchor.  A request is handled to its end before the next one *)
(* is asked for.                                                             *)

ReanchorBegins ==
    /\ reanchor = Idle /\ reanchors < MaxReanchors
    /\ reanchor' = [step |-> "identify", offset |-> OsOffset]
    /\ reanchors' = reanchors + 1
    /\ UNCHANGED <<worldVars, staticVars, call, saverVars, cfg>>

ReanchorIdentifies ==
    /\ reanchor.step = "identify"
    /\ \E z \in Identities :
         reanchor' = [step |-> "save", offset |-> reanchor.offset, zone |-> z]
    /\ UNCHANGED <<worldVars, staticVars, call, saverVars, reanchors, cfg>>

\* update_config: on failure the handler ends with nothing applied.
ReanchorSaves ==
    /\ reanchor.step = "save"
    /\ \/ /\ cfg' = [offset |-> {reanchor.offset}, zone |-> reanchor.zone]
          /\ reanchor' = [reanchor EXCEPT !.step = "anchor"]
       \/ SavesFail /\ reanchor' = Idle /\ UNCHANGED cfg
    /\ UNCHANGED <<worldVars, staticVars, call, saverVars, reanchors>>

MarkSeeded == highWater' = {reanchor.offset}

\* set_anchor, its two stores
ReanchorAnchors ==
    /\ reanchor.step = "anchor"
    /\ anchor' = {reanchor.offset}
    /\ \/ /\ "stores" \in Torn
          /\ reanchor' = [reanchor EXCEPT !.step = "mark"]
          /\ UNCHANGED highWater
       \/ /\ "stores" \notin Torn
          /\ MarkSeeded
          /\ reanchor' = [reanchor EXCEPT !.step = "zone"]
    /\ UNCHANGED <<worldVars, recorded, call, saverVars, reanchors, cfg>>

ReanchorSeedsMark ==
    /\ reanchor.step = "mark"
    /\ MarkSeeded
    /\ reanchor' = [reanchor EXCEPT !.step = "zone"]
    /\ UNCHANGED <<worldVars, anchor, recorded, call, saverVars, reanchors, cfg>>

\* set_anchor_zone
ReanchorZones ==
    /\ reanchor.step = "zone"
    /\ recorded' = reanchor.zone
    /\ reanchor' = Idle
    /\ UNCHANGED <<worldVars, anchor, highWater, call, saverVars, reanchors, cfg>>

-----------------------------------------------------------------------------
\* The service starts again: nothing of its memory is left.
Restart ==
    /\ Restarts
    /\ anchor' = cfg.offset /\ recorded' = cfg.zone
    /\ highWater' = Restored
    /\ call' = [r \in Readers |-> Idle]
    /\ saver' = Idle /\ lastSaved' = {}
    /\ reanchor' = Idle
    /\ UNCHANGED <<worldVars, disk, reanchors, cfg>>

Now(r) ==
    \/ NowBegins(r) \/ NowObserves(r) \/ NowIdentifies(r) \/ NowRecalls(r)
    \/ NowDecides(r) \/ NowRaises(r) \/ NowBelieves(r)

Saver == SaverBegins \/ SaverMarks \/ SaverWrites

ReAnchor ==
    \/ ReanchorBegins \/ ReanchorIdentifies \/ ReanchorSaves
    \/ ReanchorAnchors \/ ReanchorSeedsMark \/ ReanchorZones

World == ZoneChanges \/ SeasonChanges

Next == (\E r \in Readers : Now(r)) \/ Saver \/ ReAnchor \/ World \/ Restart

Spec == Init /\ [][Next]_vars

-----------------------------------------------------------------------------
(* "The largest offset seen while the zone identity still matched the         *)
(* recorded one" (src/clock.rs): the mark is the anchor's offset, or one the  *)
(* recorded zone has.                                                         *)
MarkIsOfRecordedZone ==
    reanchor = Idle => \A z \in recorded, h \in highWater \ anchor :
                         \E s \in Seasons : h = Offset[z][s]
=============================================================================
