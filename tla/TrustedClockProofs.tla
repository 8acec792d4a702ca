------------------------- MODULE TrustedClockProofs -------------------------
(* Theorems about TrustedClock and its history, for every set of zones,      *)
(* offsets and readers.                                                      *)
EXTENDS TrustedClockHistory, TLAPS

\* The highest of a number and an Option is one of them, and none is higher.
LEMMA HighestOfTwo ==
    ASSUME NEW a \in Int, NEW o \in Option(Int)
    PROVE  /\ Highest({a} \union o) \in {a} \union o
           /\ \A y \in {a} \union o : Highest({a} \union o) >= y
<1>1. \E x \in {a} \union o : \A y \in {a} \union o : x >= y
  <2>1. CASE o = {}
    BY <2>1
  <2>2. ASSUME NEW b \in Int, o = {b} PROVE \E x \in {a} \union o : \A y \in {a} \union o : x >= y
    <3>1. CASE a >= b
      BY <2>2, <3>1
    <3>2. CASE ~(a >= b)
      BY <2>2, <3>2
    <3> QED BY <3>1, <3>2
  <2> QED BY <2>1, <2>2 DEF Option
<1> QED BY <1>1 DEF Highest

\* Every offset is an integer, and the OS reports one of them.
LEMMA OffsetsAreIntegers == Offsets \subseteq Int
  BY OffsetAssumption DEF Offsets

LEMMA OsReportsAnOffset ==
    ASSUME TypeOK
    PROVE  OsOffset \in Offsets
  BY DEF TypeOK, OsOffset, Offsets

\* So is the highest of an offset and an Option of one.
LEMMA HighestIsAnOffset ==
    ASSUME NEW a \in Offsets, NEW o \in Option(Offsets)
    PROVE  Highest({a} \union o) \in Offsets
<1>1. o \in Option(Int)
  BY OffsetsAreIntegers DEF Option
<1>2. o \subseteq Offsets
  BY DEF Option
<1> QED BY <1>1, <1>2, HighestOfTwo, OffsetsAreIntegers

LEMMA ZoneIsAnOption ==
    ASSUME TypeOK, NEW z \in Identities
    PROVE  z \in Option(Zones)
<1>1. z \in {{zone}, {}}
  BY DEF Identities
<1> QED BY <1>1 DEF TypeOK, Option

\* What restore leaves of an anchor is an Option of an offset: the anchor, or the mark on disk.
LEMMA RestoredIsAnOption ==
    ASSUME TypeOK
    PROVE  /\ Restored \in Option(Offsets)
           /\ \A h \in Restored : h \in cfg.offset \/ \E m \in disk : h = m.highWater
<1> DEFINE marks == {m.highWater : m \in {n \in disk : Believable(n)}}
<1>1. marks \in Option(Offsets)
  <2>1. CASE disk = {}
    BY <2>1 DEF Option
  <2>2. ASSUME NEW m \in Marks, disk = {m} PROVE marks \in Option(Offsets)
    <3>1. marks = {m.highWater} \/ marks = {}
      BY <2>2
    <3> QED BY <3>1 DEF Marks, Option
  <2> QED BY <2>1, <2>2 DEF TypeOK, Option
<1>2. Restored = {Highest({o} \union marks) : o \in cfg.offset}
  BY DEF Restored
<1>3. \A h \in marks : \E m \in disk : h = m.highWater
  OBVIOUS
<1> HIDE DEF marks
<1>4. CASE cfg.offset = {}
  BY <1>2, <1>4 DEF Option
<1>5. ASSUME NEW o \in Offsets, cfg.offset = {o}
      PROVE  /\ Restored \in Option(Offsets)
             /\ \A h \in Restored : h \in cfg.offset \/ \E m \in disk : h = m.highWater
  <2>1. Restored = {Highest({o} \union marks)}
    BY <1>2, <1>5
  <2>2. marks \in Option(Int) /\ o \in Int
    BY <1>1, OffsetsAreIntegers DEF Option
  <2>3. Highest({o} \union marks) \in {o} \union marks
    BY <2>2, HighestOfTwo
  <2> QED BY <1>1, <1>3, <1>5, <2>1, <2>3, HighestIsAnOffset DEF Option
<1> QED BY <1>4, <1>5 DEF TypeOK, Option

LEMMA TypeInit == Init => TypeOK
<1> SUFFICES ASSUME Init PROVE TypeOK
  OBVIOUS
<1>1. OsOffset \in Offsets
  BY DEF Init, OsOffset, Offsets
<1>2. cfg \in [offset : Option(Offsets), zone : Option(Zones)]
  <2>1. CASE cfg \in [offset : {{}}, zone : {{}}]
    BY <2>1 DEF Option
  <2>2. CASE \E z \in Identities \union {{}} : cfg = [offset |-> {OsOffset}, zone |-> z]
    <3>1. PICK z \in {{zone}, {}} : cfg = [offset |-> {OsOffset}, zone |-> z]
      BY <2>2 DEF Identities
    <3>2. z \in Option(Zones) /\ {OsOffset} \in Option(Offsets)
      BY <1>1 DEF Init, Option
    <3> QED BY <3>1, <3>2
  <2> QED BY <2>1, <2>2 DEF Init, Configs
<1>3. call \in [Readers -> Calls] /\ saver \in Savers /\ reanchor \in Reanchors
  BY DEF Init, Calls, Savers, Reanchors
<1>4. disk \in Option(Marks) /\ lastSaved \in Option(Marks)
  BY DEF Init, Option
<1>5. reanchors \in 0 .. MaxReanchors
  BY BoundsAssumption DEF Init
<1>6. anchor \in Option(Offsets) /\ highWater \in Option(Offsets) /\ recorded \in Option(Zones)
  BY <1>2 DEF Init
<1>7. zone \in Zones /\ season \in Seasons
  BY DEF Init
<1> QED BY <1>2, <1>3, <1>4, <1>5, <1>6, <1>7 DEF TypeOK

\* What a record of a call holds, by how far the call is.
LEMMA CallFields ==
    ASSUME NEW c \in Calls
    PROVE  /\ c.step \in {"observe", "identify", "recall", "decide"} => c.anchor \in Offsets
           /\ c.step \in {"identify", "recall", "decide", "raise"} => c.observed \in Offsets
           /\ c.step \in {"recall", "decide"} => c.current \in Option(Zones)
           /\ c.step = "decide" => c.recorded \in Option(Zones)
           /\ c.step = "answered" => c.answer \in Offsets
  BY DEF Calls, Idle

\* A decision is to move the mark, to believe the OS, or an answer.
LEMMA DecideGivesACall ==
    ASSUME TypeOK, NEW c \in Calls, c.step = "decide"
    PROVE  Decide(c) \in Calls
<1>1. c.anchor \in Offsets /\ c.observed \in Offsets
  BY CallFields
<1>2. Highest({c.anchor} \union highWater) \in Offsets
  BY <1>1, HighestIsAnOffset DEF TypeOK
<1>3. \A o \in Offsets : /\ [step |-> "raise", observed |-> o] \in Calls
                        /\ [step |-> "answered", answer |-> o] \in Calls
                        /\ [step |-> "believe"] \in Calls
  BY DEF Calls
<1> HIDE DEF Calls
<1> QED BY <1>1, <1>2, <1>3 DEF Decide

\* Every step of now() keeps the type of the reader's record.
LEMMA TypeNow ==
    ASSUME TypeOK, NEW r \in Readers, Now(r)
    PROVE  TypeOK'
<1> DEFINE c == call[r]
<1>0. c \in Calls /\ call \in [Readers -> Calls]
  BY DEF TypeOK
<1>1. SUFFICES call' \in [Readers -> Calls] /\ highWater' \in Option(Offsets)
  <2>1. UNCHANGED <<worldVars, anchor, recorded, saverVars, reanchorVars>>
    BY DEF Now, NowBegins, NowObserves, NowIdentifies, NowRecalls, NowDecides, NowRaises,
           NowBelieves, staticVars
  <2> QED BY <1>1, <2>1 DEF TypeOK, worldVars, saverVars, reanchorVars
<1>2. ASSUME NEW d \in Calls, call' = [call EXCEPT ![r] = d], UNCHANGED staticVars
      PROVE  call' \in [Readers -> Calls] /\ highWater' \in Option(Offsets)
  BY <1>0, <1>2 DEF TypeOK, staticVars
<1>3. CASE NowBegins(r)
  <2>1. CASE anchor = {}
    <3>1. [step |-> "believe"] \in Calls
      BY DEF Calls
    <3> QED BY <1>2, <1>3, <2>1, <3>1 DEF NowBegins
  <2>2. ASSUME NEW a \in Offsets, anchor = {a}
        PROVE call' \in [Readers -> Calls] /\ highWater' \in Option(Offsets)
    <3>1. [step |-> "observe", anchor |-> a] \in Calls
      BY DEF Calls
    <3>2. (CHOOSE x \in anchor : TRUE) = a
      BY <2>2
    <3> QED BY <1>2, <1>3, <2>2, <3>1, <3>2 DEF NowBegins
  <2> QED BY <2>1, <2>2 DEF TypeOK, Option
<1>4. CASE NowObserves(r)
  <2>1. c.anchor \in Offsets
    BY <1>0, <1>4, CallFields DEF NowObserves
  <2>2. [step |-> "identify", anchor |-> c.anchor, observed |-> OsOffset] \in Calls
    BY <2>1, OsReportsAnOffset DEF Calls
  <2> QED BY <1>2, <1>4, <2>2 DEF NowObserves
<1>5. CASE NowIdentifies(r)
  <2>1. c.anchor \in Offsets /\ c.observed \in Offsets
    BY <1>0, <1>5, CallFields DEF NowIdentifies
  <2>2. PICK z \in Identities :
           call' = [call EXCEPT ![r] = [step |-> "recall", anchor |-> c.anchor,
                                        observed |-> c.observed, current |-> z]]
    BY <1>5 DEF NowIdentifies
  <2>3. [step |-> "recall", anchor |-> c.anchor, observed |-> c.observed, current |-> z] \in Calls
    BY <2>1, ZoneIsAnOption DEF Calls
  <2> QED BY <1>2, <1>5, <2>2, <2>3 DEF NowIdentifies
<1>6. CASE NowRecalls(r)
  <2>1. c.anchor \in Offsets /\ c.observed \in Offsets /\ c.current \in Option(Zones)
    BY <1>0, <1>6, CallFields DEF NowRecalls
  <2>2. [step |-> "decide", anchor |-> c.anchor, observed |-> c.observed,
         current |-> c.current, recorded |-> recorded] \in Calls
    BY <2>1 DEF Calls, TypeOK
  <2> QED BY <1>2, <1>6, <2>2 DEF NowRecalls
<1>7. CASE NowDecides(r)
  BY <1>0, <1>2, <1>7, DecideGivesACall DEF NowDecides
<1>8. CASE NowRaises(r)
  <2>1. c.observed \in Offsets
    BY <1>0, <1>8, CallFields DEF NowRaises
  <2>2. Highest({c.observed} \union highWater) \in Offsets
    BY <2>1, HighestIsAnOffset DEF TypeOK
  <2>3. highWater' \in Option(Offsets)
    BY <1>8, <2>2 DEF NowRaises, Raised, Option
  <2>4. [step |-> "believe"] \in Calls
    BY DEF Calls
  <2> QED BY <1>0, <1>8, <2>3, <2>4 DEF NowRaises
<1>9. CASE NowBelieves(r)
  <2>1. [step |-> "answered", answer |-> OsOffset] \in Calls
    BY OsReportsAnOffset DEF Calls
  <2> QED BY <1>2, <1>9, <2>1 DEF NowBelieves
<1> QED BY <1>3, <1>4, <1>5, <1>6, <1>7, <1>8, <1>9 DEF Now

\* Every step of the saver keeps the types.
LEMMA TypeSaver == ASSUME TypeOK, Saver PROVE TypeOK'
<1>1. SUFFICES /\ saver' \in Savers
               /\ lastSaved' \in Option(Marks) /\ disk' \in Option(Marks)
  <2>1. UNCHANGED <<worldVars, staticVars, call, reanchorVars>>
    BY DEF Saver, SaverBegins, SaverMarks, SaverWrites
  <2> QED BY <1>1, <2>1 DEF TypeOK, worldVars, staticVars, reanchorVars
<1>2. CASE SaverBegins
  <2>1. PICK a \in Offsets : saver' = [step |-> "mark", anchor |-> a]
    BY <1>2 DEF SaverBegins, TypeOK, Option
  <2>2. [step |-> "mark", anchor |-> a] \in Savers
    BY DEF Savers
  <2> QED BY <1>2, <2>1, <2>2 DEF SaverBegins, TypeOK
<1>3. CASE SaverMarks
  <2> DEFINE mark == [anchor |-> saver.anchor,
                      highWater |-> Highest({saver.anchor} \union highWater)]
  <2>1. saver.anchor \in Offsets
    BY <1>3 DEF SaverMarks, TypeOK, Savers, Idle
  <2>2. mark \in Marks
    BY <2>1, HighestIsAnOffset DEF TypeOK, Marks
  <2>3. [step |-> "write", mark |-> mark] \in Savers /\ Idle \in Savers
    BY <2>2 DEF Savers
  <2>4. saver' \in {Idle, [step |-> "write", mark |-> mark]}
    BY <1>3 DEF SaverMarks
  <2> HIDE DEF mark
  <2> QED BY <1>3, <2>3, <2>4 DEF SaverMarks, TypeOK
<1>4. CASE SaverWrites
  <2>1. saver.mark \in Marks
    BY <1>4 DEF SaverWrites, TypeOK, Savers, Idle
  <2>2. {saver.mark} \in Option(Marks)
    BY <2>1 DEF Option
  <2>3. Idle \in Savers
    BY DEF Savers
  <2> QED BY <1>4, <2>2, <2>3 DEF SaverWrites, TypeOK
<1> QED BY <1>2, <1>3, <1>4 DEF Saver

\* What the handler of a re-anchor holds.
LEMMA ReanchorFields ==
    ASSUME TypeOK
    PROVE  /\ reanchor.step # "idle" => reanchor.offset \in Offsets
           /\ reanchor.step \in {"save", "anchor", "mark", "zone"} => reanchor.zone \in Option(Zones)
  BY DEF TypeOK, Reanchors, Idle

\* Every step of a re-anchor keeps the types.
LEMMA TypeReanchor == ASSUME TypeOK, ReAnchor PROVE TypeOK'
<1>1. SUFFICES /\ anchor' \in Option(Offsets) /\ highWater' \in Option(Offsets)
               /\ recorded' \in Option(Zones)
               /\ cfg' \in [offset : Option(Offsets), zone : Option(Zones)]
               /\ reanchor' \in Reanchors /\ reanchors' \in 0 .. MaxReanchors
  <2>1. UNCHANGED <<worldVars, call, saverVars>>
    BY DEF ReAnchor, ReanchorBegins, ReanchorIdentifies, ReanchorSaves, ReanchorAnchors,
           ReanchorSeedsMark, ReanchorZones
  <2> QED BY <1>1, <2>1 DEF TypeOK, worldVars, saverVars
<1>2. Idle \in Reanchors
  BY DEF Reanchors
<1>3. \A s \in {"save", "anchor", "mark", "zone"}, o \in Offsets, z \in Option(Zones) :
        [step |-> s, offset |-> o, zone |-> z] \in Reanchors
  BY DEF Reanchors
<1>4. reanchor.step \in {"save", "anchor", "mark", "zone"} =>
        reanchor = [step |-> reanchor.step, offset |-> reanchor.offset, zone |-> reanchor.zone]
  BY DEF TypeOK, Reanchors, Idle
<1>5. CASE ReanchorBegins
  <2>1. [step |-> "identify", offset |-> OsOffset] \in Reanchors
    BY OsReportsAnOffset DEF Reanchors
  <2>2. reanchors + 1 \in 0 .. MaxReanchors
    BY <1>5, BoundsAssumption DEF ReanchorBegins, TypeOK
  <2> QED BY <1>5, <2>1, <2>2 DEF ReanchorBegins, TypeOK, staticVars
<1>6. CASE ReanchorIdentifies
  <2>1. PICK z \in Identities :
           reanchor' = [step |-> "save", offset |-> reanchor.offset, zone |-> z]
    BY <1>6 DEF ReanchorIdentifies
  <2>2. reanchor.offset \in Offsets
    BY <1>6, ReanchorFields DEF ReanchorIdentifies
  <2>3. reanchor' \in Reanchors
    BY <1>3, <2>1, <2>2, ZoneIsAnOption
  <2> QED BY <1>6, <2>3 DEF ReanchorIdentifies, TypeOK, staticVars
<1>7. CASE ReanchorSaves
  <2>1. reanchor.offset \in Offsets /\ reanchor.zone \in Option(Zones)
    BY <1>7, ReanchorFields DEF ReanchorSaves
  <2>2. UNCHANGED <<staticVars, reanchors>>
    BY <1>7 DEF ReanchorSaves
  <2>3. CASE /\ cfg' = [offset |-> {reanchor.offset}, zone |-> reanchor.zone]
             /\ reanchor' = [reanchor EXCEPT !.step = "anchor"]
    <3>1. reanchor' = [step |-> "anchor", offset |-> reanchor.offset, zone |-> reanchor.zone]
      BY <1>4, <1>7, <2>3 DEF ReanchorSaves
    <3>2. reanchor' \in Reanchors
      BY <1>3, <2>1, <3>1
    <3>3. cfg' \in [offset : Option(Offsets), zone : Option(Zones)]
      BY <2>1, <2>3 DEF Option
    <3> QED BY <2>2, <3>2, <3>3 DEF TypeOK, staticVars
  <2>4. CASE reanchor' = Idle /\ UNCHANGED cfg
    BY <1>2, <2>2, <2>4 DEF TypeOK, staticVars
  <2> QED BY <1>7, <2>3, <2>4 DEF ReanchorSaves
<1>8. CASE ReanchorAnchors
  <2>1. reanchor.offset \in Offsets /\ reanchor.zone \in Option(Zones)
    BY <1>8, ReanchorFields DEF ReanchorAnchors
  <2>2. \E s \in {"mark", "zone"} :
          reanchor' = [step |-> s, offset |-> reanchor.offset, zone |-> reanchor.zone]
    BY <1>4, <1>8 DEF ReanchorAnchors
  <2>3. reanchor' \in Reanchors
    BY <1>3, <2>1, <2>2
  <2>4. {reanchor.offset} \in Option(Offsets)
    BY <2>1 DEF Option
  <2>5. highWater' \in {highWater, {reanchor.offset}}
    BY <1>8 DEF ReanchorAnchors, MarkSeeded
  <2> QED BY <1>8, <2>3, <2>4, <2>5 DEF ReanchorAnchors, TypeOK
<1>9. CASE ReanchorSeedsMark
  <2>1. reanchor.offset \in Offsets /\ reanchor.zone \in Option(Zones)
    BY <1>9, ReanchorFields DEF ReanchorSeedsMark
  <2>2. reanchor' = [step |-> "zone", offset |-> reanchor.offset, zone |-> reanchor.zone]
    BY <1>4, <1>9 DEF ReanchorSeedsMark
  <2>3. reanchor' \in Reanchors
    BY <1>3, <2>1, <2>2
  <2>4. {reanchor.offset} \in Option(Offsets)
    BY <2>1 DEF Option
  <2> QED BY <1>9, <2>3, <2>4 DEF ReanchorSeedsMark, MarkSeeded, TypeOK
<1>10. CASE ReanchorZones
  BY <1>2, <1>10, ReanchorFields DEF ReanchorZones, TypeOK
<1> QED BY <1>5, <1>6, <1>7, <1>8, <1>9, <1>10 DEF ReAnchor

LEMMA TypeNext == TypeOK /\ [Next]_vars => TypeOK'
<1> SUFFICES ASSUME TypeOK, [Next]_vars PROVE TypeOK'
  OBVIOUS
<1>1. CASE \E r \in Readers : Now(r)
  BY <1>1, TypeNow
<1>2. CASE World
  BY <1>2 DEF World, ZoneChanges, SeasonChanges, TypeOK, staticVars, saverVars, reanchorVars
<1>3. CASE Restart
  <2>1. call' \in [Readers -> Calls]
    BY <1>3 DEF Restart, Calls
  <2>2. Idle \in Savers /\ Idle \in Reanchors
    BY DEF Savers, Reanchors
  <2>3. highWater' \in Option(Offsets)
    BY <1>3, RestoredIsAnOption DEF Restart
  <2>4. lastSaved' \in Option(Marks)
    BY <1>3 DEF Restart, Option
  <2> QED BY <1>3, <2>1, <2>2, <2>3, <2>4 DEF Restart, TypeOK, worldVars
<1>4. CASE UNCHANGED vars
  BY <1>4 DEF TypeOK, vars, worldVars, staticVars, saverVars, reanchorVars
<1> QED BY <1>1, <1>2, <1>3, <1>4, TypeSaver, TypeReanchor DEF Next

-----------------------------------------------------------------------------
(* Every static, file and half-finished call holds an offset the OS has      *)
(* reported, wherever the threads stand: TypeOK of the clock.                *)
THEOREM TypeCorrect == Spec => []TypeOK
  BY TypeInit, TypeNext, PTL DEF Spec

-----------------------------------------------------------------------------
(* The high-water mark, where the zone holds still while a call or a         *)
(* re-anchor is under way: what each of them has read is still so.           *)

ReadsHold ==
    \A r \in Readers :
      /\ call[r].step \in {"identify", "recall", "decide", "raise"} => call[r].observed = OsOffset
      /\ call[r].step \in {"recall", "decide"} =>
           /\ call[r].current \subseteq {zone}
           /\ call[r].current = {} => IdentityFails

\* The zone a call has compared with is still the recorded one, or the machine's own is.
\* One that was vouched for has what the OS reports, or is about to be left behind for it.
ComparedHolds ==
    \A r \in Readers :
      /\ call[r].step = "decide" => recorded = call[r].recorded \/ recorded \subseteq {zone}
      /\ call[r].step = "raise" => recorded \subseteq {zone}
      /\ call[r].step = "raise" \/ (call[r].step = "decide" /\ Vouched(call[r])) =>
           recorded = {zone} \/ OsOffset \in anchor

ReanchorHolds ==
    /\ reanchor.step # "idle" => reanchor.offset = OsOffset
    /\ reanchor.step \in {"save", "anchor", "mark", "zone"} =>
         /\ reanchor.zone \subseteq {zone}
         /\ reanchor.zone = {} => IdentityFails
    /\ reanchor.step \in {"mark", "zone"} => anchor = {reanchor.offset}

\* A zone has an offset if it has it in some season.
RecordedHas(S) == \A z \in recorded, o \in S : \E s \in Seasons : o = Offset[z][s]

MarkHolds ==
    /\ reanchor.step = "zone" => highWater \subseteq {OsOffset}
    /\ reanchor.step # "zone" => RecordedHas(highWater)
    /\ reanchor.step \notin {"mark", "zone"} => RecordedHas(anchor)

\* Where nobody re-anchors, neither file says other than memory.
DiskHolds ==
    MaxReanchors = 0 =>
      /\ reanchor = Idle /\ anchor = cfg.offset /\ recorded = cfg.zone
      /\ saver.step = "mark" => anchor = {saver.anchor}
      /\ saver.step = "write" => RecordedHas({saver.mark.highWater})
      /\ \A m \in disk : RecordedHas({m.highWater})

MarkInv == TypeOK /\ ReadsHold /\ ComparedHolds /\ ReanchorHolds /\ MarkHolds /\ DiskHolds

\* What the OS reports is one of the offsets of its zone.
LEMMA OsIsOfItsZone ==
    ASSUME TypeOK, recorded \subseteq {zone}
    PROVE  RecordedHas({OsOffset})
  BY DEF TypeOK, OsOffset, RecordedHas

\* A mark that moves stays the recorded zone's, or becomes what the OS reports.
LEMMA RaiseKeepsMark ==
    ASSUME MarkInv, NEW r \in Readers, NowRaises(r)
    PROVE  MarkHolds' /\ highWater' \subseteq {OsOffset} \union highWater
<1>1. call[r].observed = OsOffset /\ recorded \subseteq {zone}
  BY DEF MarkInv, ReadsHold, ComparedHolds, NowRaises
<1>2. OsOffset \in Int /\ highWater \in Option(Int)
  BY OsReportsAnOffset, OffsetsAreIntegers DEF MarkInv, TypeOK, Option
<1>3. highWater' \subseteq {OsOffset} \union highWater
  <2>1. highWater' = {Highest({OsOffset} \union highWater)}
    BY <1>1 DEF NowRaises, Raised
  <2> QED BY <2>1, <1>2, HighestOfTwo
<1>4. UNCHANGED <<zone, season, anchor, recorded, reanchor>>
  BY DEF NowRaises, worldVars, reanchorVars
<1>5. OsOffset' = OsOffset
  BY <1>4 DEF OsOffset
<1>6. reanchor'.step = "zone" => highWater' \subseteq {OsOffset'}
  BY <1>3, <1>4, <1>5 DEF MarkInv, MarkHolds
<1>7. reanchor'.step # "zone" => RecordedHas(highWater)'
  <2>1. RecordedHas({OsOffset})
    BY <1>1, OsIsOfItsZone DEF MarkInv
  <2> QED BY <1>3, <1>4, <2>1 DEF MarkInv, MarkHolds, RecordedHas
<1>8. reanchor'.step \notin {"mark", "zone"} => RecordedHas(anchor)'
  BY <1>4 DEF MarkInv, MarkHolds, RecordedHas
<1> QED BY <1>3, <1>6, <1>7, <1>8 DEF MarkHolds

\* A call keeps what it has read.
LEMMA NowKeepsReads ==
    ASSUME MarkInv, NEW r \in Readers, Now(r)
    PROVE  ReadsHold' /\ ComparedHolds' /\ ReanchorHolds'
<1> DEFINE c == call[r]
<1>1. UNCHANGED <<zone, season, anchor, recorded, reanchor>>
  BY DEF Now, NowBegins, NowObserves, NowIdentifies, NowRecalls, NowDecides, NowRaises,
         NowBelieves, worldVars, reanchorVars, staticVars
<1>2. OsOffset' = OsOffset
  BY <1>1 DEF OsOffset
<1>3. c \in Calls /\ call \in [Readers -> Calls]
  BY DEF MarkInv, TypeOK
<1>4. ReanchorHolds'
  BY <1>1, <1>2 DEF MarkInv, ReanchorHolds
<1>5. SUFFICES
        /\ \A q \in Readers \ {r} : call'[q] = call[q]
        /\ call'[r].step \in {"identify", "recall", "decide", "raise"} => call'[r].observed = OsOffset
        /\ call'[r].step \in {"recall", "decide"} =>
             /\ call'[r].current \subseteq {zone}
             /\ call'[r].current = {} => IdentityFails
        /\ call'[r].step = "decide" => recorded = call'[r].recorded \/ recorded \subseteq {zone}
        /\ call'[r].step = "raise" => recorded \subseteq {zone}
        /\ call'[r].step = "raise" \/ (call'[r].step = "decide" /\ Vouched(call'[r])) =>
             recorded = {zone} \/ OsOffset \in anchor
  BY <1>1, <1>2, <1>4, <1>5 DEF MarkInv, ReadsHold, ComparedHolds, Vouched
<1>6. \A q \in Readers \ {r} : call'[q] = call[q]
  BY <1>3 DEF Now, NowBegins, NowObserves, NowIdentifies, NowRecalls, NowDecides, NowRaises,
         NowBelieves
<1>7. CASE NowBegins(r)
  BY <1>3, <1>6, <1>7 DEF NowBegins
<1>8. CASE NowObserves(r)
  BY <1>3, <1>6, <1>8 DEF NowObserves
<1>9. CASE NowIdentifies(r)
  <2>1. PICK z \in Identities :
           call' = [call EXCEPT ![r] = [step |-> "recall", anchor |-> c.anchor,
                                        observed |-> c.observed, current |-> z]]
    BY <1>9 DEF NowIdentifies
  <2>2. z \subseteq {zone} /\ (z = {} => IdentityFails)
    BY DEF Identities
  <2>3. c.observed = OsOffset
    BY <1>9 DEF NowIdentifies, MarkInv, ReadsHold
  <2> QED BY <1>3, <1>6, <2>1, <2>2, <2>3
<1>10. CASE NowRecalls(r)
  BY <1>3, <1>6, <1>10 DEF NowRecalls, MarkInv, ReadsHold, Vouched
<1>11. CASE NowDecides(r)
  <2>1. /\ c.observed = OsOffset /\ c.current \subseteq {zone}
        /\ recorded = c.recorded \/ recorded \subseteq {zone}
        /\ Vouched(c) => recorded = {zone} \/ OsOffset \in anchor
    BY <1>11 DEF NowDecides, MarkInv, ReadsHold, ComparedHolds
  <2>2. call'[r] = Decide(c)
    BY <1>3, <1>11 DEF NowDecides
  <2>3. \/ Vouched(c) /\ call'[r] = [step |-> "raise", observed |-> c.observed]
        \/ call'[r].step \in {"believe", "answered"}
    BY <2>2 DEF Decide
  <2>4. Vouched(c) => c.recorded \subseteq {zone}
    BY <2>1 DEF Vouched
  <2> QED BY <1>6, <2>1, <2>3, <2>4
<1>12. CASE NowRaises(r)
  BY <1>3, <1>6, <1>12 DEF NowRaises
<1>13. CASE NowBelieves(r)
  BY <1>3, <1>6, <1>13 DEF NowBelieves
<1> QED BY <1>7, <1>8, <1>9, <1>10, <1>11, <1>12, <1>13 DEF Now

\* A re-anchor keeps what the calls have read, and leaves the mark to the new anchor.
LEMMA ReanchorKeepsMark ==
    ASSUME MarkInv, ReAnchor
    PROVE  ReadsHold' /\ ComparedHolds' /\ ReanchorHolds' /\ MarkHolds'
<1>1. UNCHANGED <<zone, season, call>>
  BY DEF ReAnchor, ReanchorBegins, ReanchorIdentifies, ReanchorSaves, ReanchorAnchors,
         ReanchorSeedsMark, ReanchorZones, worldVars
<1>2. OsOffset' = OsOffset
  BY <1>1 DEF OsOffset
<1>3. ReadsHold'
  BY <1>1, <1>2 DEF MarkInv, ReadsHold
<1>4. Idle.step = "idle" /\ reanchor \in Reanchors
  BY DEF Idle, MarkInv, TypeOK
<1>5. ASSUME UNCHANGED <<anchor, recorded, highWater>>, reanchor.step \notin {"mark", "zone"},
             reanchor'.step \notin {"mark", "zone"}
      PROVE  ComparedHolds' /\ MarkHolds'
  BY <1>1, <1>2, <1>5 DEF MarkInv, ComparedHolds, Vouched, MarkHolds, RecordedHas
<1>6. CASE ReanchorBegins
  <2>1. reanchor' = [step |-> "identify", offset |-> OsOffset] /\ reanchor.step = "idle"
    BY <1>4, <1>6 DEF ReanchorBegins
  <2>2. ReanchorHolds'
    BY <1>2, <2>1 DEF ReanchorHolds
  <2> QED BY <1>3, <1>5, <1>6, <2>1, <2>2 DEF ReanchorBegins, staticVars
<1>7. CASE ReanchorIdentifies
  <2>1. PICK z \in Identities :
           reanchor' = [step |-> "save", offset |-> reanchor.offset, zone |-> z]
    BY <1>7 DEF ReanchorIdentifies
  <2>2. z \subseteq {zone} /\ (z = {} => IdentityFails)
    BY DEF Identities
  <2>3. ReanchorHolds'
    BY <1>1, <1>2, <1>7, <2>1, <2>2 DEF ReanchorIdentifies, MarkInv, ReanchorHolds
  <2> QED BY <1>3, <1>5, <1>7, <2>1, <2>3 DEF ReanchorIdentifies, staticVars
<1>8. CASE ReanchorSaves
  <2>1. \/ reanchor' = Idle
        \/ reanchor' = [reanchor EXCEPT !.step = "anchor"]
    BY <1>8 DEF ReanchorSaves
  <2>2. ReanchorHolds'
    BY <1>1, <1>2, <1>4, <1>8, <2>1 DEF ReanchorSaves, Reanchors, MarkInv, ReanchorHolds
  <2>3. reanchor'.step \in {"idle", "anchor"}
    BY <1>4, <1>8, <2>1 DEF ReanchorSaves, Reanchors
  <2> QED BY <1>3, <1>5, <1>8, <2>2, <2>3 DEF ReanchorSaves, staticVars
<1>9. CASE ReanchorAnchors
  <2>1. \/ /\ reanchor' = [reanchor EXCEPT !.step = "mark"]
           /\ highWater' = highWater
        \/ /\ reanchor' = [reanchor EXCEPT !.step = "zone"]
           /\ highWater' = {reanchor.offset}
    BY <1>9 DEF ReanchorAnchors, MarkSeeded
  <2>2. reanchor.offset = OsOffset /\ anchor' = {reanchor.offset} /\ recorded' = recorded
    BY <1>9 DEF ReanchorAnchors, MarkInv, ReanchorHolds
  <2>3. ReanchorHolds'
    BY <1>1, <1>2, <1>4, <1>9, <2>1, <2>2
       DEF ReanchorAnchors, Reanchors, Idle, MarkInv, ReanchorHolds
  <2>4. \/ reanchor'.step = "mark" /\ highWater' = highWater
        \/ reanchor'.step = "zone" /\ highWater' = {reanchor.offset}
    BY <1>4, <1>9, <2>1 DEF ReanchorAnchors, Reanchors, Idle
  <2>5. RecordedHas(highWater)
    BY <1>9 DEF ReanchorAnchors, MarkInv, MarkHolds
  <2>6. MarkHolds'
    BY <1>2, <2>2, <2>4, <2>5 DEF MarkHolds, RecordedHas
  <2>7. ComparedHolds'
    BY <1>1, <1>2, <2>2 DEF MarkInv, ComparedHolds, Vouched
  <2> QED BY <1>3, <2>3, <2>6, <2>7
<1>10. CASE ReanchorSeedsMark
  <2>1. /\ reanchor' = [reanchor EXCEPT !.step = "zone"] /\ highWater' = {reanchor.offset}
        /\ UNCHANGED <<anchor, recorded>>
    BY <1>10 DEF ReanchorSeedsMark, MarkSeeded
  <2>2. ReanchorHolds'
    BY <1>1, <1>2, <1>4, <1>10, <2>1 DEF ReanchorSeedsMark, Reanchors, Idle, MarkInv, ReanchorHolds
  <2>3. reanchor'.step = "zone"
    BY <1>4, <1>10, <2>1 DEF ReanchorSeedsMark, Reanchors, Idle
  <2>4. reanchor.offset = OsOffset
    BY <1>10 DEF ReanchorSeedsMark, MarkInv, ReanchorHolds
  <2>5. MarkHolds'
    BY <1>2, <2>1, <2>3, <2>4 DEF MarkHolds
  <2>6. ComparedHolds'
    BY <1>1, <1>2, <2>1 DEF MarkInv, ComparedHolds, Vouched
  <2> QED BY <1>3, <2>2, <2>5, <2>6
<1>11. CASE ReanchorZones
  <2>1. recorded' = reanchor.zone /\ reanchor' = Idle /\ highWater' = highWater /\ anchor' = anchor
    BY <1>11 DEF ReanchorZones
  <2>2. reanchor.zone \subseteq {zone} /\ highWater \subseteq {OsOffset} /\ anchor = {OsOffset}
    BY <1>11 DEF ReanchorZones, MarkInv, ReanchorHolds, MarkHolds
  <2>3. ReanchorHolds' /\ ComparedHolds'
    BY <1>1, <1>2, <1>4, <2>1, <2>2 DEF ReanchorHolds, ComparedHolds, Vouched
  <2>4. MarkHolds'
    <3>1. season \in Seasons
      BY DEF MarkInv, TypeOK
    <3>2. RecordedHas(highWater)' /\ RecordedHas(anchor)'
      BY <2>1, <2>2, <3>1 DEF OsOffset, RecordedHas
    <3> QED BY <1>4, <2>1, <3>2 DEF MarkHolds
  <2> QED BY <1>3, <2>3, <2>4
<1> QED BY <1>6, <1>7, <1>8, <1>9, <1>10, <1>11 DEF ReAnchor

\* The saver writes what the recorded zone has.
LEMMA SaverKeepsDisk == ASSUME MarkInv, Saver PROVE DiskHolds'
<1> SUFFICES ASSUME MaxReanchors = 0 PROVE DiskHolds'
  BY DEF DiskHolds
<1> USE DEF MarkInv
<1>1. UNCHANGED <<reanchor, anchor, recorded, highWater, cfg>>
  BY DEF Saver, SaverBegins, SaverMarks, SaverWrites, staticVars, reanchorVars
<1>2. reanchor = Idle /\ anchor = cfg.offset /\ recorded = cfg.zone
  BY DEF DiskHolds
<1>3. RecordedHas(highWater) /\ RecordedHas(anchor)
  BY <1>2 DEF MarkHolds, Idle
<1>4. Idle.step = "idle"
  BY DEF Idle
<1>5. CASE SaverBegins
  <2>1. PICK a \in anchor : saver' = [step |-> "mark", anchor |-> a]
    BY <1>5 DEF SaverBegins
  <2>2. anchor = {a}
    BY <2>1 DEF TypeOK, Option
  <2> QED BY <1>1, <1>2, <1>5, <2>1, <2>2 DEF SaverBegins, DiskHolds, RecordedHas
<1>6. CASE SaverMarks
  <2> DEFINE mark == [anchor |-> saver.anchor,
                      highWater |-> Highest({saver.anchor} \union highWater)]
  <2>1. saver' \in {Idle, [step |-> "write", mark |-> mark]} /\ disk' = disk
    BY <1>6 DEF SaverMarks
  <2>2. anchor = {saver.anchor}
    BY <1>6 DEF SaverMarks, DiskHolds
  <2>3. saver.anchor \in Int /\ highWater \in Option(Int)
    BY <2>2, OffsetsAreIntegers DEF TypeOK, Option
  <2>4. Highest({saver.anchor} \union highWater) \in anchor \union highWater
    BY <2>2, <2>3, HighestOfTwo
  <2>5. RecordedHas({mark.highWater})
    BY <1>3, <2>4 DEF RecordedHas
  <2> HIDE DEF mark
  <2>6. saver'.step = "write" => RecordedHas({saver'.mark.highWater})
    BY <1>4, <2>1, <2>5
  <2>7. saver'.step # "mark"
    BY <1>4, <2>1
  <2> QED BY <1>1, <1>2, <2>1, <2>6, <2>7 DEF DiskHolds, RecordedHas
<1>7. CASE SaverWrites
  <2>1. RecordedHas({saver.mark.highWater})
    BY <1>7 DEF SaverWrites, DiskHolds
  <2>2. saver' = Idle /\ disk' \in {disk, {saver.mark}}
    BY <1>7 DEF SaverWrites
  <2> QED BY <1>1, <1>2, <1>4, <2>1, <2>2 DEF DiskHolds, RecordedHas
<1> QED BY <1>5, <1>6, <1>7 DEF Saver

\* What a restart reads back is what it had, where nobody re-anchors.
LEMMA RestartKeepsMark ==
    ASSUME MarkInv, Restart, MaxReanchors = 0
    PROVE  ReadsHold' /\ ComparedHolds' /\ ReanchorHolds' /\ MarkHolds' /\ DiskHolds'
<1>1. reanchor = Idle /\ anchor = cfg.offset /\ recorded = cfg.zone
  BY DEF MarkInv, DiskHolds
<1>2. /\ anchor' = anchor /\ recorded' = recorded /\ highWater' = Restored
      /\ saver' = Idle /\ reanchor' = Idle /\ UNCHANGED <<disk, cfg>>
      /\ \A r \in Readers : call'[r] = Idle
  BY <1>1 DEF Restart
<1>3. Idle.step = "idle"
  BY DEF Idle
<1>4. RecordedHas(anchor) /\ \A m \in disk : RecordedHas({m.highWater})
  BY <1>1, <1>3 DEF MarkInv, MarkHolds, DiskHolds
<1>5. RecordedHas(highWater)'
  BY <1>1, <1>2, <1>4, RestoredIsAnOption DEF MarkInv, RecordedHas
<1>6. ReadsHold' /\ ComparedHolds' /\ ReanchorHolds'
  BY <1>2, <1>3 DEF ReadsHold, ComparedHolds, ReanchorHolds
<1>7. MarkHolds'
  BY <1>2, <1>3, <1>4, <1>5 DEF MarkHolds, RecordedHas
<1>8. DiskHolds'
  BY <1>1, <1>2, <1>3, <1>4 DEF DiskHolds, RecordedHas
<1> QED BY <1>6, <1>7, <1>8

LEMMA MarkInit == Init => MarkInv
<1> SUFFICES ASSUME Init PROVE MarkInv
  OBVIOUS
<1>1. \A r \in Readers : call[r].step = "idle"
  BY DEF Init, Idle
<1>2. reanchor.step = "idle" /\ reanchor = Idle /\ saver.step = "idle" /\ disk = {}
  BY DEF Init, Idle
<1>3. highWater = anchor /\ anchor = cfg.offset /\ recorded = cfg.zone
  BY DEF Init
<1>4. RecordedHas(anchor)
  <2>1. CASE cfg.offset = {}
    BY <1>3, <2>1 DEF RecordedHas
  <2>2. CASE cfg.offset = {OsOffset} /\ cfg.zone \subseteq {zone}
    BY <1>3, <2>2, TypeInit, OsIsOfItsZone
  <2> QED BY <2>1, <2>2 DEF Init, Configs, Identities
<1> QED BY <1>1, <1>2, <1>3, <1>4, TypeInit
        DEF MarkInv, ReadsHold, ComparedHolds, ReanchorHolds, MarkHolds, DiskHolds

LEMMA MarkNext ==
    ASSUME "zone" \notin Torn, Restarts => MaxReanchors = 0
    PROVE  MarkInv /\ [Next]_vars => MarkInv'
<1> SUFFICES ASSUME MarkInv, [Next]_vars PROVE MarkInv'
  OBVIOUS
<1>1. TypeOK'
  BY TypeNext DEF MarkInv
<1>2. ASSUME UNCHANGED <<anchor, recorded, saver, disk, cfg, reanchor>> PROVE DiskHolds'
  BY <1>2 DEF MarkInv, DiskHolds, RecordedHas
<1>3. ASSUME UNCHANGED <<zone, season, anchor, recorded, highWater, reanchor>> PROVE MarkHolds'
  <2>1. OsOffset' = OsOffset
    BY <1>3 DEF OsOffset
  <2> QED BY <1>3, <2>1 DEF MarkInv, MarkHolds, RecordedHas
<1>4. ASSUME UNCHANGED <<zone, season, anchor, recorded, highWater, reanchor, call>>
      PROVE  ReadsHold' /\ ComparedHolds' /\ ReanchorHolds' /\ MarkHolds'
  <2>1. OsOffset' = OsOffset
    BY <1>4 DEF OsOffset
  <2>2. ReadsHold' /\ ComparedHolds'
    BY <1>4, <2>1 DEF MarkInv, ReadsHold, ComparedHolds, Vouched
  <2>3. ReanchorHolds'
    BY <1>4, <2>1 DEF MarkInv, ReanchorHolds
  <2> QED BY <1>3, <1>4, <2>2, <2>3
<1>5. ASSUME NEW r \in Readers, Now(r) PROVE MarkInv'
  <2>1. ReadsHold' /\ ComparedHolds' /\ ReanchorHolds'
    BY <1>5, NowKeepsReads
  <2>2. DiskHolds'
    BY <1>2, <1>5 DEF Now, NowBegins, NowObserves, NowIdentifies, NowRecalls, NowDecides,
       NowRaises, NowBelieves, saverVars, reanchorVars, staticVars
  <2>3. MarkHolds'
    <3>1. CASE NowRaises(r)
      BY <3>1, RaiseKeepsMark
    <3>2. CASE ~NowRaises(r)
      BY <1>3, <1>5, <3>2 DEF Now, NowBegins, NowObserves, NowIdentifies, NowRecalls, NowDecides,
         NowBelieves, worldVars, reanchorVars, staticVars
    <3> QED BY <3>1, <3>2
  <2> QED BY <1>1, <2>1, <2>2, <2>3 DEF MarkInv
<1>6. CASE Saver
  <2>1. UNCHANGED <<worldVars, staticVars, call, reanchorVars>>
    BY <1>6 DEF Saver, SaverBegins, SaverMarks, SaverWrites
  <2> QED BY <1>1, <1>4, <1>6, <2>1, SaverKeepsDisk DEF MarkInv, worldVars, staticVars, reanchorVars
<1>7. CASE ReAnchor
  <2>1. DiskHolds'
    <3>1. SUFFICES ASSUME MaxReanchors = 0 PROVE FALSE
      BY <3>1 DEF DiskHolds
    <3>2. reanchor.step = "idle" /\ ~(reanchors < MaxReanchors)
      BY <3>1 DEF MarkInv, DiskHolds, TypeOK, Idle
    <3> QED BY <1>7, <3>2 DEF ReAnchor, ReanchorBegins, ReanchorIdentifies, ReanchorSaves,
               ReanchorAnchors, ReanchorSeedsMark, ReanchorZones
  <2> QED BY <1>1, <1>7, <2>1, ReanchorKeepsMark DEF MarkInv
<1>8. CASE World
  <2>1. Undisturbed /\ UNCHANGED <<anchor, recorded, highWater, reanchor, call, saver, disk, cfg>>
    BY <1>8 DEF World, ZoneChanges, SeasonChanges, WorldMay, staticVars, saverVars, reanchorVars
  <2>2. reanchor.step = "idle"
    BY <2>1 DEF Undisturbed, Idle
  <2>3. ReadsHold' /\ ComparedHolds' /\ ReanchorHolds'
    BY <2>1, <2>2 DEF Undisturbed, ReadsHold, ComparedHolds, ReanchorHolds
  <2>4. MarkHolds'
    BY <2>1, <2>2 DEF MarkInv, MarkHolds, RecordedHas
  <2> QED BY <1>1, <1>2, <2>1, <2>3, <2>4 DEF MarkInv
<1>9. CASE Restart
  <2>1. MaxReanchors = 0
    BY <1>9 DEF Restart
  <2> QED BY <1>1, <1>9, <2>1, RestartKeepsMark DEF MarkInv
<1>10. CASE UNCHANGED vars
  BY <1>1, <1>2, <1>4, <1>10 DEF MarkInv, vars, worldVars, staticVars, saverVars, reanchorVars
<1> QED BY <1>5, <1>6, <1>7, <1>8, <1>9, <1>10 DEF Next

(* The high-water mark is the anchor's offset or one the recorded zone has,   *)
(* as clock.rs says of it, if the zone holds still while a call is under way, *)
(* and over restarts if nobody re-anchors; how the threads interleave, and    *)
(* how often the clock is re-anchored between restarts, does not matter.      *)
THEOREM MarkIsAlwaysOfRecordedZone ==
    ASSUME "zone" \notin Torn, Restarts => MaxReanchors = 0
    PROVE  Spec => []MarkIsOfRecordedZone
<1>1. MarkInv => MarkIsOfRecordedZone
  BY DEF MarkInv, MarkHolds, RecordedHas, MarkIsOfRecordedZone, Idle
<1> QED BY <1>1, MarkInit, MarkNext, PTL DEF Spec

-----------------------------------------------------------------------------
(* What callers are answered.  A call knows offsets that have been trusted    *)
(* since it began: its anchor, what the tolerance adds to it as long as no    *)
(* zone can be compared, and the mark once it has a zone to compare.          *)

Near(a) == {o \in Offsets : o - a \in -MaxDrift .. MaxDrift}
Blind(z) == z = {} \/ IdentityFails

CallIsLawful(r) ==
    /\ Trusted \subseteq lawful[r]
    /\ call[r].step \in {"observe", "identify", "recall", "decide"} => call[r].anchor \in lawful[r]
    /\ call[r].step \in {"observe", "identify", "recall"} /\ Blind(recorded) =>
         Near(call[r].anchor) \subseteq lawful[r]
    /\ call[r].step = "decide" /\ Blind(call[r].recorded) => Near(call[r].anchor) \subseteq lawful[r]
    /\ call[r].step = "decide" /\ call[r].recorded # {} => highWater \subseteq lawful[r]
    /\ call[r].step = "believe" => OsOffset \in lawful[r]
    /\ call[r].step = "answered" => call[r].answer \in lawful[r]

LawInv == MarkInv /\ \A r \in Readers : CallIsLawful(r)

\* An anchor is trusted, and so is what is near it, where no zone can be compared.
LEMMA TrustsTheAnchor ==
    ASSUME TypeOK, NEW a \in anchor
    PROVE  a \in Trusted /\ (Blind(recorded) => Near(a) \subseteq Trusted)
  BY DEF Trusted, Near, Blind

\* What the OS reports is trusted while it is the recorded zone's, or the anchor.
LEMMA TrustsTheOs ==
    ASSUME TypeOK, anchor = {} \/ recorded = {zone} \/ OsOffset \in anchor
    PROVE  OsOffset \in Trusted
<1>1. CASE anchor = {}
  BY <1>1, OsReportsAnOffset DEF Trusted
<1>2. CASE recorded = {zone}
  <2>1. OsOffset \in {Offset[z][s] : z \in recorded, s \in Seasons}
    BY <1>2 DEF OsOffset, TypeOK
  <2> QED BY <2>1, OsReportsAnOffset DEF Trusted
<1>3. CASE OsOffset \in anchor
  BY <1>3, TrustsTheAnchor
<1> QED BY <1>1, <1>2, <1>3

\* The mark is trusted, once a zone is recorded.
LEMMA TrustsTheMark ==
    ASSUME MarkInv, recorded # {}
    PROVE  highWater \subseteq Trusted
<1> SUFFICES ASSUME NEW h \in highWater PROVE h \in Trusted
  OBVIOUS
<1>1. h \in Offsets
  BY DEF MarkInv, TypeOK, Option
<1>2. CASE reanchor.step = "zone"
  <2>1. h = OsOffset /\ anchor = {OsOffset}
    BY <1>2 DEF MarkInv, MarkHolds, ReanchorHolds
  <2> QED BY <2>1, TrustsTheAnchor DEF MarkInv
<1>3. CASE reanchor.step # "zone"
  <2>1. PICK z \in recorded : TRUE
    OBVIOUS
  <2>2. \E s \in Seasons : h = Offset[z][s]
    BY <1>3 DEF MarkInv, MarkHolds, RecordedHas
  <2> QED BY <1>1, <2>2 DEF Trusted
<1> QED BY <1>2, <1>3

\* A decision is for offsets that have been trusted.
LEMMA DecidesLawfully ==
    ASSUME LawInv, NEW r \in Readers, call[r].step = "decide", NEW c, c = Decide(call[r])
    PROVE  /\ c.step \in {"raise", "believe", "answered"}
           /\ c.step = "believe" => OsOffset \in lawful[r]
           /\ c.step = "answered" => c.answer \in lawful[r]
<1> DEFINE d == call[r]
           a == d.anchor
<1>1. d \in Calls /\ CallIsLawful(r) /\ highWater \in Option(Offsets)
  BY DEF LawInv, MarkInv, TypeOK
<1>2. a \in lawful[r] /\ a \in Offsets
  BY <1>1, CallFields DEF CallIsLawful
<1>3. CASE Vouched(d)
  BY <1>3 DEF Decide
<1>4. CASE ~Vouched(d) /\ Substituted(d)
  <2>1. c = [step |-> "answered", answer |-> Highest({a} \union highWater)]
    BY <1>4 DEF Decide
  <2>2. highWater \subseteq lawful[r]
    BY <1>1, <1>4 DEF CallIsLawful, Substituted
  <2>3. Highest({a} \union highWater) \in {a} \union highWater
    <3>1. a \in Int /\ highWater \in Option(Int)
      BY <1>1, <1>2, OffsetsAreIntegers DEF Option
    <3> HIDE DEF a
    <3> QED BY <3>1, HighestOfTwo
  <2> QED BY <1>2, <2>1, <2>2, <2>3
<1>5. CASE ~Vouched(d) /\ ~Substituted(d) /\ Tolerated(d)
  <2>1. c = [step |-> "believe"]
    BY <1>5 DEF Decide
  <2>2. d.observed = OsOffset /\ (d.current = {} => IdentityFails)
    BY DEF LawInv, MarkInv, ReadsHold
  <2>3. Blind(d.recorded)
    BY <1>5, <2>2 DEF Vouched, Substituted, Blind
  <2>4. OsOffset \in Near(a)
    <3>1. OsOffset \in Offsets /\ OsOffset \in Int /\ a \in Int
      BY <1>2, OsReportsAnOffset, OffsetsAreIntegers DEF LawInv, MarkInv
    <3>2. OsOffset - a \in -MaxDrift .. MaxDrift
      BY <1>5, <2>2, <3>1, BoundsAssumption DEF Tolerated
    <3> QED BY <3>1, <3>2 DEF Near
  <2>5. OsOffset \in lawful[r]
    BY <1>1, <2>3, <2>4 DEF CallIsLawful
  <2> QED BY <2>1, <2>5
<1>6. CASE ~Vouched(d) /\ ~Substituted(d) /\ ~Tolerated(d)
  <2>1. c = [step |-> "answered", answer |-> a]
    BY <1>6 DEF Decide
  <2> QED BY <1>2, <2>1
<1> QED BY <1>3, <1>4, <1>5, <1>6

\* A call that goes on stays lawful.
LEMMA NowIsLawful ==
    ASSUME LawInv, MarkInv', NEW r \in Readers, Now(r),
           Trusted' \subseteq lawful'[r],
           NowBegins(r) \/ lawful[r] \subseteq lawful'[r]
    PROVE  CallIsLawful(r)'
<1> DEFINE c == call[r]
           L == lawful'[r]
<1>1. UNCHANGED <<zone, season, anchor, recorded>>
  BY DEF Now, NowBegins, NowObserves, NowIdentifies, NowRecalls, NowDecides, NowRaises,
         NowBelieves, worldVars, staticVars
<1>2. OsOffset' = OsOffset /\ Trusted' = Trusted
  BY <1>1 DEF OsOffset, Trusted
<1>3. MarkInv /\ TypeOK /\ CallIsLawful(r) /\ c \in Calls /\ call \in [Readers -> Calls]
  BY DEF LawInv, MarkInv, TypeOK
<1>4. CASE NowBegins(r)
  <2>1. CASE anchor = {}
    <3>1. call'[r] = [step |-> "believe"]
      BY <1>3, <1>4, <2>1 DEF NowBegins
    <3> QED BY <1>2, <1>3, <2>1, <3>1, TrustsTheOs DEF CallIsLawful
  <2>2. ASSUME NEW a \in Offsets, anchor = {a} PROVE CallIsLawful(r)'
    <3>1. call'[r] = [step |-> "observe", anchor |-> a]
      BY <1>3, <1>4, <2>2 DEF NowBegins
    <3>2. a \in L /\ (Blind(recorded) => Near(a) \subseteq L)
      BY <1>2, <1>3, <2>2, TrustsTheAnchor
    <3> QED BY <1>1, <3>1, <3>2 DEF CallIsLawful, Blind, Near
  <2> QED BY <1>3, <2>1, <2>2 DEF TypeOK, Option
<1>5. ASSUME ~NowBegins(r) PROVE lawful[r] \subseteq L
  BY <1>5
<1>6. CASE NowObserves(r)
  <2>1. call'[r] = [step |-> "identify", anchor |-> c.anchor, observed |-> OsOffset]
    BY <1>3, <1>6 DEF NowObserves
  <2>2. c.step = "observe"
    BY <1>6 DEF NowObserves
  <2> QED BY <1>1, <1>3, <1>5, <2>1, <2>2 DEF CallIsLawful, Blind, Near, NowBegins
<1>7. CASE NowIdentifies(r)
  <2>1. PICK z \in Identities :
           call'[r] = [step |-> "recall", anchor |-> c.anchor,
                       observed |-> c.observed, current |-> z]
    BY <1>3, <1>7 DEF NowIdentifies
  <2>2. c.step = "identify"
    BY <1>7 DEF NowIdentifies
  <2> QED BY <1>1, <1>3, <1>5, <2>1, <2>2 DEF CallIsLawful, Blind, Near, NowBegins
<1>8. CASE NowRecalls(r)
  <2>1. /\ call'[r] = [step |-> "decide", anchor |-> c.anchor, observed |-> c.observed,
                       current |-> c.current, recorded |-> recorded]
        /\ highWater' = highWater
    BY <1>3, <1>8 DEF NowRecalls, staticVars
  <2>2. c.step = "recall"
    BY <1>8 DEF NowRecalls
  <2>3. recorded # {} => highWater \subseteq L
    BY <1>2, <1>3, TrustsTheMark
  <2> QED BY <1>1, <1>3, <1>5, <2>1, <2>2, <2>3 DEF CallIsLawful, Blind, Near, NowBegins
<1>9. CASE NowDecides(r)
  <2>1. call'[r] = Decide(c) /\ c.step = "decide"
    BY <1>3, <1>9 DEF NowDecides
  <2>2. /\ call'[r].step \in {"raise", "believe", "answered"}
        /\ call'[r].step = "believe" => OsOffset \in lawful[r]
        /\ call'[r].step = "answered" => call'[r].answer \in lawful[r]
    BY <2>1, DecidesLawfully
  <2> QED BY <1>2, <1>5, <2>1, <2>2 DEF CallIsLawful, NowBegins
<1>10. CASE NowRaises(r)
  <2>1. call'[r] = [step |-> "believe"]
    BY <1>3, <1>10 DEF NowRaises
  <2>2. recorded = {zone} \/ OsOffset \in anchor
    BY <1>3, <1>10 DEF NowRaises, MarkInv, ComparedHolds
  <2> QED BY <1>2, <1>3, <2>1, <2>2, TrustsTheOs DEF CallIsLawful
<1>11. CASE NowBelieves(r)
  <2>1. call'[r] = [step |-> "answered", answer |-> OsOffset] /\ c.step = "believe"
    BY <1>3, <1>11 DEF NowBelieves
  <2> QED BY <1>3, <1>5, <2>1 DEF CallIsLawful, NowBegins
<1> QED BY <1>4, <1>6, <1>7, <1>8, <1>9, <1>10, <1>11 DEF Now

\* A call that waits stays lawful, whatever of this the others do.
LEMMA WaitingIsLawful ==
    ASSUME LawInv, NEW r \in Readers, call'[r] = call[r],
           lawful[r] \union Trusted' \subseteq lawful'[r],
           UNCHANGED <<zone, season>> \/ call[r].step \in {"idle", "answered"},
           Blind(recorded)' => Blind(recorded),
           highWater' \subseteq highWater \union Trusted'
    PROVE  CallIsLawful(r)'
<1>1. CallIsLawful(r)
  BY DEF LawInv
<1>2. CASE UNCHANGED <<zone, season>>
  <2>1. OsOffset' = OsOffset
    BY <1>2 DEF OsOffset
  <2> QED BY <1>1, <2>1 DEF CallIsLawful, Near, Blind
<1>3. CASE call[r].step \in {"idle", "answered"}
  BY <1>1, <1>3 DEF CallIsLawful
<1> QED BY <1>2, <1>3

\* A re-anchor trusts what it seeds, and takes a zone away only if none can be read.
LEMMA ReanchorIsLawful ==
    ASSUME MarkInv, ReAnchor
    PROVE  /\ UNCHANGED <<zone, season, call>>
           /\ Blind(recorded)' => Blind(recorded)
           /\ highWater' \subseteq highWater \union Trusted'
<1>1. UNCHANGED <<zone, season, call>>
  BY DEF ReAnchor, ReanchorBegins, ReanchorIdentifies, ReanchorSaves, ReanchorAnchors,
         ReanchorSeedsMark, ReanchorZones, worldVars
<1>2. CASE ReanchorZones
  BY <1>1, <1>2 DEF ReanchorZones, Blind, MarkInv, ReanchorHolds
<1>3. CASE ReanchorAnchors \/ ReanchorSeedsMark
  <2>1. /\ recorded' = recorded /\ anchor' = {reanchor.offset}
        /\ highWater' \subseteq highWater \union {reanchor.offset}
    BY <1>3 DEF ReanchorAnchors, ReanchorSeedsMark, MarkSeeded, MarkInv, ReanchorHolds
  <2>2. reanchor.offset \in Trusted'
    BY <2>1 DEF Trusted
  <2> QED BY <1>1, <2>1, <2>2 DEF Blind
<1>4. CASE ReanchorBegins \/ ReanchorIdentifies \/ ReanchorSaves
  BY <1>1, <1>4 DEF ReanchorBegins, ReanchorIdentifies, ReanchorSaves, staticVars, Blind
<1> QED BY <1>2, <1>3, <1>4 DEF ReAnchor

LEMMA LawInit == HistoryInit => LawInv
<1> SUFFICES ASSUME HistoryInit PROVE LawInv
  OBVIOUS
<1>1. \A r \in Readers : call[r].step = "idle" /\ lawful[r] = Trusted
  BY DEF HistoryInit, Init, Idle
<1>2. MarkInv
  BY MarkInit DEF HistoryInit
<1> QED BY <1>1, <1>2 DEF LawInv, CallIsLawful

LEMMA LawNext ==
    ASSUME "zone" \notin Torn, Restarts => MaxReanchors = 0
    PROVE  LawInv /\ [Next /\ Remember]_historyVars => LawInv'
<1> SUFFICES ASSUME LawInv, [Next /\ Remember]_historyVars PROVE LawInv'
  OBVIOUS
<1>1. MarkInv'
  <2>1. [Next]_vars
    BY DEF historyVars
  <2> QED BY <2>1, MarkNext DEF LawInv
<1>2. CASE UNCHANGED historyVars
  <2>1. UNCHANGED <<zone, season, anchor, recorded, highWater, call, lawful>>
    BY <1>2 DEF historyVars, vars, worldVars, staticVars
  <2>2. OsOffset' = OsOffset /\ Trusted' = Trusted
    BY <2>1 DEF OsOffset, Trusted
  <2>3. ASSUME NEW r \in Readers PROVE CallIsLawful(r)'
    BY <2>1, <2>2 DEF LawInv, CallIsLawful, Near, Blind
  <2> QED BY <1>1, <2>3 DEF LawInv
<1>3. CASE Next /\ Remember
  <2> SUFFICES ASSUME NEW r \in Readers PROVE CallIsLawful(r)'
    BY <1>1 DEF LawInv
  <2>1. lawful'[r] = IF NowBegins(r) THEN Trusted' ELSE lawful[r] \union Trusted'
    BY <1>3 DEF Remember
  <2>2. CASE Now(r)
    BY <1>1, <2>1, <2>2, NowIsLawful
  <2>3. CASE ~Now(r)
    <3>1. lawful[r] \union Trusted' \subseteq lawful'[r]
      BY <2>1, <2>3 DEF Now
    <3>2. CASE \E q \in Readers : Now(q)
      <4>1. PICK q \in Readers : Now(q)
        BY <3>2
      <4>2. UNCHANGED <<zone, season, anchor, recorded>> /\ call'[r] = call[r]
        <5>1. q # r /\ call \in [Readers -> Calls]
          BY <2>3, <4>1 DEF LawInv, MarkInv, TypeOK
        <5> QED BY <4>1, <5>1 DEF Now, NowBegins, NowObserves, NowIdentifies, NowRecalls,
                NowDecides, NowRaises, NowBelieves, worldVars, staticVars
      <4>3. highWater' \subseteq highWater \union Trusted'
        <5>1. CASE NowRaises(q)
          <6>1. highWater' \subseteq {OsOffset} \union highWater
            BY <5>1, RaiseKeepsMark DEF LawInv
          <6>2. OsOffset \in Trusted
            BY <5>1, TrustsTheOs DEF NowRaises, LawInv, MarkInv, ComparedHolds
          <6>3. Trusted' = Trusted
            BY <4>2 DEF Trusted
          <6> QED BY <6>1, <6>2, <6>3
        <5>2. CASE ~NowRaises(q)
          BY <4>1, <5>2 DEF Now, NowBegins, NowObserves, NowIdentifies, NowRecalls,
             NowDecides, NowBelieves, staticVars
        <5> QED BY <5>1, <5>2
      <4> QED BY <3>1, <4>2, <4>3, WaitingIsLawful DEF Blind
    <3>3. CASE Saver
      BY <3>1, <3>3, WaitingIsLawful
         DEF Saver, SaverBegins, SaverMarks, SaverWrites, worldVars, staticVars, Blind
    <3>4. CASE ReAnchor
      BY <3>1, <3>4, ReanchorIsLawful, WaitingIsLawful DEF LawInv
    <3>5. CASE World
      <4>1. Undisturbed /\ UNCHANGED <<anchor, recorded, highWater, call>>
        BY <3>5 DEF World, ZoneChanges, SeasonChanges, WorldMay, staticVars
      <4> QED BY <3>1, <4>1, WaitingIsLawful DEF Undisturbed, Blind
    <3>6. CASE Restart
      <4>1. call'[r].step = "idle"
        BY <3>6 DEF Restart, Idle
      <4> QED BY <3>1, <4>1 DEF CallIsLawful
    <3> QED BY <1>3, <3>2, <3>3, <3>4, <3>5, <3>6 DEF Next
  <2> QED BY <2>2, <2>3
<1> QED BY <1>2, <1>3

(* Whoever asks the clock is answered an offset that the install trusted at   *)
(* some time since the question: the anchor's, one of the recorded zone's, or *)
(* one within the tolerance where no zone can be compared.  That is so        *)
(* whatever zone the machine is set to between calls and however calls, the   *)
(* saver and re-anchors interleave, if the zone holds still during a call,    *)
(* and over restarts if nobody re-anchors.                                    *)
THEOREM AnswersAreAlwaysTrusted ==
    ASSUME "zone" \notin Torn, Restarts => MaxReanchors = 0
    PROVE  HistorySpec => []AnswersAreTrusted
<1>1. LawInv => AnswersAreTrusted
  BY DEF LawInv, CallIsLawful, AnswersAreTrusted
<1> QED BY <1>1, LawInit, LawNext, PTL DEF HistorySpec

-----------------------------------------------------------------------------
(* Who is vouched for in a season is not answered less than its offset later. *)

Reaches(S, x) == \E y \in S : y >= x

\* The mark has reached every season that was seen, but while a re-anchor replaces it.
SeenHolds ==
    /\ seen \subseteq Seasons /\ held \subseteq Seasons /\ kept \subseteq Seasons
    /\ reanchor.step = "zone" => seen \subseteq {season} /\ highWater = {OsOffset}
    /\ reanchor.step \notin {"mark", "zone"} =>
         \A s \in seen, z \in recorded : Reaches(highWater, Offset[z][s])
    /\ recorded # {} => anchor # {}

\* Where nobody re-anchors, the file has reached every season that is kept, and the mark the saver
\* is about to write lies between the file's and memory's.
KeptHolds ==
    MaxReanchors = 0 =>
      /\ lastSaved \in {{}, disk}
      /\ \A m \in disk : m.anchor \in cfg.offset /\ Reaches(anchor \union highWater, m.highWater)
      /\ saver.step = "write" =>
           /\ saver.mark.anchor \in cfg.offset
           /\ Reaches(anchor \union highWater, saver.mark.highWater)
           /\ \A m \in disk : saver.mark.highWater >= m.highWater
           /\ \A s \in held, z \in recorded : saver.mark.highWater >= Offset[z][s]
      /\ \A s \in kept, z \in recorded :
           Reaches(anchor \union {m.highWater : m \in disk}, Offset[z][s])

\* A call that no re-anchor has crossed has compared with the zone that is still recorded.
CallIsSteady(r) ==
    steady[r] =>
      /\ reanchor = Idle
      /\ call[r].step = "decide" => call[r].recorded = recorded
      /\ call[r].step = "believe" => recorded \subseteq {zone}

SteadyInv == MarkInv /\ SeenHolds /\ KeptHolds /\ \A r \in Readers : CallIsSteady(r)

\* What is reached by less is reached by more.
LEMMA ReachesOn ==
    ASSUME NEW S \in SUBSET Int, NEW T \in SUBSET Int, NEW x \in Int,
           \A y \in S : Reaches(T, y), Reaches(S, x)
    PROVE  Reaches(T, x)
  BY DEF Reaches

\* All that marks are compared with are integers.
LEMMA MarksAreIntegers ==
    ASSUME TypeOK
    PROVE  /\ anchor \subseteq Int /\ highWater \subseteq Int /\ highWater \in Option(Int)
           /\ cfg.offset \subseteq Offsets
           /\ \A m \in disk : m \in Marks /\ m.highWater \in Int /\ m.anchor \in Int
           /\ \A z \in recorded, s \in Seasons : Offset[z][s] \in Int
<1>1. /\ anchor \subseteq Offsets /\ highWater \subseteq Offsets /\ disk \subseteq Marks
      /\ cfg.offset \subseteq Offsets /\ recorded \subseteq Zones
  BY DEF TypeOK, Option
<1>2. highWater \in Option(Int)
  BY OffsetsAreIntegers DEF TypeOK, Option
<1>3. \A z \in recorded, s \in Seasons : Offset[z][s] \in Int
  BY <1>1, OffsetAssumption
<1> QED BY <1>1, <1>2, <1>3, OffsetsAreIntegers DEF Marks

\* A mark that moves, moves up.
LEMMA RaiseClimbs ==
    ASSUME MarkInv, NEW r \in Readers, NowRaises(r)
    PROVE  Reaches(highWater', OsOffset) /\ \A h \in highWater : Reaches(highWater', h)
<1>1. highWater' = {Highest({OsOffset} \union highWater)}
  BY DEF MarkInv, ReadsHold, NowRaises, Raised
<1>2. OsOffset \in Int /\ highWater \in Option(Int)
  BY OsReportsAnOffset, OffsetsAreIntegers, MarksAreIntegers DEF MarkInv
<1>3. \A y \in {OsOffset} \union highWater : Highest({OsOffset} \union highWater) >= y
  BY <1>2, HighestOfTwo
<1> QED BY <1>1, <1>3 DEF Reaches

\* What restore believes of the file is reached by the mark it leaves, and so is the anchor.
LEMMA RestoreReaches ==
    ASSUME TypeOK, \A m \in disk : m.anchor \in cfg.offset, NEW o \in cfg.offset
    PROVE  Reaches(Restored, o) /\ \A m \in disk : Reaches(Restored, m.highWater)
<1> DEFINE marks == {m.highWater : m \in {n \in disk : Believable(n)}}
<1>1. \A m \in disk : Believable(m)
  <2> SUFFICES ASSUME NEW m \in disk PROVE Believable(m)
    OBVIOUS
  <2>1. m.highWater \in Offsets
    BY MarksAreIntegers DEF Marks
  <2>2. m.highWater \in -MaxOffset .. MaxOffset
    BY <2>1, OffsetAssumption DEF Offsets
  <2> QED BY <2>2 DEF Believable
<1>2. marks = {m.highWater : m \in disk}
  BY <1>1
<1>3. cfg.offset = {o}
  BY DEF TypeOK, Option
<1>4. Restored = {Highest({o} \union marks)}
  BY <1>3 DEF Restored
<1>5. marks \in Option(Int)
  <2>1. CASE disk = {}
    BY <1>2, <2>1 DEF Option
  <2>2. ASSUME NEW m \in Marks, disk = {m} PROVE marks \in Option(Int)
    <3>1. marks = {m.highWater} /\ m.highWater \in Int
      BY <1>2, <2>2, MarksAreIntegers
    <3> QED BY <3>1 DEF Option
  <2> QED BY <2>1, <2>2 DEF TypeOK, Option
<1> HIDE DEF marks
<1>6. \A y \in {o} \union marks : Highest({o} \union marks) >= y
  BY <1>5, HighestOfTwo, MarksAreIntegers, OffsetsAreIntegers
<1> QED BY <1>2, <1>4, <1>6 DEF Reaches

\* A season is seen with its offset reached.
LEMMA SeenNext ==
    ASSUME "zone" \notin Torn, Restarts => MaxReanchors = 0,
           MarkInv, SeenHolds, KeptHolds, Next, Remember
    PROVE  SeenHolds'
<1>1. TypeOK /\ season \in Seasons
  BY DEF MarkInv, TypeOK
<1>2. /\ seen' = IF Restart THEN kept
                 ELSE IF (ReanchorAnchors \/ ReanchorSeedsMark) /\ MarkSeeded THEN {season}
                 ELSE IF Raises THEN seen \union {season} ELSE seen
      /\ held' \in {{}, seen, held}
      /\ kept' \in {kept, {season}, kept \union held, kept \union seen}
  BY DEF Remember, Marked
<1>3. seen' \subseteq Seasons /\ held' \subseteq Seasons /\ kept' \subseteq Seasons
  BY <1>1, <1>2 DEF SeenHolds
<1>4. CASE Restart
  <2>1. MaxReanchors = 0 /\ seen' = kept
    BY <1>2, <1>4 DEF Restart
  <2>2. /\ recorded' = recorded /\ anchor' = anchor /\ anchor = cfg.offset
        /\ highWater' = Restored /\ reanchor'.step = "idle"
    BY <1>4, <2>1 DEF Restart, MarkInv, DiskHolds, Idle
  <2>3. ASSUME NEW s \in kept, NEW z \in recorded PROVE Reaches(Restored, Offset[z][s])
    <3>1. PICK o \in cfg.offset : TRUE
      BY <2>2, <2>3 DEF SeenHolds
    <3>2. cfg.offset = {o} /\ \A m \in disk : m.anchor \in cfg.offset
      BY <1>1, <2>1, <3>1 DEF TypeOK, Option, KeptHolds
    <3>3. Reaches(Restored, o) /\ \A m \in disk : Reaches(Restored, m.highWater)
      BY <1>1, <3>2, RestoreReaches
    <3>4. Reaches({o} \union {m.highWater : m \in disk}, Offset[z][s])
      BY <2>1, <2>2, <3>2 DEF KeptHolds
    <3>5. Restored \subseteq Int
      BY <1>1, RestoredIsAnOption, OffsetsAreIntegers DEF Option
    <3>6. Offset[z][s] \in Int /\ o \in Int /\ \A m \in disk : m.highWater \in Int
      BY <1>1, <2>3, OffsetsAreIntegers, MarksAreIntegers DEF SeenHolds
    <3> QED BY <3>3, <3>4, <3>5, <3>6 DEF Reaches
  <2> QED BY <1>3, <2>1, <2>2, <2>3 DEF SeenHolds
<1>5. CASE ~Restart /\ (ReanchorAnchors \/ ReanchorSeedsMark)
  <2>1. /\ recorded' = recorded /\ anchor' # {} /\ UNCHANGED <<zone, season>>
        /\ reanchor.offset = OsOffset /\ reanchor.step \in {"anchor", "mark"}
        /\ \/ reanchor' = [reanchor EXCEPT !.step = "mark"]
           \/ reanchor' = [reanchor EXCEPT !.step = "zone"] /\ MarkSeeded
    BY <1>5 DEF ReanchorAnchors, ReanchorSeedsMark, MarkInv, ReanchorHolds, worldVars
  <2>2. \/ reanchor'.step = "mark"
        \/ reanchor'.step = "zone" /\ MarkSeeded
    BY <1>1, <2>1 DEF TypeOK, Reanchors, Idle
  <2>3. reanchor'.step = "zone" => seen' \subseteq {season'} /\ highWater' = {OsOffset'}
    BY <1>2, <1>5, <2>1, <2>2 DEF MarkSeeded, OsOffset
  <2> QED BY <1>3, <2>1, <2>2, <2>3 DEF SeenHolds
<1>6. CASE ~Restart /\ ~(ReanchorAnchors \/ ReanchorSeedsMark) /\ Raises
  <2>1. PICK r \in Readers : NowRaises(r)
    BY <1>6 DEF Raises
  <2>2. UNCHANGED <<zone, season, anchor, recorded, reanchor>> /\ seen' = seen \union {season}
    BY <1>2, <1>6, <2>1 DEF NowRaises, worldVars, reanchorVars
  <2>3. OsOffset' = OsOffset
    BY <2>2 DEF OsOffset
  <2>4. /\ Reaches(highWater', OsOffset) /\ \A h \in highWater : Reaches(highWater', h)
        /\ highWater' \subseteq {OsOffset} \union highWater
        /\ recorded \subseteq {zone}
    BY <2>1, RaiseClimbs, RaiseKeepsMark DEF MarkInv, ComparedHolds, NowRaises
  <2>5. CASE reanchor.step = "zone"
    <3>1. highWater' = {OsOffset}
      BY <2>4, <2>5 DEF SeenHolds, Reaches
    <3> QED BY <1>3, <2>2, <2>3, <2>5, <3>1 DEF SeenHolds
  <2>6. CASE reanchor.step # "zone"
    <3>1. ASSUME reanchor.step # "mark", NEW s \in seen \union {season}, NEW z \in recorded
          PROVE  Reaches(highWater', Offset[z][s])
      <4>1. CASE s = season
        BY <2>4, <4>1 DEF OsOffset
      <4>2. CASE s \in seen
        <5>1. Reaches(highWater, Offset[z][s])
          BY <2>6, <3>1, <4>2 DEF SeenHolds
        <5>2. highWater \subseteq Int /\ highWater' \subseteq Int /\ Offset[z][s] \in Int
          BY <1>1, <2>4, <4>2, MarksAreIntegers, OsReportsAnOffset, OffsetsAreIntegers DEF SeenHolds
        <5> QED BY <2>4, <5>1, <5>2, ReachesOn
      <4> QED BY <3>1, <4>1, <4>2
    <3> QED BY <1>3, <2>2, <2>6, <3>1 DEF SeenHolds
  <2> QED BY <2>5, <2>6
<1>7. CASE ~Restart /\ ~(ReanchorAnchors \/ ReanchorSeedsMark) /\ ~Raises
  <2>1. seen' = seen
    BY <1>2, <1>7
  <2>2. ASSUME UNCHANGED <<season, zone, anchor, recorded, highWater, reanchor>> PROVE SeenHolds'
    <3>1. OsOffset' = OsOffset
      BY <2>2 DEF OsOffset
    <3> QED BY <1>3, <2>1, <2>2, <3>1 DEF SeenHolds
  <2>3. CASE \E r \in Readers : Now(r)
    BY <1>7, <2>2, <2>3 DEF Raises, Now, NowBegins, NowObserves, NowIdentifies, NowRecalls,
       NowDecides, NowBelieves, worldVars, reanchorVars, staticVars
  <2>4. CASE Saver
    BY <2>2, <2>4 DEF Saver, SaverBegins, SaverMarks, SaverWrites, worldVars, staticVars, reanchorVars
  <2>5. CASE World
    <3>1. reanchor.step = "idle" /\ UNCHANGED <<anchor, recorded, highWater, reanchor>>
      BY <2>5 DEF World, ZoneChanges, SeasonChanges, WorldMay, Undisturbed, staticVars,
         reanchorVars, Idle
    <3> QED BY <1>3, <2>1, <3>1 DEF SeenHolds
  <2>6. CASE ReanchorBegins \/ ReanchorIdentifies \/ ReanchorSaves
    <3>1. UNCHANGED <<anchor, recorded, highWater>>
      BY <2>6 DEF ReanchorBegins, ReanchorIdentifies, ReanchorSaves, staticVars
    <3>2. reanchor.step \notin {"mark", "zone"} /\ reanchor'.step \notin {"mark", "zone"}
      <4>1. CASE ReanchorBegins
        BY <4>1 DEF ReanchorBegins, Idle
      <4>2. CASE ReanchorIdentifies
        BY <4>2 DEF ReanchorIdentifies
      <4>3. CASE ReanchorSaves
        BY <1>1, <4>3 DEF ReanchorSaves, TypeOK, Reanchors, Idle
      <4> QED BY <2>6, <4>1, <4>2, <4>3
    <3> QED BY <1>3, <2>1, <3>1, <3>2 DEF SeenHolds
  <2>7. CASE ReanchorZones
    <3>1. /\ recorded' = reanchor.zone /\ reanchor'.step = "idle" /\ highWater' = highWater
          /\ anchor' = anchor /\ anchor # {}
          /\ reanchor.zone \subseteq {zone} /\ highWater = {OsOffset} /\ seen \subseteq {season}
      BY <2>7 DEF ReanchorZones, MarkInv, ReanchorHolds, SeenHolds, Idle
    <3>2. ASSUME NEW s \in seen, NEW z \in recorded' PROVE Reaches(highWater', Offset[z][s])
      <4>1. Offset[z][s] = OsOffset /\ OsOffset \in Int
        BY <1>1, <3>1, <3>2, OsReportsAnOffset, OffsetsAreIntegers DEF OsOffset
      <4> QED BY <3>1, <4>1 DEF Reaches
    <3> QED BY <1>3, <2>1, <3>1, <3>2 DEF SeenHolds
  <2> QED BY <1>7, <2>3, <2>4, <2>5, <2>6, <2>7 DEF Next, ReAnchor
<1> QED BY <1>4, <1>5, <1>6, <1>7

\* Where nobody re-anchors, what memory has reached it goes on to reach.
LEMMA MemoryClimbs ==
    ASSUME MarkInv, MarkInv', MaxReanchors = 0, Next, ~Restart
    PROVE  /\ reanchor = Idle /\ reanchor' = Idle /\ UNCHANGED <<anchor, recorded, cfg>>
           /\ \A x \in Int : Reaches(anchor \union highWater, x) =>
                               Reaches(anchor' \union highWater', x)
<1>1. /\ reanchor = Idle /\ reanchor' = Idle /\ reanchor.step = "idle"
      /\ ~(reanchors < MaxReanchors)
  BY DEF MarkInv, DiskHolds, TypeOK, Idle
<1>2. ~ReAnchor
  BY <1>1 DEF ReAnchor, ReanchorBegins, ReanchorIdentifies, ReanchorSaves, ReanchorAnchors,
     ReanchorSeedsMark, ReanchorZones
<1>3. UNCHANGED <<anchor, recorded, cfg>> /\ (highWater' = highWater \/ Raises)
  BY <1>2 DEF Next, Now, NowBegins, NowObserves, NowIdentifies, NowRecalls, NowDecides, NowRaises,
     NowBelieves, Raises, Saver, SaverBegins, SaverMarks, SaverWrites, World, ZoneChanges,
     SeasonChanges, staticVars, reanchorVars
<1>4. CASE highWater' = highWater
  BY <1>1, <1>3, <1>4
<1>5. CASE Raises
  <2>1. PICK r \in Readers : NowRaises(r)
    BY <1>5 DEF Raises
  <2>2. \A h \in highWater : Reaches(highWater', h)
    BY <2>1, RaiseClimbs
  <2>3. /\ anchor \subseteq Int /\ highWater \subseteq Int
        /\ anchor' \subseteq Int /\ highWater' \subseteq Int
    <3>1. /\ anchor \in Option(Offsets) /\ highWater \in Option(Offsets)
          /\ anchor' \in Option(Offsets) /\ highWater' \in Option(Offsets)
      BY DEF MarkInv, TypeOK
    <3> QED BY <3>1, OffsetsAreIntegers DEF Option
  <2>4. \A y \in anchor \union highWater : Reaches(anchor' \union highWater', y)
    BY <1>3, <2>2, <2>3 DEF Reaches
  <2> QED BY <1>1, <1>3, <2>3, <2>4, ReachesOn
<1> QED BY <1>3, <1>4, <1>5

\* The mark the saver reads reaches memory, and so what the file has.
LEMMA SaverMarksHigher ==
    ASSUME MarkInv, MaxReanchors = 0, SaverMarks,
           NEW mark, mark = [anchor |-> saver.anchor,
                             highWater |-> Highest({saver.anchor} \union highWater)]
    PROVE  /\ mark.anchor \in cfg.offset /\ anchor = {mark.anchor} /\ mark.highWater \in Int
           /\ mark.highWater \in anchor \union highWater
           /\ \A y \in anchor \union highWater : mark.highWater >= y
<1>1. anchor = cfg.offset /\ anchor = {saver.anchor}
  BY DEF MarkInv, DiskHolds, SaverMarks
<1>2. /\ saver.anchor \in Int /\ highWater \in Option(Int)
      /\ anchor \subseteq Int /\ highWater \subseteq Int
  BY <1>1, MarksAreIntegers DEF MarkInv
<1>3. /\ Highest({saver.anchor} \union highWater) \in {saver.anchor} \union highWater
      /\ \A y \in {saver.anchor} \union highWater : Highest({saver.anchor} \union highWater) >= y
  BY <1>2, HighestOfTwo
<1> QED BY <1>1, <1>2, <1>3

\* The file keeps what it has reached, and gains what was seen before its mark was read.
LEMMA KeptNext ==
    ASSUME MarkInv, MarkInv', SeenHolds, KeptHolds, Next, Remember
    PROVE  KeptHolds'
<1> SUFFICES ASSUME MaxReanchors = 0 PROVE KeptHolds'
  BY DEF KeptHolds
<1>1. TypeOK /\ Idle.step = "idle" /\ reanchor = Idle /\ anchor = cfg.offset /\ recorded = cfg.zone
  BY DEF MarkInv, DiskHolds, Idle
<1>2. /\ lastSaved \in {{}, disk}
      /\ \A m \in disk : m.anchor \in cfg.offset /\ Reaches(anchor \union highWater, m.highWater)
      /\ \A s \in kept, z \in recorded :
           Reaches(anchor \union {m.highWater : m \in disk}, Offset[z][s])
  BY DEF KeptHolds
<1>3. CASE Restart
  <2>1. /\ anchor' = anchor /\ recorded' = recorded /\ highWater' = Restored /\ saver' = Idle
        /\ lastSaved' = {} /\ disk' = disk /\ cfg' = cfg
    BY <1>1, <1>3 DEF Restart
  <2>2. kept' = kept
    BY <1>3 DEF Remember
  <2>3. ASSUME NEW m \in disk PROVE Reaches(anchor' \union highWater', m.highWater)
    <3>1. Reaches(Restored, m.highWater)
      BY <1>1, <1>2, <2>3, RestoreReaches
    <3> QED BY <2>1, <3>1 DEF Reaches
  <2> QED BY <1>1, <1>2, <2>1, <2>2, <2>3 DEF KeptHolds
<1>4. CASE ~Restart
  <2>1. /\ reanchor' = Idle /\ UNCHANGED <<anchor, recorded, cfg>>
        /\ \A x \in Int : Reaches(anchor \union highWater, x) =>
                            Reaches(anchor' \union highWater', x)
    BY <1>4, MemoryClimbs
  <2>2. ~ReanchorSaves
    BY <1>1 DEF ReanchorSaves
  <2>3. /\ held' = IF SaverMarks THEN Marked ELSE held
        /\ kept' = IF Written THEN kept \union held
                   ELSE IF Skipped THEN kept \union Marked ELSE kept
    BY <1>1, <1>4, <2>1, <2>2 DEF Remember
  <2>4. \A m \in disk : m.highWater \in Int
    BY <1>1, MarksAreIntegers
  <2>5. \A m \in disk : Reaches(anchor' \union highWater', m.highWater)
    BY <1>2, <2>1, <2>4
  <2>6. CASE SaverMarks
    <3> DEFINE mark == [anchor |-> saver.anchor,
                        highWater |-> Highest({saver.anchor} \union highWater)]
    <3>1. /\ mark.anchor \in cfg.offset /\ anchor = {mark.anchor} /\ mark.highWater \in Int
          /\ mark.highWater \in anchor \union highWater
          /\ \A y \in anchor \union highWater : mark.highWater >= y
      BY <2>6, SaverMarksHigher
    <3>2. /\ saver' = IF lastSaved = {mark} THEN Idle ELSE [step |-> "write", mark |-> mark]
          /\ UNCHANGED <<lastSaved, disk, highWater>>
      BY <2>6 DEF SaverMarks, IsSaved, staticVars
    <3> HIDE DEF mark
    <3>3. ~Written
      BY <2>6 DEF SaverMarks, Written, SaverWrites
    <3>4. Marked \subseteq seen
      BY DEF Marked
    <3>5. ASSUME NEW s \in seen, NEW z \in recorded PROVE mark.highWater >= Offset[z][s]
      <4>1. Reaches(highWater, Offset[z][s])
        BY <1>1 DEF SeenHolds
      <4>2. highWater \subseteq Int /\ Offset[z][s] \in Int
        BY <1>1, <3>5, MarksAreIntegers DEF SeenHolds
      <4> QED BY <3>1, <4>1, <4>2 DEF Reaches
    <3>6. \A m \in disk : mark.highWater >= m.highWater
      <4> SUFFICES ASSUME NEW m \in disk PROVE mark.highWater >= m.highWater
        OBVIOUS
      <4>1. Reaches(anchor \union highWater, m.highWater) /\ m.highWater \in Int
        BY <1>2, <2>4
      <4>2. anchor \subseteq Int /\ highWater \subseteq Int
        BY <1>1, MarksAreIntegers
      <4>3. PICK y \in anchor \union highWater : y >= m.highWater
        BY <4>1 DEF Reaches
      <4>4. y \in Int /\ mark.highWater >= y
        BY <3>1, <4>2
      <4> QED BY <3>1, <4>1, <4>3, <4>4
    <3>7. Reaches(anchor \union highWater, mark.highWater)
      BY <3>1 DEF Reaches
    <3>8. CASE lastSaved = {mark}
      <4>1. disk = {mark} /\ saver' = Idle
        BY <1>2, <3>2, <3>8
      <4>2. kept' \subseteq kept \union seen
        BY <2>3, <3>3, <3>4
      <4>3. \A s \in seen, z \in recorded :
              Reaches(anchor \union {m.highWater : m \in disk}, Offset[z][s])
        BY <3>5, <4>1 DEF Reaches
      <4>4. \A s \in kept', z \in recorded :
              Reaches(anchor \union {m.highWater : m \in disk}, Offset[z][s])
        BY <1>2, <4>2, <4>3
      <4> QED BY <1>1, <1>2, <2>1, <2>5, <3>2, <4>1, <4>4 DEF KeptHolds
    <3>9. CASE lastSaved # {mark}
      <4>1. saver' = [step |-> "write", mark |-> mark] /\ ~Skipped
        BY <1>1, <3>2, <3>9 DEF Skipped
      <4>2. kept' = kept /\ held' \subseteq seen
        BY <2>3, <2>6, <3>3, <3>4, <4>1
      <4>3. \A s \in held', z \in recorded' : saver'.mark.highWater >= Offset[z][s]
        BY <2>1, <3>5, <4>1, <4>2
      <4>4. /\ saver'.mark.anchor \in cfg'.offset
            /\ Reaches(anchor' \union highWater', saver'.mark.highWater)
            /\ \A m \in disk' : saver'.mark.highWater >= m.highWater
        BY <2>1, <3>1, <3>2, <3>6, <3>7, <4>1
      <4> HIDE DEF Marked
      <4> QED BY <1>2, <2>1, <2>5, <3>2, <4>2, <4>3, <4>4 DEF KeptHolds
    <3> QED BY <3>8, <3>9
  <2>7. CASE ~SaverMarks /\ SaverWrites
    <3> DEFINE mark == saver.mark
    <3>1. /\ mark.anchor \in cfg.offset /\ mark \in Marks
          /\ Reaches(anchor \union highWater, mark.highWater)
          /\ \A m \in disk : mark.highWater >= m.highWater
          /\ \A s \in held, z \in recorded : mark.highWater >= Offset[z][s]
      BY <1>1, <2>7 DEF SaverWrites, KeptHolds, TypeOK, Savers, Idle
    <3>2. mark.highWater \in Int
      BY <3>1, OffsetsAreIntegers DEF Marks
    <3>3. saver' = Idle /\ held' = held
      BY <2>3, <2>7 DEF SaverWrites
    <3> HIDE DEF mark
    <3>4. CASE Written
      <4>1. disk' = {mark} /\ lastSaved' = disk' /\ kept' = kept \union held
        BY <2>3, <3>4 DEF Written, mark
      <4>2. Reaches(anchor' \union highWater', mark.highWater)
        BY <2>1, <3>1, <3>2
      <4>3. \A s \in kept', z \in recorded :
              Reaches(anchor \union {m.highWater : m \in disk'}, Offset[z][s])
        <5> SUFFICES ASSUME NEW s \in kept \union held, NEW z \in recorded
                     PROVE  Reaches(anchor \union {mark.highWater}, Offset[z][s])
          BY <4>1
        <5>1. CASE s \in held
          BY <3>1, <5>1 DEF Reaches
        <5>2. CASE s \in kept
          <6>1. Reaches(anchor \union {m.highWater : m \in disk}, Offset[z][s])
            BY <1>2, <5>2
          <6>2. \A y \in anchor \union {m.highWater : m \in disk} :
                  y \in Int /\ Reaches(anchor \union {mark.highWater}, y)
            <7>1. \A y \in anchor : y \in Int /\ y >= y
              BY <1>1, MarksAreIntegers
            <7> QED BY <2>4, <3>1, <7>1 DEF Reaches
          <6>3. anchor \subseteq Int /\ Offset[z][s] \in Int
            BY <1>1, <5>2, MarksAreIntegers DEF SeenHolds
          <6> QED BY <3>2, <6>1, <6>2, <6>3 DEF Reaches
        <5> QED BY <5>1, <5>2
      <4> QED BY <1>1, <2>1, <3>1, <3>3, <4>1, <4>2, <4>3 DEF KeptHolds
    <3>5. CASE ~Written
      <4>1. UNCHANGED <<disk, lastSaved>>
        BY <2>7, <3>5 DEF SaverWrites, Written
      <4>2. kept' = kept
        BY <2>3, <2>7, <3>5 DEF Skipped
      <4> QED BY <1>1, <1>2, <2>1, <2>5, <3>3, <4>1, <4>2 DEF KeptHolds
    <3> QED BY <3>4, <3>5
  <2>8. CASE ~SaverMarks /\ ~SaverWrites
    <3>1. kept' = kept /\ held' = held
      BY <2>3, <2>8 DEF Written, Skipped
    <3>2. UNCHANGED <<disk, lastSaved>> /\ (saver' = saver \/ saver'.step = "mark")
      <4>1. ~ReAnchor
        BY <1>1, <2>1 DEF ReAnchor, ReanchorBegins, ReanchorIdentifies, ReanchorSaves,
           ReanchorAnchors, ReanchorSeedsMark, ReanchorZones, Idle
      <4>2. CASE \E r \in Readers : Now(r)
        BY <4>2 DEF Now, NowBegins, NowObserves, NowIdentifies, NowRecalls, NowDecides, NowRaises,
           NowBelieves, saverVars
      <4>3. CASE SaverBegins
        BY <4>3 DEF SaverBegins
      <4>4. CASE World
        BY <4>4 DEF World, ZoneChanges, SeasonChanges, saverVars
      <4> QED BY <1>4, <2>8, <4>1, <4>2, <4>3, <4>4 DEF Next, Saver
    <3>3. saver.step = "write" =>
            saver.mark.highWater \in Int
      BY <1>1, OffsetsAreIntegers DEF TypeOK, Savers, Idle, Marks
    <3>4. saver'.step = "write" =>
            /\ saver' = saver
            /\ Reaches(anchor' \union highWater', saver'.mark.highWater)
      BY <2>1, <3>2, <3>3 DEF KeptHolds
    <3> QED BY <1>2, <2>1, <2>5, <3>1, <3>2, <3>4 DEF KeptHolds
  <2> QED BY <2>6, <2>7, <2>8
<1> QED BY <1>3, <1>4

\* With a zone to compare, the OS is believed if it is the recorded one; another gets the mark.
LEMMA DecidesSighted ==
    ASSUME MarkInv, ~IdentityFails, NEW r \in Readers,
           call[r].step = "decide", call[r].recorded = recorded, NEW c, c = Decide(call[r])
    PROVE  /\ c.step = "believe" => recorded = {}
           /\ c.step = "answered" /\ recorded # {} => \A h \in highWater : c.answer >= h
<1> DEFINE d == call[r]
           a == d.anchor
<1>1. d \in Calls /\ d.current # {}
  BY DEF MarkInv, TypeOK, ReadsHold
<1>2. CASE Vouched(d)
  BY <1>2 DEF Decide
<1>3. CASE ~Vouched(d) /\ Substituted(d)
  <2>1. c = [step |-> "answered", answer |-> Highest({a} \union highWater)]
    BY <1>3 DEF Decide
  <2>2. a \in Int /\ highWater \in Option(Int)
    BY <1>1, CallFields, MarksAreIntegers, OffsetsAreIntegers DEF MarkInv
  <2> HIDE DEF a
  <2>3. \A h \in highWater : Highest({a} \union highWater) >= h
    BY <2>2, HighestOfTwo
  <2> QED BY <2>1, <2>3
<1>4. CASE ~Vouched(d) /\ ~Substituted(d)
  BY <1>1, <1>4 DEF Vouched, Substituted
<1> QED BY <1>2, <1>3, <1>4

\* A call stays steady until a re-anchor begins, and compares with what is recorded.
LEMMA SteadyNext ==
    ASSUME "zone" \notin Torn, ~IdentityFails, Restarts => MaxReanchors = 0,
           MarkInv, SeenHolds, Next, Remember, NEW r \in Readers, CallIsSteady(r)
    PROVE  CallIsSteady(r)'
<1> DEFINE c == call[r]
<1> SUFFICES ASSUME steady'[r]
             PROVE  /\ reanchor' = Idle
                    /\ call'[r].step = "decide" => call'[r].recorded = recorded'
                    /\ call'[r].step = "believe" => recorded' \subseteq {zone'}
  BY DEF CallIsSteady
<1>1. reanchor' = Idle /\ (NowBegins(r) \/ steady[r])
  BY DEF Remember
<1>2. call \in [Readers -> Calls] /\ Idle.step = "idle"
  BY DEF MarkInv, TypeOK, Idle
<1>3. CASE NowBegins(r)
  <2>1. call'[r].step = (IF anchor = {} THEN "believe" ELSE "observe") /\ recorded' = recorded
    BY <1>2, <1>3 DEF NowBegins, staticVars
  <2>2. anchor = {} => recorded = {}
    BY DEF SeenHolds
  <2> QED BY <1>1, <2>1, <2>2
<1>4. CASE ~NowBegins(r) /\ steady[r]
  <2>1. /\ reanchor = Idle
        /\ c.step = "decide" => c.recorded = recorded
        /\ c.step = "believe" => recorded \subseteq {zone}
    BY <1>4 DEF CallIsSteady
  <2>2. CASE Now(r)
    <3>1. UNCHANGED <<zone, recorded>>
      BY <2>2 DEF Now, NowBegins, NowObserves, NowIdentifies, NowRecalls, NowDecides, NowRaises,
         NowBelieves, worldVars, staticVars
    <3>2. CASE NowObserves(r) \/ NowIdentifies(r) \/ NowBelieves(r)
      <4>1. call'[r].step \in {"identify", "recall", "answered"}
        BY <1>2, <3>2 DEF NowObserves, NowIdentifies, NowBelieves
      <4> QED BY <1>1, <4>1
    <3>3. CASE NowRecalls(r)
      BY <1>1, <1>2, <3>1, <3>3 DEF NowRecalls
    <3>4. CASE NowDecides(r)
      <4>1. call'[r] = Decide(c) /\ c.step = "decide"
        BY <1>2, <3>4 DEF NowDecides
      <4>2. call'[r].step # "decide"
        BY <4>1 DEF Decide
      <4>3. call'[r].step = "believe" => recorded = {}
        BY <2>1, <4>1, DecidesSighted
      <4> QED BY <1>1, <3>1, <4>2, <4>3
    <3>5. CASE NowRaises(r)
      <4>1. call'[r].step = "believe" /\ recorded \subseteq {zone}
        BY <1>2, <3>5 DEF NowRaises, MarkInv, ComparedHolds
      <4> QED BY <1>1, <3>1, <4>1
    <3> QED BY <1>4, <2>2, <3>2, <3>3, <3>4, <3>5 DEF Now
  <2>3. CASE UNCHANGED <<zone, recorded>> /\ call'[r] = c
    BY <1>1, <2>1, <2>3
  <2>4. CASE ~Now(r) /\ \E q \in Readers : Now(q)
    <3>1. PICK q \in Readers \ {r} : Now(q)
      BY <2>4
    <3> QED BY <1>2, <2>3, <3>1 DEF Now, NowBegins, NowObserves, NowIdentifies, NowRecalls,
            NowDecides, NowRaises, NowBelieves, worldVars, staticVars
  <2>5. CASE Saver
    BY <2>3, <2>5 DEF Saver, SaverBegins, SaverMarks, SaverWrites, worldVars, staticVars
  <2>6. CASE ReAnchor
    <3>1. ReanchorBegins
      BY <1>2, <2>1, <2>6 DEF ReAnchor, ReanchorIdentifies, ReanchorSaves, ReanchorAnchors,
         ReanchorSeedsMark, ReanchorZones
    <3> QED BY <2>3, <3>1 DEF ReanchorBegins, worldVars, staticVars
  <2>7. CASE World
    <3>1. c.step \in {"idle", "answered"} /\ call'[r] = c
      BY <2>7 DEF World, ZoneChanges, SeasonChanges, WorldMay, Undisturbed
    <3> QED BY <1>1, <3>1
  <2>8. CASE Restart
    BY <1>1, <1>2, <2>8 DEF Restart
  <2> QED BY <2>2, <2>4, <2>5, <2>6, <2>7, <2>8 DEF Next
<1> QED BY <1>1, <1>3, <1>4

LEMMA SteadyInit == HistoryInit => SteadyInv
<1> SUFFICES ASSUME HistoryInit PROVE SteadyInv
  OBVIOUS
<1>1. MarkInv
  BY MarkInit DEF HistoryInit
<1>2. /\ seen = {} /\ held = {} /\ kept = {} /\ disk = {} /\ lastSaved = {}
      /\ saver.step = "idle" /\ reanchor.step = "idle" /\ reanchor = Idle
      /\ \A r \in Readers : call[r].step = "idle"
  BY DEF HistoryInit, Init, Idle
<1>3. recorded # {} => anchor # {}
  BY DEF HistoryInit, Init, Configs
<1> QED BY <1>1, <1>2, <1>3 DEF SteadyInv, SeenHolds, KeptHolds, CallIsSteady

LEMMA SteadyInvNext ==
    ASSUME "zone" \notin Torn, ~IdentityFails, Restarts => MaxReanchors = 0
    PROVE  SteadyInv /\ [Next /\ Remember]_historyVars => SteadyInv'
<1> SUFFICES ASSUME SteadyInv, [Next /\ Remember]_historyVars PROVE SteadyInv'
  OBVIOUS
<1>1. MarkInv'
  <2>1. [Next]_vars
    BY DEF historyVars
  <2> QED BY <2>1, MarkNext DEF SteadyInv
<1>2. CASE Next /\ Remember
  <2>1. SeenHolds'
    BY <1>2, SeenNext DEF SteadyInv
  <2>2. KeptHolds'
    BY <1>1, <1>2, KeptNext DEF SteadyInv
  <2>3. \A r \in Readers : CallIsSteady(r)'
    BY <1>2, SteadyNext DEF SteadyInv
  <2> QED BY <1>1, <2>1, <2>2, <2>3 DEF SteadyInv
<1>3. CASE UNCHANGED historyVars
  <2>1. /\ UNCHANGED <<zone, season, anchor, recorded, highWater, call, saver, lastSaved, disk>>
        /\ UNCHANGED <<reanchor, cfg, steady, seen, held, kept>>
    BY <1>3 DEF historyVars, vars, worldVars, staticVars, saverVars, reanchorVars
  <2>2. OsOffset' = OsOffset
    BY <2>1 DEF OsOffset
  <2>3. SeenHolds'
    BY <2>1, <2>2 DEF SteadyInv, SeenHolds
  <2>4. KeptHolds'
    BY <2>1 DEF SteadyInv, KeptHolds
  <2>5. \A r \in Readers : CallIsSteady(r)'
    BY <2>1 DEF SteadyInv, CallIsSteady
  <2> QED BY <1>1, <2>3, <2>4, <2>5 DEF SteadyInv
<1> QED BY <1>2, <1>3

\* An answer given where a season has been seen is not below it.
LEMMA AnswerIsNotBehind ==
    ASSUME ~IdentityFails, SteadyInv, [Next /\ Remember]_historyVars, NEW r \in Readers,
           call[r].step # "answered", call'[r].step = "answered", season \in seen, steady[r],
           NEW z \in recorded
    PROVE  call'[r].answer >= Offset[z][season]
<1> DEFINE c == call[r]
<1>1. /\ call \in [Readers -> Calls] /\ TypeOK /\ CallIsSteady(r) /\ Idle.step # "answered"
  BY DEF SteadyInv, MarkInv, TypeOK, Idle
<1>2. /\ reanchor.step = "idle"
      /\ c.step = "decide" => c.recorded = recorded
      /\ c.step = "believe" => recorded \subseteq {zone}
  BY <1>1 DEF CallIsSteady, Idle
<1>3. NowDecides(r) \/ NowBelieves(r)
  <2>1. Next
    BY DEF historyVars, vars
  <2>2. CASE \E q \in Readers : Now(q)
    <3>1. PICK q \in Readers : Now(q)
      BY <2>2
    <3>2. q = r
      BY <1>1, <3>1 DEF Now, NowBegins, NowObserves, NowIdentifies, NowRecalls, NowDecides,
         NowRaises, NowBelieves
    <3>3. ~NowBegins(r) /\ ~NowObserves(r) /\ ~NowIdentifies(r) /\ ~NowRecalls(r) /\ ~NowRaises(r)
      BY <1>1 DEF NowBegins, NowObserves, NowIdentifies, NowRecalls, NowRaises
    <3> QED BY <3>1, <3>2, <3>3 DEF Now
  <2>3. CASE Saver \/ ReAnchor \/ World
    <3>1. call' = call
      BY <2>3 DEF Saver, SaverBegins, SaverMarks, SaverWrites, ReAnchor, ReanchorBegins,
         ReanchorIdentifies, ReanchorSaves, ReanchorAnchors, ReanchorSeedsMark, ReanchorZones,
         World, ZoneChanges, SeasonChanges
    <3> QED BY <3>1
  <2>4. CASE Restart
    BY <1>1, <2>4 DEF Restart
  <2> QED BY <2>1, <2>2, <2>3, <2>4 DEF Next
<1>4. CASE NowDecides(r)
  <2>1. call'[r] = Decide(c) /\ c.step = "decide"
    BY <1>1, <1>4 DEF NowDecides
  <2>2. \A h \in highWater : call'[r].answer >= h
    BY <1>2, <2>1, DecidesSighted DEF SteadyInv
  <2>3. PICK h \in highWater : h >= Offset[z][season]
    BY <1>2 DEF SteadyInv, SeenHolds, Reaches
  <2>4. h \in Int /\ Offset[z][season] \in Int
    BY <1>1, MarksAreIntegers DEF TypeOK
  <2>5. call'[r].answer \in Int
    <3>1. Decide(c) \in Calls
      BY <1>1, <2>1, DecideGivesACall
    <3> QED BY <2>1, <3>1, CallFields, OffsetsAreIntegers
  <2> QED BY <2>2, <2>3, <2>4, <2>5
<1>5. CASE NowBelieves(r)
  <2>1. call'[r].answer = OsOffset /\ z = zone
    BY <1>1, <1>2, <1>5 DEF NowBelieves
  <2>2. OsOffset \in Int
    BY <1>1, OsReportsAnOffset, OffsetsAreIntegers
  <2> QED BY <2>1, <2>2 DEF OsOffset
<1> QED BY <1>3, <1>4, <1>5

(* "a trusted clock an hour behind true local makes a 21:00 curfew fire at    *)
(* 22:00" (src/clock.rs): once the OS has been vouched for in a season, no    *)
(* caller is answered less than the recorded zone has in that season,         *)
(* whatever zone the machine is set to by then, unless a re-anchor came while *)
(* it was asking.  That is so as long as the OS tells which zone it is set to *)
(* and the zone holds still during a call, and over restarts, from what has   *)
(* reached the disk, if nobody re-anchors.                                    *)
THEOREM AnswersAreNeverBehind ==
    ASSUME "zone" \notin Torn, ~IdentityFails, Restarts => MaxReanchors = 0
    PROVE  HistorySpec => NeverBehind
<1>1. SteadyInv /\ [Next /\ Remember]_historyVars =>
        [\A r \in Readers :
           /\ call[r].step # "answered" /\ call'[r].step = "answered"
           /\ season \in seen /\ steady[r]
           => \A z \in recorded : call'[r].answer >= Offset[z][season]]_historyVars
  BY AnswerIsNotBehind
<1> QED BY <1>1, SteadyInit, SteadyInvNext, PTL DEF HistorySpec, NeverBehind

=============================================================================
