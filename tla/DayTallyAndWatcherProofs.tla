----------------------- MODULE DayTallyAndWatcherProofs -----------------------
(***************************************************************************)
(* What holds of DayTally for every calendar, length of day and gap; and   *)
(* of Watcher for every pace of its helper and every wait of the service.  *)
(***************************************************************************)
EXTENDS DayTally, Watcher, TLAPS

\* The places of a tick before the decision, and from the decision on.
BeforeTurn == {"paused", "list", "decide"}
AfterTurn  == {"savePaused", "save", "record"}

-----------------------------------------------------------------------------
(* The parts of the inductive invariant. *)

\* A loop that is not running is at rest and remembers no day, and no row is held between ticks.
AtRest ==
    /\ ~up => pc = "idle" /\ lastReset = {} /\ lastTurn = {}
    /\ pc \notin {"save", "record"} => ended = DefaultTally

\* Honoured resets lie in the past, and no turn of the day is younger than the last of them.
ResetsPrecede ==
    /\ \A r \in lastReset : r <= time
    /\ \A t \in lastTurn : \E r \in lastReset : t <= r

\* A tick that is about to turn the day has just booked it, a gap after the last turn.
TurnIsBooked ==
    pc \in BeforeTurn /\ usage.day \notin {{}, {today}} =>
        /\ lastReset = {time}
        /\ \A t \in lastTurn : time - t >= Gap

\* Without list failures, a booking is followed by its turn in the same tick.
GuardFollows ==
    up /\ (pc \in BeforeTurn => usage.day \in {{}, {today}}) => lastReset = lastTurn

\* What the loop last saved is what the disk holds.
SavedAgrees == lastSaved = {} \/ disk = lastSaved

\* Once saved, the tally in memory is the one a new run would load.
Kept == up /\ pc \notin {"save", "savePaused"} => Loadable = {usage}

\* After the decision the tally is today's, and an unmeasured day has measured nothing.
TallyAgrees ==
    /\ pc \in AfterTurn => usage.day = {today}
    /\ \A tally \in {usage, ended} \union disk : tally.unmeasured => tally.used = 0

-----------------------------------------------------------------------------
(* Type correctness. *)

\* What may go wrong is decided at the start.
LEMMA FaultsStay == [Next]_vars => faults' = faults
  BY DEF Next, TickTop, Abandon, StandDown, Decide, Save, Record, Pass, ClockIsMoved, ModeChanges,
         GoesOff, Starts, vars, envVars


\* An empty tally is one.
LEMMA DefaultIsATally == DefaultTally \in Tallies
  BY DEF DefaultTally, Tallies, Option

\* read_on answers a tally of the date asked for, with that date's counters or with none.
LEMMA ReadOnIsATally ==
    ASSUME NEW tally \in Tallies, NEW date \in Dates
    PROVE  /\ ReadOn(tally, date) \in Tallies
           /\ ReadOn(tally, date).day = {date}
           /\ tally.day = {date} => ReadOn(tally, date) = tally
           /\ tally.day # {date} => ReadOn(tally, date).used = 0 /\ ReadOn(tally, date).refused = 0
<1> DEFINE fresh == [DefaultTally EXCEPT !.day = {date}]
<1>1. {date} \in Option(Dates)
  BY DEF Option
<1>2. /\ fresh \in Tallies /\ fresh.day = {date} /\ fresh.used = 0 /\ fresh.refused = 0
  <2>1. DefaultTally.used = 0 /\ DefaultTally.refused = 0
    BY DEF DefaultTally
  <2> QED BY <1>1, <2>1, DefaultIsATally DEF Tallies
<1>3. ReadOn(tally, date) = IF tally.day = {date} THEN tally ELSE fresh
  BY DEF ReadOn
<1> HIDE DEF fresh
<1> QED BY <1>2, <1>3

\* The first state has the declared types.
LEMMA TypeInit == Init => TypeOK
<1> SUFFICES ASSUME Init PROVE TypeOK
  OBVIOUS
<1>1. {} \in Option(0 .. Horizon)
  BY DEF Option
<1>2. time \in 0 .. Horizon /\ outages \in 0 .. MaxOutages /\ skew \in Skews /\ today \in Dates
  BY DatesAssumption, BoundsAssumption, SkewsAssumption DEF Init
<1>3. /\ rowUse \in [Dates -> Nat] /\ rowRefused \in [Dates -> Nat]
      /\ measured \in [Dates -> Nat] /\ lodged \in [Dates -> Nat]
  BY DEF Init
<1> QED BY <1>1, <1>2, <1>3, DefaultIsATally DEF Init, TypeOK

\* The top of a tick keeps the types.
LEMMA TypeTop ==
    ASSUME TypeOK, TickTop
    PROVE  TypeOK'
<1>1. ASSUME NEW d \in usage.day PROVE d \in Dates
  <2>1. usage.day \in Option(Dates)
    BY DEF TypeOK, Tallies
  <2> QED BY <1>1, <2>1 DEF Option
<1>2. WallDate \in Dates
  BY DEF TickTop
<1>3. today' \in Dates /\ refusals' \in Nat
  <2>1. today' = WallDate \/ today' \in usage.day
    BY DEF TickTop, AccountingDay
  <2>2. refusals' \in {refusals, refusals + 1} /\ refusals \in Nat
    BY DEF TickTop, AccountingDay, TypeOK
  <2> QED BY <1>1, <1>2, <2>1, <2>2
<1>4. lastReset' \in Option(0 .. Horizon)
  <2>1. lastReset' = lastReset \/ lastReset' = {time}
    BY DEF TickTop, AccountingDay, ResetBooked
  <2> QED BY <2>1 DEF TypeOK, Option
<1>5. pc' \in {"paused", "list", "decide"}
  BY DEF TickTop
<1> QED
  BY <1>3, <1>4, <1>5 DEF TickTop, TypeOK, Tallies, envVars, storeVars, pastVars

\* A rollover row only ever adds to what the rows of a date report.
LEMMA RolloverType ==
    ASSUME TypeOK, NEW prev \in Tallies, RecordRollover(prev)
    PROVE  rowUse' \in [Dates -> Nat] /\ rowRefused' \in [Dates -> Nat]
<1>1. ASSUME NEW d \in Dates
      PROVE  rowUse[d] + RowUse(prev, d) \in Nat /\ rowRefused[d] + RowRefused(prev, d) \in Nat
  <2>1. RowUse(prev, d) \in Nat /\ RowRefused(prev, d) \in Nat
    BY DEF RowUse, RowRefused, UseOf, RefusedOf, Tallies
  <2>2. rowUse[d] \in Nat /\ rowRefused[d] \in Nat
    BY DEF TypeOK
  <2> QED BY <2>1, <2>2
<1> QED BY <1>1 DEF RecordRollover

\* The drain and the note of a turn keep the types.
LEMMA DrainType ==
    ASSUME TypeOK, Drain, TurnNoted
    PROVE  refusals' \in Nat /\ lodged' \in [Dates -> Nat] /\ lastTurn' \in Option(0 .. Horizon)
<1>1. refusals' \in Nat
  BY DEF Drain
<1>2. lodged' \in [Dates -> Nat]
  <2>1. lodged[today] + refusals \in Nat
    BY DEF TypeOK
  <2> QED BY <2>1 DEF Drain, TypeOK
<1>3. lastTurn' = lastTurn \/ lastTurn' = {time}
  BY DEF TurnNoted
<1> QED BY <1>1, <1>2, <1>3 DEF TypeOK, Option

\* The tally a paused tick leaves behind.
LEMMA StandDownTally ==
    ASSUME TypeOK, StandDown
    PROVE  /\ usage' \in Tallies
           /\ usage'.day = {today}
           /\ usage'.used = UseOf(usage, today)
           /\ usage'.refused = RefusedOf(usage, today) + refusals
           /\ usage'.unmeasured = (usage.day # {today} \/ usage.unmeasured)
<1> DEFINE r == ReadOn(usage, today)
<1>1. r \in Tallies /\ r.day = {today} /\ (usage.day = {today} => r = usage)
      /\ (usage.day # {today} => r.used = 0 /\ r.refused = 0)
  BY ReadOnIsATally DEF TypeOK
<1> DEFINE turned == [r EXCEPT !.unmeasured = IF usage.day = {today} THEN r.unmeasured ELSE TRUE]
<1>2. turned \in Tallies /\ turned.day = {today} /\ turned.used = r.used /\ turned.refused = r.refused
      /\ turned.unmeasured = (usage.day # {today} \/ usage.unmeasured)
  BY <1>1 DEF Tallies, TypeOK
<1>3. usage' = [turned EXCEPT !.refused = turned.refused + refusals]
  BY DEF StandDown
<1>4. refusals \in Nat
  BY DEF TypeOK
<1> HIDE DEF turned
<1>5. usage' \in Tallies /\ usage'.day = turned.day /\ usage'.used = turned.used
      /\ usage'.refused = turned.refused + refusals /\ usage'.unmeasured = turned.unmeasured
  BY <1>2, <1>3, <1>4 DEF Tallies
<1> QED BY <1>1, <1>2, <1>5 DEF UseOf, RefusedOf

\* The tally an active tick leaves behind, whatever it charges.
LEMMA DecideTally ==
    ASSUME TypeOK, Decide
    PROVE  \E charge \in 0 .. MaxCharge :
             /\ usage' \in Tallies
             /\ usage'.day = {today}
             /\ usage'.used = UseOf(usage, today) + charge
             /\ usage'.refused = RefusedOf(usage, today) + refusals
             /\ usage'.unmeasured = FALSE
             /\ measured' = [measured EXCEPT ![today] = @ + charge]
<1> DEFINE r == ReadOn(usage, today)
<1>1. r \in Tallies /\ r.day = {today} /\ (usage.day = {today} => r = usage)
      /\ (usage.day # {today} => r.used = 0 /\ r.refused = 0)
  BY ReadOnIsATally DEF TypeOK
<1>2. PICK charge \in 0 .. MaxCharge :
        /\ usage' = [r EXCEPT !.used = r.used + charge, !.refused = r.refused + refusals,
                              !.unmeasured = FALSE]
        /\ measured' = [measured EXCEPT ![today] = @ + charge]
  BY DEF Decide
<1>3. refusals \in Nat /\ charge \in Nat
  BY BoundsAssumption DEF TypeOK
<1> HIDE DEF r
<1>4. r.used \in Nat /\ r.refused \in Nat
  BY <1>1 DEF Tallies
<1>5. r.used + charge \in Nat /\ r.refused + refusals \in Nat
  BY <1>3, <1>4
<1>6. usage' \in Tallies /\ usage'.day = {today} /\ usage'.used = r.used + charge
      /\ usage'.refused = r.refused + refusals /\ usage'.unmeasured = FALSE
  BY <1>1, <1>2, <1>5 DEF Tallies
<1> QED BY <1>1, <1>2, <1>6 DEF UseOf, RefusedOf

\* No step leaves the declared types.
LEMMA TypeStep ==
    ASSUME TypeOK, [Next]_vars
    PROVE  TypeOK'
<1>1. CASE TickTop
  BY <1>1, TypeTop
<1>2. CASE Abandon
  BY <1>2 DEF Abandon, TypeOK, Tallies, envVars, memoryVars, storeVars, pastVars
<1>3. CASE StandDown
  <2>1. usage' \in Tallies
    BY <1>3, StandDownTally
  <2>2. rowUse' \in [Dates -> Nat] /\ rowRefused' \in [Dates -> Nat]
    BY <1>3, RolloverType DEF StandDown, TypeOK
  <2>3. refusals' \in Nat /\ lodged' \in [Dates -> Nat] /\ lastTurn' \in Option(0 .. Horizon)
    BY <1>3, DrainType DEF StandDown
  <2> QED BY <1>3, <2>1, <2>2, <2>3 DEF StandDown, TypeOK, Tallies, envVars
<1>4. CASE Decide
  <2>1. PICK charge \in 0 .. MaxCharge :
          usage' \in Tallies /\ measured' = [measured EXCEPT ![today] = @ + charge]
    BY <1>4, DecideTally
  <2>2. measured' \in [Dates -> Nat]
    <3>1. measured[today] + charge \in Nat
      BY BoundsAssumption DEF TypeOK
    <3> QED BY <2>1, <3>1 DEF TypeOK
  <2>3. refusals' \in Nat /\ lodged' \in [Dates -> Nat] /\ lastTurn' \in Option(0 .. Horizon)
    BY <1>4, DrainType DEF Decide
  <2> QED BY <1>4, <2>1, <2>2, <2>3 DEF Decide, TypeOK, Tallies, envVars, storeVars
<1>5. CASE Save
  <2>1. pc' \in {"record", "idle"}
    BY <1>5 DEF Save
  <2>2. (disk' = disk \/ disk' = {usage}) /\ (lastSaved' = lastSaved \/ lastSaved' = {usage})
    BY <1>5 DEF Save
  <2> QED BY <1>5, <2>1, <2>2 DEF Save, TypeOK, Tallies, envVars, pastVars
<1>6. CASE Record
  <2>1. rowUse' \in [Dates -> Nat] /\ rowRefused' \in [Dates -> Nat]
    BY <1>6, RolloverType DEF Record, TypeOK
  <2> QED BY <1>6, <2>1, DefaultIsATally DEF Record, TypeOK, Tallies, envVars, pastVars
<1>7. CASE Pass
  <2>1. time' \in 0 .. Horizon
    BY <1>7, BoundsAssumption DEF Pass, TypeOK
  <2> QED BY <1>7, <2>1 DEF Pass, TypeOK, Tallies, tickVars, memoryVars, storeVars, pastVars
<1>8. CASE ClockIsMoved
  BY <1>8 DEF ClockIsMoved, TypeOK, Tallies, tickVars, memoryVars, storeVars, pastVars
<1>9. CASE ModeChanges
  BY <1>9 DEF ModeChanges, TypeOK, Tallies, tickVars, memoryVars, storeVars, pastVars
<1>10. CASE GoesOff
  <2>1. outages' \in 0 .. MaxOutages
    BY <1>10, BoundsAssumption DEF GoesOff, TypeOK
  <2>2. {} \in Option(0 .. Horizon)
    BY DEF Option
  <2> QED BY <1>10, <2>1, <2>2, DefaultIsATally DEF GoesOff, TypeOK, Tallies, envVars, storeVars
<1>11. CASE Starts
  <2>1. usage' \in Tallies
    BY <1>11, DefaultIsATally DEF Starts, Loadable, TypeOK
  <2> QED BY <1>11, <2>1 DEF Starts, TypeOK, Tallies, envVars, storeVars, pastVars
<1>12. CASE UNCHANGED vars
  BY <1>12 DEF vars, TypeOK, Tallies, envVars, tickVars, memoryVars, storeVars, pastVars
<1> QED
  BY <1>1, <1>2, <1>3, <1>4, <1>5, <1>6, <1>7, <1>8, <1>9, <1>10, <1>11, <1>12 DEF Next

(* Every reachable state of the day's tally has the declared types: dates   *)
(* stay on the calendar, counters never go below nothing, and a tally or a  *)
(* reset is there once or not at all.  (rules.rs Usage, RulesEnforcer.)     *)
THEOREM TypeCorrect == Spec => []TypeOK
<1>1. Init => TypeOK
  BY TypeInit
<1>2. TypeOK /\ [Next]_vars => TypeOK'
  BY TypeStep
<1> QED BY <1>1, <1>2, PTL DEF Spec

-----------------------------------------------------------------------------
(* How a day turns. *)

\* What makes a turn of the day wait for its gap.
TurnInv == AtRest /\ ResetsPrecede /\ TurnIsBooked

\* What an Option in the state comes down to: one instant, or none.
LEMMA InstantsAreTimes ==
    ASSUME TypeOK
    PROVE  /\ time \in Int /\ Gap \in Int
           /\ \A t \in lastReset : t \in Int /\ lastReset = {t}
           /\ \A t \in lastTurn : t \in Int /\ lastTurn = {t}
<1>1. time \in Int /\ Gap \in Int
  BY LengthAssumption DEF TypeOK
<1>2. lastReset \in Option(0 .. Horizon) /\ lastTurn \in Option(0 .. Horizon)
  BY DEF TypeOK
<1>3. ASSUME NEW o \in Option(0 .. Horizon), NEW t \in o
      PROVE  t \in Int /\ o = {t}
  <2>1. PICK x \in 0 .. Horizon : o = {x}
    BY <1>3 DEF Option
  <2> QED BY <1>3, <2>1
<1> QED BY <1>1, <1>2, <1>3

\* The day accounting_day answers is the tally's own, unless it booked a reset.
LEMMA BookedOrSameDay ==
    ASSUME TypeOK, AccountingDay
    PROVE  \/ usage.day \in {{}, {today'}} /\ lastReset' = lastReset
           \/ /\ usage.day \notin {{}, {today'}}
              /\ \A t \in lastReset : time - t >= Gap
              /\ lastReset' = {time}
<1>1. usage.day \in Option(Dates)
  BY DEF TypeOK, Tallies
<1>2. ASSUME NEW d \in usage.day PROVE usage.day = {d}
  BY <1>1, <1>2 DEF Option
<1> QED BY <1>2 DEF AccountingDay, ResetBooked

\* A tick that turns the day does so at the instant its reset was booked.
LEMMA TurnAtReset ==
    ASSUME TypeOK, TurnInv, pc \in BeforeTurn, TurnNoted
    PROVE  \/ usage.day \in {{}, {today}} /\ lastTurn' = lastTurn
           \/ /\ usage.day \notin {{}, {today}}
              /\ lastTurn' = {time} /\ lastReset = {time}
              /\ \A t \in lastTurn : time - t >= Gap
  BY DEF TurnInv, TurnIsBooked, TurnNoted

\* The first state waits for nothing.
LEMMA TurnInit == Init => TurnInv
  BY DEF Init, TurnInv, AtRest, ResetsPrecede, TurnIsBooked, BeforeTurn, DefaultTally

\* Every step keeps the turns apart.
LEMMA TurnStep ==
    ASSUME TypeOK, TurnInv, [Next]_vars
    PROVE  TurnInv'
<1>0. /\ time \in Int /\ Gap \in Int
      /\ \A t \in lastReset : t \in Int /\ lastReset = {t}
      /\ \A t \in lastTurn : t \in Int /\ lastTurn = {t}
  BY InstantsAreTimes
<1>1. CASE TickTop
  <2>1. AtRest'
    BY <1>1 DEF TickTop, TurnInv, AtRest
  <2>2. ASSUME NEW t \in lastTurn, \A r \in lastReset : time - r >= Gap
        PROVE  time - t >= Gap
    BY <1>0, <2>2 DEF TurnInv, ResetsPrecede
  <2>3. ASSUME NEW t \in lastTurn PROVE t <= time
    BY <1>0, <2>3 DEF TurnInv, ResetsPrecede
  <2>4. \/ usage.day \in {{}, {today'}} /\ lastReset' = lastReset
        \/ /\ usage.day \notin {{}, {today'}}
           /\ \A t \in lastReset : time - t >= Gap
           /\ lastReset' = {time}
    BY <1>1, BookedOrSameDay DEF TickTop
  <2>5. time' = time /\ lastTurn' = lastTurn /\ usage' = usage
    BY <1>1 DEF TickTop, envVars, pastVars
  <2>6. ResetsPrecede'
    BY <1>0, <2>3, <2>4, <2>5 DEF TurnInv, ResetsPrecede
  <2>7. TurnIsBooked'
    BY <2>2, <2>4, <2>5 DEF TurnIsBooked
  <2> QED BY <2>1, <2>6, <2>7 DEF TurnInv
<1>2. CASE Abandon
  BY <1>2 DEF Abandon, TurnInv, AtRest, ResetsPrecede, TurnIsBooked, BeforeTurn,
              envVars, memoryVars, storeVars, pastVars
<1>3. CASE StandDown
  <2>1. \/ lastTurn' = lastTurn
        \/ lastTurn' = {time} /\ lastReset = {time}
    BY <1>3, TurnAtReset DEF StandDown, BeforeTurn
  <2>2. ResetsPrecede'
    BY <1>0, <1>3, <2>1 DEF StandDown, TurnInv, ResetsPrecede, envVars
  <2> QED BY <1>3, <2>2 DEF StandDown, TurnInv, AtRest, TurnIsBooked, BeforeTurn
<1>4. CASE Decide
  <2>1. \/ lastTurn' = lastTurn
        \/ lastTurn' = {time} /\ lastReset = {time}
    BY <1>4, TurnAtReset DEF Decide, BeforeTurn
  <2>2. ResetsPrecede'
    BY <1>0, <1>4, <2>1 DEF Decide, TurnInv, ResetsPrecede, envVars
  <2> QED BY <1>4, <2>2 DEF Decide, TurnInv, AtRest, TurnIsBooked, BeforeTurn
<1>5. CASE Save
  BY <1>5 DEF Save, TurnInv, AtRest, ResetsPrecede, TurnIsBooked, BeforeTurn, envVars, pastVars
<1>6. CASE Record
  BY <1>6 DEF Record, TurnInv, AtRest, ResetsPrecede, TurnIsBooked, BeforeTurn, envVars, pastVars
<1>7. CASE Pass
  <2>1. ResetsPrecede'
    BY <1>0, <1>7 DEF Pass, TurnInv, ResetsPrecede, memoryVars, pastVars
  <2> QED BY <1>7, <2>1 DEF Pass, TurnInv, AtRest, TurnIsBooked, BeforeTurn,
                            tickVars, memoryVars, pastVars
<1>8. CASE ClockIsMoved
  BY <1>8 DEF ClockIsMoved, TurnInv, AtRest, ResetsPrecede, TurnIsBooked,
              tickVars, memoryVars, storeVars, pastVars
<1>9. CASE ModeChanges
  BY <1>9 DEF ModeChanges, TurnInv, AtRest, ResetsPrecede, TurnIsBooked,
              tickVars, memoryVars, storeVars, pastVars
<1>10. CASE GoesOff
  BY <1>10 DEF GoesOff, TurnInv, AtRest, ResetsPrecede, TurnIsBooked, BeforeTurn
<1>11. CASE Starts
  BY <1>11 DEF Starts, TurnInv, AtRest, ResetsPrecede, TurnIsBooked, BeforeTurn,
               envVars, storeVars, pastVars
<1>12. CASE UNCHANGED vars
  BY <1>12 DEF vars, TurnInv, AtRest, ResetsPrecede, TurnIsBooked,
               envVars, tickVars, memoryVars, storeVars, pastVars
<1> QED
  BY <1>1, <1>2, <1>3, <1>4, <1>5, <1>6, <1>7, <1>8, <1>9, <1>10, <1>11, <1>12 DEF Next

\* A turn is noted only by the two steps that make one, and forgotten only by a reboot.
LEMMA TurnsWait ==
    ASSUME TypeOK, TurnInv, [Next]_vars, lastTurn' # lastTurn
    PROVE  \A t \in lastTurn : lastTurn' = {} \/ time - t >= Gap
<1>1. CASE StandDown
  BY <1>1, TurnAtReset DEF StandDown, BeforeTurn
<1>2. CASE Decide
  BY <1>2, TurnAtReset DEF Decide, BeforeTurn
<1>3. CASE GoesOff
  BY <1>3 DEF GoesOff
<1>4. ~(TickTop \/ Abandon \/ Save \/ Record \/ Pass \/ ClockIsMoved \/ ModeChanges \/ Starts)
  BY DEF TickTop, Abandon, Save, Record, Pass, ClockIsMoved, ModeChanges, Starts, pastVars
<1>5. vars' # vars
  BY DEF vars, pastVars
<1> QED BY <1>1, <1>2, <1>3, <1>4, <1>5 DEF Next

(* For every calendar, gap and clock: one run of the service clears the     *)
(* day's tally at most once in MIN_RESET_GAP, however often the clock is    *)
(* moved, ticks are abandoned or the mode changes between.  (rules.rs       *)
(* accounting_day, MIN_RESET_GAP.)                                          *)
THEOREM TurnsAreAlwaysApart == Spec => TurnsAreApart
<1>1. Init => TypeOK /\ TurnInv
  BY TypeInit, TurnInit
<1>2. TypeOK /\ TurnInv /\ [Next]_vars => TypeOK' /\ TurnInv'
  BY TypeStep, TurnStep
<1>3. TypeOK /\ TurnInv /\ [Next]_vars =>
        [lastTurn' # lastTurn => \A t \in lastTurn : lastTurn' = {} \/ time - t >= Gap]_vars
  BY TurnsWait
<1> QED BY <1>1, <1>2, <1>3, PTL DEF Spec, TurnsAreApart

-----------------------------------------------------------------------------
(* What the disk holds. *)

\* Every step leaves the last tally saved on the disk.
LEMMA SavedStep ==
    ASSUME SavedAgrees, [Next]_vars
    PROVE  SavedAgrees'
<1>1. CASE Save
  BY <1>1 DEF Save, SavedAgrees
<1>2. CASE GoesOff
  BY <1>2 DEF GoesOff, SavedAgrees
<1>3. ASSUME ~Save, ~GoesOff PROVE lastSaved' = lastSaved /\ disk' = disk
  BY <1>3 DEF Next, TickTop, Abandon, StandDown, Decide, Record, Pass, ClockIsMoved, ModeChanges,
              Starts, vars, memoryVars, storeVars
<1> QED BY <1>1, <1>2, <1>3 DEF SavedAgrees

(* Whatever fails and whenever the machine goes off, the comparison that    *)
(* spares the disk never takes a tally for saved that is not on it.         *)
(* (rules.rs save_tally_if_changed.)                                        *)
THEOREM NoSaveIsSkipped == Spec => []NoSaveSkipped
<1>1. Init => SavedAgrees
  BY DEF Init, SavedAgrees
<1>2. SavedAgrees /\ [Next]_vars => SavedAgrees'
  BY SavedStep
<1>3. SavedAgrees => NoSaveSkipped
  BY DEF SavedAgrees, NoSaveSkipped
<1> QED BY <1>1, <1>2, <1>3, PTL DEF Spec

-----------------------------------------------------------------------------
(* The guard and the tally. *)

\* While no process list fails, every step leaves guard and tally in agreement.
LEMMA GuardStep ==
    ASSUME "list" \notin faults, TypeOK, TurnInv, GuardFollows, [Next]_vars
    PROVE  GuardFollows'
<1>1. CASE TickTop
  <2>1. lastReset = lastTurn
    BY <1>1 DEF TickTop, GuardFollows, BeforeTurn
  <2>2. /\ pc' \in BeforeTurn /\ usage' = usage /\ lastTurn' = lastTurn
    BY <1>1 DEF TickTop, BeforeTurn, pastVars
  <2>3. usage.day \in {{}, {today'}} => lastReset' = lastReset
    BY <1>1, BookedOrSameDay DEF TickTop
  <2> QED BY <2>1, <2>2, <2>3 DEF GuardFollows
<1>2. ASSUME StandDown \/ Decide PROVE GuardFollows'
  <2>1. /\ up /\ pc \in BeforeTurn /\ TurnNoted
        /\ lastReset' = lastReset /\ pc' \notin BeforeTurn
    BY <1>2 DEF StandDown, Decide, BeforeTurn
  <2>2. lastReset = lastTurn'
    BY <2>1, TurnAtReset DEF GuardFollows
  <2> QED BY <2>1, <2>2 DEF GuardFollows
<1>3. CASE Save
  BY <1>3 DEF Save, GuardFollows, BeforeTurn, pastVars
<1>4. CASE Record
  BY <1>4 DEF Record, GuardFollows, BeforeTurn, pastVars
<1>5. CASE GoesOff
  BY <1>5 DEF GoesOff, GuardFollows
<1>6. CASE Starts
  BY <1>6 DEF Starts, GuardFollows, TurnInv, AtRest, pastVars
<1>7. CASE Pass \/ ClockIsMoved \/ ModeChanges \/ UNCHANGED vars
  BY <1>7 DEF Pass, ClockIsMoved, ModeChanges, vars, GuardFollows,
              tickVars, memoryVars, pastVars
<1>8. ~Abandon
  BY DEF Abandon
<1> QED BY <1>1, <1>2, <1>3, <1>4, <1>5, <1>6, <1>7, <1>8 DEF Next

(* Where no process list fails, the guard against a second reset and the    *)
(* tally agree on when the day began, reboots in the middle of a tick and   *)
(* saves that fail included.  A failed list does leave them disagreeing: its*)
(* tick books a reset and turns no day.                                     *)
(* (rules.rs accounting_day, stand_down, decide_after_snapshot.)            *)
THEOREM GuardAlwaysAgrees == Spec => []GuardAgreesWithTally
<1> DEFINE Inv == TypeOK /\ TurnInv /\ ("list" \notin faults => GuardFollows)
<1>1. Init => Inv
  BY TypeInit, TurnInit DEF Init, GuardFollows
<1>2. Inv /\ [Next]_vars => Inv'
  BY TypeStep, TurnStep, GuardStep, FaultsStay
<1>3. Inv => GuardAgreesWithTally
  BY DEF GuardFollows, GuardAgreesWithTally, BeforeTurn
<1> QED BY <1>1, <1>2, <1>3, PTL DEF Spec

-----------------------------------------------------------------------------
(* What the rows report. *)

\* The books of one date, for one tally that could carry it on.
Balanced(d, tally) ==
    /\ measured[d] = rowUse[d] + UseOf(tally, d) + RowUse(ended, d)
    /\ lodged[d] = rowRefused[d] + RefusedOf(tally, d) + RowRefused(ended, d)

\* The books of every date, for every tally that could carry it on.
Books ==
    \A d \in Dates, tally \in IF up THEN {usage} ELSE Loadable : Balanced(d, tally)

\* Without failed saves and crashes: what makes the books balance.
ReportInv == AtRest /\ SavedAgrees /\ Kept /\ TallyAgrees /\ Books

\* An empty tally gets no row.
LEMMA NothingHasNoRow ==
    ASSUME NEW d \in Dates
    PROVE  RowUse(DefaultTally, d) = 0 /\ RowRefused(DefaultTally, d) = 0
  BY DEF RowUse, RowRefused, UseOf, RefusedOf, DefaultTally

\* The row of the day that ended takes over what its tally counted; the new one starts from nothing.
LEMMA RowTakesOver ==
    ASSUME TypeOK, TallyAgrees, NEW d \in Dates, d # today
    PROVE  RowUse(usage, d) = UseOf(usage, d) /\ RowRefused(usage, d) = RefusedOf(usage, d)
<1>1. usage.unmeasured => usage.used = 0
  BY DEF TallyAgrees
<1> QED BY <1>1 DEF RowUse, RowRefused, UseOf, RefusedOf

\* An active tick charges one date and lodges its refusals on it, and leaves the rest balanced.
LEMMA DecideBalances ==
    ASSUME TypeOK, ReportInv, Decide
    PROVE  Books' /\ TallyAgrees'
<1>1. PICK charge \in 0 .. MaxCharge :
        /\ usage' \in Tallies
        /\ usage'.day = {today}
        /\ usage'.used = UseOf(usage, today) + charge
        /\ usage'.refused = RefusedOf(usage, today) + refusals
        /\ usage'.unmeasured = FALSE
        /\ measured' = [measured EXCEPT ![today] = @ + charge]
  BY DecideTally
<1>2. /\ up /\ up' = up /\ ended = DefaultTally /\ ended' = usage /\ today' = today /\ Drain
      /\ rowUse' = rowUse /\ rowRefused' = rowRefused /\ disk' = disk /\ pc' = "save"
  BY DEF Decide, ReportInv, AtRest, storeVars
<1>3. TallyAgrees'
  BY <1>1, <1>2 DEF TallyAgrees, ReportInv, AfterTurn
<1>4. ASSUME NEW d \in Dates
      PROVE  Balanced(d, usage)'
  <2>1. Balanced(d, usage) /\ RowUse(ended, d) = 0 /\ RowRefused(ended, d) = 0
    BY <1>2, NothingHasNoRow DEF ReportInv, Books, Balanced
  <2>2. /\ measured[d] \in Nat /\ lodged[d] \in Nat /\ rowUse[d] \in Nat /\ rowRefused[d] \in Nat
        /\ refusals \in Nat /\ charge \in Nat
        /\ UseOf(usage, d) \in Nat /\ RefusedOf(usage, d) \in Nat
    BY BoundsAssumption DEF TypeOK, Tallies, UseOf, RefusedOf
  <2>3. /\ RowUse(ended, d)' = IF d = today THEN 0 ELSE RowUse(usage, d)
        /\ RowRefused(ended, d)' = IF d = today THEN 0 ELSE RowRefused(usage, d)
    BY <1>2 DEF RowUse, RowRefused, UseOf, RefusedOf
  <2>4. CASE d = today
    <3>1. measured'[d] = measured[d] + charge /\ lodged'[d] = lodged[d] + refusals
      BY <1>1, <1>2, <2>4 DEF Drain, TypeOK
    <3>2. UseOf(usage', d) = UseOf(usage, d) + charge /\ RefusedOf(usage', d) = RefusedOf(usage, d) + refusals
      BY <1>1, <2>4 DEF UseOf, RefusedOf
    <3> QED BY <1>2, <2>1, <2>2, <2>3, <2>4, <3>1, <3>2 DEF Balanced
  <2>5. CASE d # today
    <3>1. measured'[d] = measured[d] /\ lodged'[d] = lodged[d]
      BY <1>1, <1>2, <2>5 DEF Drain, TypeOK
    <3>2. UseOf(usage', d) = 0 /\ RefusedOf(usage', d) = 0
      BY <1>1, <2>5 DEF UseOf, RefusedOf
    <3>3. RowUse(usage, d) = UseOf(usage, d) /\ RowRefused(usage, d) = RefusedOf(usage, d)
      BY <2>5, RowTakesOver DEF ReportInv
    <3> QED BY <1>2, <2>1, <2>2, <2>3, <2>5, <3>1, <3>2, <3>3 DEF Balanced
  <2> QED BY <2>4, <2>5
<1> QED BY <1>2, <1>3, <1>4 DEF Books, Balanced

\* A paused tick writes the row of the day that ended itself, and lodges its refusals on the new one.
LEMMA StandDownBalances ==
    ASSUME TypeOK, ReportInv, StandDown
    PROVE  Books' /\ TallyAgrees'
<1>1. /\ usage' \in Tallies
      /\ usage'.day = {today}
      /\ usage'.used = UseOf(usage, today)
      /\ usage'.refused = RefusedOf(usage, today) + refusals
      /\ usage'.unmeasured = (usage.day # {today} \/ usage.unmeasured)
  BY StandDownTally
<1>2. /\ up /\ up' = up /\ ended = DefaultTally /\ ended' = ended /\ today' = today /\ Drain
      /\ RecordRollover(usage) /\ measured' = measured /\ disk' = disk /\ pc' = "savePaused"
  BY DEF StandDown, ReportInv, AtRest
<1>3. TallyAgrees'
  <2>1. usage'.unmeasured => usage'.used = 0
    BY <1>1 DEF ReportInv, TallyAgrees, UseOf
  <2> QED BY <1>1, <1>2, <2>1 DEF TallyAgrees, ReportInv, AfterTurn
<1>4. ASSUME NEW d \in Dates
      PROVE  Balanced(d, usage)'
  <2>1. Balanced(d, usage) /\ RowUse(ended, d) = 0 /\ RowRefused(ended, d) = 0
    BY <1>2, NothingHasNoRow DEF ReportInv, Books, Balanced
  <2>2. /\ measured[d] \in Nat /\ lodged[d] \in Nat /\ rowUse[d] \in Nat /\ rowRefused[d] \in Nat
        /\ refusals \in Nat
        /\ UseOf(usage, d) \in Nat /\ RefusedOf(usage, d) \in Nat
    BY DEF TypeOK, Tallies, UseOf, RefusedOf
  <2>3. RowUse(ended, d)' = 0 /\ RowRefused(ended, d)' = 0
    BY <1>2, <2>1 DEF RowUse, RowRefused, UseOf, RefusedOf
  <2>4. /\ rowUse'[d] = rowUse[d] + RowUse(usage, d)
        /\ rowRefused'[d] = rowRefused[d] + RowRefused(usage, d)
    BY <1>2 DEF RecordRollover
  <2>5. CASE d = today
    <3>1. lodged'[d] = lodged[d] + refusals
      BY <1>2, <2>5 DEF Drain, TypeOK
    <3>2. UseOf(usage', d) = UseOf(usage, d) /\ RefusedOf(usage', d) = RefusedOf(usage, d) + refusals
      BY <1>1, <2>5 DEF UseOf, RefusedOf
    <3>3. RowUse(usage, d) = 0 /\ RowRefused(usage, d) = 0
      BY <2>5 DEF RowUse, RowRefused
    <3> QED BY <1>2, <2>1, <2>2, <2>3, <2>4, <3>1, <3>2, <3>3 DEF Balanced
  <2>6. CASE d # today
    <3>1. lodged'[d] = lodged[d]
      BY <1>2, <2>6 DEF Drain, TypeOK
    <3>2. UseOf(usage', d) = 0 /\ RefusedOf(usage', d) = 0
      BY <1>1, <2>6 DEF UseOf, RefusedOf
    <3>3. RowUse(usage, d) = UseOf(usage, d) /\ RowRefused(usage, d) = RefusedOf(usage, d)
      BY <2>6, RowTakesOver DEF ReportInv
    <3> QED BY <1>2, <2>1, <2>2, <2>3, <2>4, <3>1, <3>2, <3>3 DEF Balanced
  <2> QED BY <2>5, <2>6
<1> QED BY <1>2, <1>3, <1>4 DEF Books, Balanced

\* The last thing an active tick does moves a count from the tally that ended into its row.
LEMMA RecordBalances ==
    ASSUME TypeOK, ReportInv, Record
    PROVE  Books' /\ TallyAgrees'
<1>1. /\ up /\ up' = up /\ ended' = DefaultTally /\ today' = today /\ usage' = usage /\ disk' = disk
      /\ RecordRollover(ended) /\ measured' = measured /\ lodged' = lodged /\ pc' = "idle"
  BY DEF Record, pastVars
<1>2. ASSUME NEW d \in Dates
      PROVE  Balanced(d, usage)'
  <2>1. Balanced(d, usage)
    BY <1>1 DEF ReportInv, Books, Balanced
  <2>2. /\ rowUse[d] \in Nat /\ rowRefused[d] \in Nat
        /\ UseOf(usage, d) \in Nat /\ RefusedOf(usage, d) \in Nat
        /\ RowUse(ended, d) \in Nat /\ RowRefused(ended, d) \in Nat
    BY DEF TypeOK, Tallies, UseOf, RefusedOf, RowUse, RowRefused
  <2>3. RowUse(ended, d)' = 0 /\ RowRefused(ended, d)' = 0
    BY <1>1 DEF RowUse, RowRefused, UseOf, RefusedOf, DefaultTally
  <2>4. /\ rowUse'[d] = rowUse[d] + RowUse(ended, d)
        /\ rowRefused'[d] = rowRefused[d] + RowRefused(ended, d)
    BY <1>1 DEF RecordRollover
  <2>5. UseOf(usage, d)' = UseOf(usage, d) /\ RefusedOf(usage, d)' = RefusedOf(usage, d)
    BY <1>1 DEF UseOf, RefusedOf
  <2> QED BY <1>1, <2>1, <2>2, <2>3, <2>4, <2>5 DEF Balanced
<1>3. TallyAgrees'
  BY <1>1 DEF TallyAgrees, ReportInv, AfterTurn, DefaultTally
<1> QED BY <1>1, <1>2, <1>3 DEF Books, Balanced

\* A tick finds no row pending, so the date it works on changes no sum.
LEMMA TopBalances ==
    ASSUME ReportInv, TickTop
    PROVE  Books' /\ TallyAgrees'
<1>1. /\ up /\ up' = up /\ ended = DefaultTally /\ ended' = ended /\ usage' = usage /\ disk' = disk
      /\ rowUse' = rowUse /\ rowRefused' = rowRefused /\ measured' = measured /\ lodged' = lodged
      /\ pc' \notin AfterTurn
  BY DEF TickTop, ReportInv, AtRest, storeVars, pastVars, AfterTurn
<1>2. ASSUME NEW d \in Dates
      PROVE  Balanced(d, usage)'
  <2>1. Balanced(d, usage)
    BY <1>1 DEF ReportInv, Books, Balanced
  <2>2. RowUse(ended, d) = 0 /\ RowRefused(ended, d) = 0
    BY <1>1, NothingHasNoRow
  <2>3. RowUse(ended, d)' = 0 /\ RowRefused(ended, d)' = 0
    BY <1>1 DEF RowUse, RowRefused, UseOf, RefusedOf, DefaultTally
  <2> QED BY <1>1, <2>1, <2>2, <2>3 DEF Balanced, UseOf, RefusedOf
<1>3. TallyAgrees'
  BY <1>1 DEF TallyAgrees, ReportInv
<1> QED BY <1>1, <1>2, <1>3 DEF Books, Balanced

\* Between ticks, the disk carries on what memory held.
LEMMA OutageBalances ==
    ASSUME TypeOK, ReportInv, "crash" \notin faults, GoesOff \/ Starts
    PROVE  Books' /\ TallyAgrees'
<1>1. /\ ended = DefaultTally /\ ended' = DefaultTally /\ today' = today /\ disk' = disk
      /\ rowUse' = rowUse /\ rowRefused' = rowRefused /\ measured' = measured /\ lodged' = lodged
      /\ pc' = "idle" /\ Loadable' = Loadable
  BY DEF GoesOff, Starts, ReportInv, AtRest, storeVars, pastVars, Loadable
<1>2. ASSUME NEW tally \in IF up' THEN {usage'} ELSE Loadable'
      PROVE  tally \in IF up THEN {usage} ELSE Loadable
  BY <1>1, <1>2 DEF GoesOff, Starts, ReportInv, Kept
<1>3. Books'
  BY <1>1, <1>2 DEF ReportInv, Books, Balanced, UseOf, RefusedOf, RowUse, RowRefused
<1>4. ~DefaultTally.unmeasured
  BY DEF DefaultTally
<1>5. usage' = DefaultTally \/ usage' \in disk
  BY DEF GoesOff, Starts, Loadable
<1>6. TallyAgrees'
  BY <1>1, <1>4, <1>5 DEF TallyAgrees, ReportInv, AfterTurn, DefaultTally
<1> QED BY <1>3, <1>6

\* A step that leaves tally, rows and histories alone balances as before.
LEMMA OtherStepsBalance ==
    ASSUME TypeOK, ReportInv,
           \/ Abandon \/ Save \/ Pass \/ ClockIsMoved \/ ModeChanges \/ UNCHANGED vars
    PROVE  Books' /\ TallyAgrees'
<1>1. /\ up' = up /\ ended' = ended /\ today' = today /\ usage' = usage
      /\ rowUse' = rowUse /\ rowRefused' = rowRefused /\ measured' = measured /\ lodged' = lodged
      /\ disk' \in {disk, {usage}}
      /\ pc' \in AfterTurn => pc \in AfterTurn
  <2>1. CASE Abandon
    BY <2>1 DEF Abandon, AfterTurn, memoryVars, storeVars, pastVars
  <2>2. CASE Save
    BY <2>2 DEF Save, AfterTurn, pastVars
  <2>3. CASE Pass
    BY <2>3 DEF Pass, tickVars, memoryVars, storeVars, pastVars
  <2>4. CASE ClockIsMoved
    BY <2>4 DEF ClockIsMoved, tickVars, memoryVars, storeVars, pastVars
  <2>5. CASE ModeChanges
    BY <2>5 DEF ModeChanges, tickVars, memoryVars, storeVars, pastVars
  <2>6. CASE UNCHANGED vars
    BY <2>6 DEF vars, tickVars, memoryVars, storeVars, pastVars
  <2> QED BY <2>1, <2>2, <2>3, <2>4, <2>5, <2>6
<1>2. ASSUME ~up PROVE Loadable' = Loadable
  BY <1>2 DEF Abandon, Save, Pass, ClockIsMoved, ModeChanges, vars, storeVars, Loadable
<1>3. Books'
  BY <1>1, <1>2 DEF ReportInv, Books, Balanced, UseOf, RefusedOf, RowUse, RowRefused
<1>4. TallyAgrees'
  BY <1>1 DEF TallyAgrees, ReportInv
<1> QED BY <1>3, <1>4

\* Where no save fails, the tally in memory is on the disk again by the end of the save.
LEMMA KeptStep ==
    ASSUME "save" \notin faults, TypeOK, AtRest, SavedAgrees, Kept, [Next]_vars
    PROVE  Kept'
<1>1. CASE StandDown \/ Decide
  BY <1>1 DEF StandDown, Decide, Kept
<1>2. CASE Save
  <2>1. disk' = {usage} /\ usage' = usage
    BY <1>2 DEF Save, SavedAgrees
  <2> QED BY <2>1 DEF Kept, Loadable
<1>3. CASE GoesOff
  BY <1>3 DEF GoesOff, Kept
<1>4. CASE Starts
  <2>1. usage' \in Loadable /\ disk' = disk
    BY <1>4 DEF Starts, storeVars
  <2>2. \A a, b \in disk : a = b
    BY DEF TypeOK
  <2> QED BY <2>1, <2>2 DEF Kept, Loadable
<1>5. CASE TickTop \/ Abandon \/ Record \/ Pass \/ ClockIsMoved \/ ModeChanges \/ UNCHANGED vars
  BY <1>5 DEF TickTop, Abandon, Record, Pass, ClockIsMoved, ModeChanges, Kept, Loadable,
              vars, envVars, tickVars, memoryVars, storeVars
<1> QED BY <1>1, <1>2, <1>3, <1>4, <1>5 DEF Next

\* The first books are empty.
LEMMA ReportInit == Init => ReportInv
<1> SUFFICES ASSUME Init PROVE ReportInv
  OBVIOUS
<1>1. Books
  BY DEF Init, Books, Balanced, UseOf, RefusedOf, RowUse, RowRefused, DefaultTally
<1>2. AtRest /\ SavedAgrees /\ Kept /\ TallyAgrees
  BY DEF Init, AtRest, SavedAgrees, Kept, TallyAgrees, Loadable, AfterTurn, DefaultTally
<1> QED BY <1>1, <1>2 DEF ReportInv

\* Where no save fails and no tick is cut short, every step keeps the books.
LEMMA ReportStep ==
    ASSUME {"save", "crash"} \intersect faults = {}, TypeOK, TurnInv, ReportInv, [Next]_vars
    PROVE  ReportInv'
<1>1. AtRest' /\ SavedAgrees' /\ Kept'
  BY TurnStep, SavedStep, KeptStep DEF TurnInv, ReportInv
<1>2. Books' /\ TallyAgrees'
  BY TopBalances, StandDownBalances, DecideBalances, RecordBalances, OutageBalances,
     OtherStepsBalance DEF Next
<1> QED BY <1>1, <1>2 DEF ReportInv

(* For every calendar, clock and mode, and with process lists that fail:    *)
(* what was measured and refused on a date is in its row or on its way to   *)
(* one, exactly once.  Assumed: every save reaches the disk, and the        *)
(* machine goes off between ticks and not inside one: an active tick saves  *)
(* before it writes the row and a paused one writes the row before it       *)
(* saves.  (rules.rs stand_down, decide_after_snapshot, record_rollover.)   *)
THEOREM DayIsAlwaysReported == Spec => []DayIsReported
<1> DEFINE Sound == {"save", "crash"} \intersect faults = {}
           Inv == TypeOK /\ TurnInv /\ (Sound => ReportInv)
<1>1. Init => Inv
  BY TypeInit, TurnInit, ReportInit
<1>2. Inv /\ [Next]_vars => Inv'
  BY TypeStep, TurnStep, ReportStep, FaultsStay
<1>3. Inv => DayIsReported
  BY DEF ReportInv, Books, Balanced, DayIsReported
<1> QED BY <1>1, <1>2, <1>3, PTL DEF Spec

-----------------------------------------------------------------------------
(* What a power cut costs. *)

\* The tally in memory is at most one charge ahead of what a restart would find of its day.
AtMostATick ==
    up => usage.used <= MaxCharge \/ \E t \in disk : t.day = usage.day /\ usage.used <= t.used + MaxCharge

\* A tick's turn and charge start from what the disk holds.
LEMMA TurnCostsATick ==
    ASSUME TypeOK, Kept, StandDown \/ Decide
    PROVE  AtMostATick'
<1>1. PICK charge \in 0 .. MaxCharge :
        /\ usage'.day = {today}
        /\ usage'.used = UseOf(usage, today) + charge
  <2>1. CASE Decide
    BY <2>1, DecideTally
  <2>2. CASE StandDown
    <3>1. usage'.day = {today} /\ usage'.used = UseOf(usage, today)
      BY <2>2, StandDownTally
    <3>2. UseOf(usage, today) \in Nat /\ 0 \in 0 .. MaxCharge
      BY BoundsAssumption DEF TypeOK, Tallies, UseOf
    <3> QED BY <3>1, <3>2
  <2> QED BY <2>1, <2>2
<1>2. disk' = disk /\ Loadable = {usage}
  BY DEF StandDown, Decide, Kept, storeVars
<1>3. usage.used \in Nat /\ MaxCharge \in Nat
  BY BoundsAssumption DEF TypeOK, Tallies
<1>4. CASE usage.day # {today} \/ usage = DefaultTally
  <2>1. UseOf(usage, today) = 0
    BY <1>4 DEF UseOf, DefaultTally
  <2> QED BY <1>1, <1>3, <2>1 DEF AtMostATick
<1>5. CASE usage.day = {today} /\ usage # DefaultTally
  <2>1. usage \in disk
    BY <1>2, <1>5 DEF Loadable
  <2>2. UseOf(usage, today) = usage.used
    BY <1>5 DEF UseOf
  <2>3. usage'.used <= usage.used + MaxCharge /\ usage'.day = usage.day
    BY <1>1, <1>3, <1>5, <2>2
  <2> QED BY <1>2, <2>1, <2>3 DEF AtMostATick
<1> QED BY <1>4, <1>5

\* Every step leaves the disk at most one charge behind.
LEMMA LossStep ==
    ASSUME "save" \notin faults, TypeOK, SavedAgrees, Kept, AtMostATick, [Next]_vars
    PROVE  AtMostATick'
<1>1. CASE StandDown \/ Decide
  BY <1>1, TurnCostsATick
<1>2. usage.used \in Nat /\ MaxCharge \in Nat
  BY BoundsAssumption DEF TypeOK, Tallies
<1>3. CASE Save
  <2>1. disk' = {usage} /\ usage' = usage
    BY <1>3 DEF Save, SavedAgrees
  <2> QED BY <1>2, <2>1 DEF AtMostATick
<1>4. CASE GoesOff
  BY <1>4 DEF GoesOff, AtMostATick
<1>5. CASE Starts
  <2>1. disk' = disk /\ (usage' = DefaultTally \/ usage' \in disk)
    BY <1>5 DEF Starts, Loadable, storeVars
  <2>2. \A t \in disk : t.used \in Nat
    BY DEF TypeOK, Tallies
  <2> QED BY <1>2, <2>1, <2>2 DEF AtMostATick, DefaultTally
<1>6. CASE TickTop \/ Abandon \/ Record \/ Pass \/ ClockIsMoved \/ ModeChanges \/ UNCHANGED vars
  BY <1>6 DEF TickTop, Abandon, Record, Pass, ClockIsMoved, ModeChanges, AtMostATick,
              vars, tickVars, memoryVars, storeVars
<1> QED BY <1>1, <1>3, <1>4, <1>5, <1>6 DEF Next

(* Where saves reach the disk, a power cut costs at most what one tick      *)
(* charges, wherever in a tick it comes and however the clock was moved.    *)
(* (rules.rs save_tally_if_changed, Usage::load_or_default.)                *)
THEOREM AtMostATickIsLost == Spec => []LosesAtMostATick
<1> DEFINE Inv == /\ TypeOK /\ TurnInv /\ SavedAgrees
                  /\ "save" \notin faults => Kept /\ AtMostATick
<1>1. Init => Inv
  <2> SUFFICES ASSUME Init PROVE Inv
    OBVIOUS
  <2>1. SavedAgrees /\ Kept
    BY DEF Init, SavedAgrees, Kept, Loadable
  <2>2. AtMostATick
    BY BoundsAssumption DEF Init, AtMostATick, DefaultTally
  <2> QED BY <2>1, <2>2, TypeInit, TurnInit
<1>2. Inv /\ [Next]_vars => Inv'
  BY TypeStep, TurnStep, SavedStep, KeptStep, LossStep, FaultsStay DEF TurnInv
<1>3. Inv => LosesAtMostATick
  BY DEF AtMostATick, LosesAtMostATick
<1> QED BY <1>1, <1>2, <1>3, PTL DEF Spec

-----------------------------------------------------------------------------
(* Watcher: what its helper holds of the programs in front. *)

\* What a helper believes in front of somebody who is there.
Shown(t) == IF t.idle THEN {} ELSE {c.app : c \in t.current}

\* What it would have of a program if it looked, and somebody was there until then.
Held(t, a, until) == At(t.banked, a) + IF a \in Shown(t) /\ t.lastLook < until THEN until - t.lastLook ELSE 0

\* The figures of watcher.rs and session.rs, one by one.
LEMMA WatchFigures ==
    /\ Second \in Nat /\ Poll \in Nat /\ Emit \in Nat /\ IdleAfter \in Nat
    /\ MinBackoff \in Nat /\ MaxBackoff \in Nat /\ HealthyRun \in Nat /\ Nap \in Nat
    /\ Second > 0 /\ Emit > 0 /\ MinBackoff <= MaxBackoff
  BY WatchAssumption

\* What is banked is a number of units for some of the programs.
LEMMA BankIs ==
    \A f \in Banks : /\ DOMAIN f \subseteq Apps /\ f \in [DOMAIN f -> Nat]
                     /\ \A a : At(f, a) \in Nat
  BY DEF Banks, At

\* Any such figures may be banked.
LEMMA BankHas == \A set \in SUBSET Apps : \A f \in [set -> Nat] : f \in Banks
  BY DEF Banks

\* accrue adds up.
LEMMA AccruedAddsUp ==
    ASSUME NEW f \in Banks, NEW g \in Banks
    PROVE  Accrued(f, g) \in Banks /\ \A a : At(Accrued(f, g), a) = At(f, a) + At(g, a)
<1>1. /\ DOMAIN f \subseteq Apps /\ f \in [DOMAIN f -> Nat]
      /\ DOMAIN g \subseteq Apps /\ g \in [DOMAIN g -> Nat]
  BY BankIs
<1>2. Accrued(f, g) = [n \in DOMAIN f \union DOMAIN g |-> At(f, n) + At(g, n)]
  BY DEF Accrued, At
<1>3. Accrued(f, g) \in [DOMAIN f \union DOMAIN g -> Nat]
  <2>1. \A n : At(f, n) \in Nat /\ At(g, n) \in Nat
    BY BankIs
  <2> QED BY <1>2, <2>1
<1>4. Accrued(f, g) \in Banks
  BY <1>1, <1>3, BankHas
<1>5. ASSUME NEW a PROVE At(Accrued(f, g), a) = At(f, a) + At(g, a)
  <2>1. CASE a \in DOMAIN f \union DOMAIN g
    BY <1>2, <2>1 DEF At
  <2>2. CASE a \notin DOMAIN f \union DOMAIN g
    BY <1>2, <2>2 DEF At
  <2> QED BY <2>1, <2>2
<1> QED BY <1>4, <1>5

\* What is in front is credited with the time since it was, and nothing else is.
LEMMA CreditIs ==
    ASSUME NEW current \in Option([app : Apps, since : Nat]), NEW now \in Nat, NEW since,
           \A c \in current : c.since = since
    PROVE  /\ Credit(current, now) \in Banks
           /\ \A a : At(Credit(current, now), a) =
                  IF a \in {c.app : c \in current} /\ since < now THEN now - since ELSE 0
<1> DEFINE set == {c.app : c \in {k \in current : k.since < now}}
<1>1. Credit(current, now) = [a \in set |-> now - (CHOOSE c \in current : TRUE).since]
  BY DEF Credit
<1>2. set \subseteq Apps
  BY DEF Option
<1>3. ASSUME NEW a \in set
      PROVE  (CHOOSE c \in current : TRUE).since = since /\ since < now /\ since \in Nat
  <2>1. current # {}
    BY <1>3
  <2>2. (CHOOSE c \in current : TRUE) \in current
    BY <2>1
  <2>3. PICK c \in current : c.app = a /\ c.since < now
    BY <1>3
  <2>4. c.since = since /\ c.since \in Nat
    BY <2>3 DEF Option
  <2> QED BY <2>2, <2>3, <2>4
<1>4. \A a : a \in set <=> a \in {c.app : c \in current} /\ since < now
  OBVIOUS
<1> HIDE DEF set
<1>5. Credit(current, now) = [a \in set |-> now - since]
  BY <1>1, <1>3
<1>6. Credit(current, now) \in [set -> Nat]
  BY <1>3, <1>5
<1>7. Credit(current, now) \in Banks
  BY <1>2, <1>6, BankHas
<1>8. ASSUME NEW a
      PROVE  At(Credit(current, now), a) = IF a \in {c.app : c \in current} /\ since < now THEN now - since ELSE 0
  BY <1>4, <1>5 DEF At
<1> QED BY <1>7, <1>8

\* What banking leaves of a tracker.
LEMMA BankedIs ==
    ASSUME NEW t \in Tracker, NEW now \in Nat, NEW since \in Nat, \A c \in t.current : c.since = since
    PROVE  LET u == Banked(t, now) IN
           /\ u \in Tracker
           /\ u.idle = t.idle /\ u.started = t.started /\ u.lastEmit = t.lastEmit /\ u.lastLook = t.lastLook
           /\ u.looked = t.looked
           /\ {c.app : c \in u.current} = {c.app : c \in t.current}
           /\ \A c \in u.current : c.since = Later(since, now)
           /\ \A a : At(u.banked, a) =
                  At(t.banked, a) + IF a \in Shown(t) /\ since < now THEN now - since ELSE 0
<1> DEFINE current == {[app |-> c.app, since |-> Later(c.since, now)] : c \in t.current}
           banked == IF t.idle THEN t.banked ELSE Accrued(t.banked, Credit(t.current, now))
<1>1. Banked(t, now) = [t EXCEPT !.current = current, !.banked = banked]
  BY DEF Banked
<1>2. t.current \in Option([app : Apps, since : Nat]) /\ t.banked \in Banks /\ t.idle \in BOOLEAN
  BY DEF Tracker
<1>3. /\ Credit(t.current, now) \in Banks
      /\ \A a : At(Credit(t.current, now), a) =
             IF a \in {c.app : c \in t.current} /\ since < now THEN now - since ELSE 0
  BY <1>2, CreditIs
<1>4. banked \in Banks
  BY <1>2, <1>3, AccruedAddsUp
<1>5. \A a : At(banked, a) = At(t.banked, a) + IF a \in Shown(t) /\ since < now THEN now - since ELSE 0
  <2> TAKE a
  <2>1. At(t.banked, a) \in Nat
    BY <1>2, BankIs
  <2>2. CASE t.idle
    BY <2>1, <2>2 DEF Shown
  <2>3. CASE ~t.idle
    <3>1. At(banked, a) = At(t.banked, a) + At(Credit(t.current, now), a)
      BY <1>2, <1>3, <2>3, AccruedAddsUp
    <3>2. Shown(t) = {c.app : c \in t.current}
      BY <2>3 DEF Shown
    <3> QED BY <1>3, <3>1, <3>2
  <2> QED BY <2>2, <2>3
<1>6. \A x \in Nat : Later(x, now) \in Nat
  BY DEF Later
<1>7. current \in Option([app : Apps, since : Nat])
  <2>1. CASE t.current = {}
    BY <2>1 DEF Option
  <2>2. CASE t.current # {}
    <3>1. PICK c \in [app : Apps, since : Nat] : t.current = {c}
      BY <1>2, <2>2 DEF Option
    <3>2. current = {[app |-> c.app, since |-> Later(c.since, now)]}
      BY <3>1
    <3>3. [app |-> c.app, since |-> Later(c.since, now)] \in [app : Apps, since : Nat]
      BY <1>6
    <3> HIDE DEF current
    <3> QED BY <3>2, <3>3 DEF Option
  <2> QED BY <2>1, <2>2
<1>8. {c.app : c \in current} = {c.app : c \in t.current}
  <2>1. \A c \in t.current : [app |-> c.app, since |-> Later(c.since, now)].app = c.app
    OBVIOUS
  <2>2. \A a : a \in {c.app : c \in current} <=> \E c \in t.current : a = c.app
    BY <2>1
  <2> QED BY <2>2
<1>9. \A c \in current : c.since = Later(since, now)
  OBVIOUS
<1> HIDE DEF current, banked
<1>10. [t EXCEPT !.current = current, !.banked = banked] \in Tracker
  BY <1>4, <1>7 DEF Tracker
<1>11. /\ Banked(t, now).current = current /\ Banked(t, now).banked = banked
       /\ Banked(t, now).idle = t.idle /\ Banked(t, now).started = t.started
       /\ Banked(t, now).lastEmit = t.lastEmit /\ Banked(t, now).lastLook = t.lastLook
       /\ Banked(t, now).looked = t.looked
  BY <1>1 DEF Tracker
<1> QED BY <1>1, <1>5, <1>8, <1>9, <1>10, <1>11

\* With what is in front since the last look, it is what is held.
LEMMA BankedHolds ==
    ASSUME NEW t \in Tracker, NEW now \in Nat, \A c \in t.current : c.since = t.lastLook
    PROVE  \A a : At(Banked(t, now).banked, a) = Held(t, a, now)
<1>1. t.lastLook \in Nat
  BY DEF Tracker
<1> QED BY <1>1, BankedIs DEF Held

\* What it sees at a look is in front from then on, and what was is credited up to the end of
\* the grace.
LEMMA ObservedIs ==
    ASSUME NEW t \in Tracker, \A c \in t.current : c.since = t.lastLook, t.lastLook <= watchTime,
           watchTime \in Nat, lastInput \in Nat, lastInput <= watchTime, front \in Option(Apps)
    PROVE  LET u == Banked(Observed(t, watchTime), watchTime) IN
           /\ u \in Tracker
           /\ u.started = t.started /\ u.lastEmit = t.lastEmit
           /\ \A c \in u.current : c.since = watchTime
           /\ \A a : At(u.banked, a) = Held(t, a, Least(watchTime, GraceEnds(t)))
<1> DEFINE until == Least(watchTime, GraceEnds(t))
           away == watchTime - lastInput >= IdleAfter
           first == Banked(t, until)
           aside == [first EXCEPT !.idle = away]
           second == Banked(aside, watchTime)
           seen == {[app |-> a, since |-> watchTime] : a \in front}
           observed == [second EXCEPT !.current = seen]
<1>1. Observed(t, watchTime) = observed
  BY DEF Observed, IdleState
<1>2. t.started \in Nat /\ t.lastLook \in Nat
  BY DEF Tracker
<1>3. until \in Nat /\ (~away => until = watchTime)
  BY <1>2, WatchFigures DEF Least, GraceEnds, Later
<1>4. away \in BOOLEAN
  OBVIOUS
<1> HIDE DEF until, away
<1>5. /\ first \in Tracker
      /\ first.started = t.started /\ first.lastEmit = t.lastEmit /\ first.lastLook = t.lastLook
      /\ \A c \in first.current : c.since = Later(t.lastLook, until)
      /\ \A a : At(first.banked, a) = Held(t, a, until)
  BY <1>2, <1>3, BankedIs DEF Held
<1> HIDE DEF first
<1>6. /\ aside \in Tracker /\ aside.idle = away
      /\ aside.started = t.started /\ aside.lastEmit = t.lastEmit
      /\ aside.current = first.current /\ aside.banked = first.banked
  BY <1>4, <1>5 DEF Tracker
<1> HIDE DEF aside
<1>7. Later(t.lastLook, until) \in Nat /\ (~away => ~(Later(t.lastLook, until) < watchTime))
  BY <1>2, <1>3 DEF Later
<1>8. /\ second \in Tracker
      /\ second.started = t.started /\ second.lastEmit = t.lastEmit
      /\ \A a : At(second.banked, a) = At(aside.banked, a)
              + IF a \in Shown(aside) /\ Later(t.lastLook, until) < watchTime
                THEN watchTime - Later(t.lastLook, until) ELSE 0
  <2> DEFINE since == Later(t.lastLook, until)
  <2>1. since \in Nat /\ \A c \in aside.current : c.since = since
    BY <1>5, <1>6, <1>7
  <2> HIDE DEF since
  <2>2. LET u == Banked(aside, watchTime) IN
        /\ u \in Tracker
        /\ u.started = aside.started /\ u.lastEmit = aside.lastEmit
        /\ \A a : At(u.banked, a) =
               At(aside.banked, a) + IF a \in Shown(aside) /\ since < watchTime THEN watchTime - since ELSE 0
    BY <1>6, <2>1, BankedIs
  <2> QED BY <1>6, <2>2 DEF since
<1>9. \A a : At(second.banked, a) = Held(t, a, until)
  <2> TAKE a
  <2>1. ~(a \in Shown(aside) /\ Later(t.lastLook, until) < watchTime)
    BY <1>6, <1>7 DEF Shown
  <2>2. At(aside.banked, a) = Held(t, a, until) /\ At(aside.banked, a) \in Nat
    BY <1>5, <1>6, BankIs DEF Tracker
  <2> QED BY <1>8, <2>1, <2>2
<1> HIDE DEF second
<1>10. seen \in Option([app : Apps, since : Nat]) /\ \A c \in seen : c.since = watchTime
  <2>1. CASE front = {}
    BY <2>1 DEF Option
  <2>2. CASE front # {}
    <3>1. PICK a \in Apps : front = {a}
      BY <2>2 DEF Option
    <3>2. seen = {[app |-> a, since |-> watchTime]}
      BY <3>1
    <3> QED BY <3>2 DEF Option
  <2> QED BY <2>1, <2>2
<1> HIDE DEF seen
<1>11. /\ observed \in Tracker /\ observed.current = seen /\ observed.banked = second.banked
       /\ observed.started = t.started /\ observed.lastEmit = t.lastEmit
  BY <1>8, <1>10 DEF Tracker
<1> HIDE DEF observed
<1>12. LET u == Banked(observed, watchTime) IN
       /\ u \in Tracker
       /\ u.started = t.started /\ u.lastEmit = t.lastEmit
       /\ \A c \in u.current : c.since = Later(watchTime, watchTime)
       /\ \A a : At(u.banked, a) = At(observed.banked, a)
               + IF a \in Shown(observed) /\ watchTime < watchTime THEN watchTime - watchTime ELSE 0
  BY <1>10, <1>11, BankedIs
<1>13. Later(watchTime, watchTime) = watchTime
  BY DEF Later
<1>14. \A a : At(observed.banked, a) = Held(t, a, until) /\ At(observed.banked, a) \in Nat
  BY <1>9, <1>11, BankIs DEF Tracker
<1>15. \A a : At(Banked(observed, watchTime).banked, a) = Held(t, a, until)
  BY <1>12, <1>14
<1> QED BY <1>1, <1>12, <1>13, <1>15 DEF until

\* A number of seconds, and what is left.
LEMMA Division ==
    ASSUME NEW x \in Nat
    PROVE  /\ x \div Second \in Nat /\ x % Second \in Nat /\ x % Second < Second
           /\ Second * (x \div Second) + (x % Second) = x
<1>1. Second \in Nat /\ Second > 0
  BY WatchFigures
<1> QED BY <1>1

\* drain loses nothing: what it reports and what it keeps are what there was.
LEMMA NothingIsLostInDrain ==
    ASSUME NEW f \in Banks
    PROVE  /\ Carried(f) \in Banks
           /\ \A a : /\ At(Whole(f), a) \in Nat /\ At(Carried(f), a) \in Nat /\ At(Carried(f), a) < Second
                     /\ Second * At(Whole(f), a) + At(Carried(f), a) = At(f, a)
<1> DEFINE left == {a \in DOMAIN f : f[a] % Second > 0}
<1>1. DOMAIN f \subseteq Apps /\ f \in [DOMAIN f -> Nat]
  BY BankIs
<1>2. \A a \in DOMAIN f : f[a] \in Nat
  BY <1>1
<1>3. \A a \in DOMAIN f :
          /\ f[a] \div Second \in Nat /\ f[a] % Second \in Nat /\ f[a] % Second < Second
          /\ Second * (f[a] \div Second) + (f[a] % Second) = f[a]
  BY <1>2, Division
<1>4. Carried(f) = [a \in left |-> f[a] % Second]
  BY DEF Carried, Restrict
<1>5. Carried(f) \in [left -> Nat]
  BY <1>3, <1>4
<1>6. left \subseteq Apps
  BY <1>1
<1>7. Carried(f) \in Banks
  <2> HIDE DEF left
  <2> QED BY <1>5, <1>6, BankHas
<1>8. Second \in Nat /\ Second > 0
  BY WatchFigures
<1>9. ASSUME NEW a
      PROVE  /\ At(Whole(f), a) \in Nat /\ At(Carried(f), a) \in Nat /\ At(Carried(f), a) < Second
             /\ Second * At(Whole(f), a) + At(Carried(f), a) = At(f, a)
  <2>1. CASE a \notin DOMAIN f
    <3>1. At(Whole(f), a) = 0 /\ At(Carried(f), a) = 0 /\ At(f, a) = 0
      BY <1>4, <2>1 DEF At, Whole
    <3> QED BY <1>8, <3>1
  <2>2. CASE a \in DOMAIN f
    <3>1. At(Whole(f), a) = f[a] \div Second /\ At(f, a) = f[a]
      BY <2>2 DEF At, Whole
    <3>2. At(Carried(f), a) = f[a] % Second
      <4>1. CASE a \in left
        BY <1>4, <4>1 DEF At
      <4>2. CASE a \notin left
        <5>1. f[a] % Second = 0
          BY <1>3, <2>2, <4>2
        <5>2. At(Carried(f), a) = 0
          BY <1>4, <4>2 DEF At
        <5> QED BY <5>1, <5>2
      <4> QED BY <4>1, <4>2
    <3> QED BY <1>3, <2>2, <3>1, <3>2
  <2> QED BY <2>1, <2>2
<1> QED BY <1>7, <1>9

\* What is held by a helper that has looked, in numbers.
LEMMA HeldIs ==
    ASSUME NEW t \in Tracker
    PROVE  \A a : \A until \in Nat : Held(t, a, until) \in Nat /\ At(t.banked, a) \in Nat /\ t.lastLook \in Nat
<1>1. t.banked \in Banks /\ t.lastLook \in Nat
  BY DEF Tracker
<1>2. \A a : At(t.banked, a) \in Nat
  BY <1>1, BankIs
<1> QED BY <1>1, <1>2 DEF Held

\* The model's words on the helper that runs, and on there being none.
LEMMA OneHelper ==
    ASSUME NEW t \in Tracker, helper = {t}, \A c \in t.current : c.since = t.lastLook,
           watchTime \in Nat, lastInput \in Nat
    PROVE  /\ GraceEnds(t) \in Nat /\ Least(watchTime, GraceEnds(t)) \in Nat
           /\ \A a : Unreported(a) = Held(t, a, watchTime)
           /\ \A a : Sure(a) = Held(t, a, Least(watchTime, GraceEnds(t)))
           /\ Believed = Shown(t)
           /\ Credited = IF watchTime < GraceEnds(t) THEN Shown(t) ELSE {}
           /\ Overdue = IF watchTime > t.lastLook + Poll THEN watchTime - t.lastLook - Poll ELSE 0
<1>1. (CHOOSE k \in helper : TRUE) = t /\ helper # {}
  OBVIOUS
<1>2. GraceEnds(t) \in Nat /\ Least(watchTime, GraceEnds(t)) \in Nat
  <2>1. t.started \in Nat
    BY DEF Tracker
  <2> QED BY <2>1, WatchFigures DEF GraceEnds, Least, Later
<1>3. \A a : Unreported(a) = Held(t, a, watchTime)
  BY <1>1, BankedHolds DEF Unreported
<1>4. \A a : Sure(a) = Held(t, a, Least(watchTime, GraceEnds(t)))
  BY <1>1, <1>2, BankedHolds DEF Sure
<1>5. Believed = Shown(t)
  BY DEF Believed, Shown
<1>6. Credited = IF watchTime < GraceEnds(t) THEN Shown(t) ELSE {}
  BY DEF Credited, Shown
<1>7. Overdue = IF watchTime > t.lastLook + Poll THEN watchTime - t.lastLook - Poll ELSE 0
  BY <1>1 DEF Overdue
<1> QED BY <1>2, <1>3, <1>4, <1>5, <1>6, <1>7

\* The same, after a step.
LEMMA OneHelperThen ==
    ASSUME NEW t \in Tracker, helper' = {t}, \A c \in t.current : c.since = t.lastLook,
           watchTime' \in Nat, lastInput' \in Nat
    PROVE  /\ GraceEnds(t)' = Later(lastInput', t.started) + IdleAfter
           /\ GraceEnds(t)' \in Nat /\ Least(watchTime', GraceEnds(t)') \in Nat
           /\ \A a : Unreported(a)' = Held(t, a, watchTime')
           /\ \A a : Sure(a)' = Held(t, a, Least(watchTime', GraceEnds(t)'))
           /\ Believed' = Shown(t)
           /\ Overdue' = IF watchTime' > t.lastLook + Poll THEN watchTime' - t.lastLook - Poll ELSE 0
<1>1. (CHOOSE k \in helper' : TRUE) = t /\ helper' # {}
  OBVIOUS
<1>2. /\ GraceEnds(t)' = Later(lastInput', t.started) + IdleAfter
      /\ GraceEnds(t)' \in Nat /\ Least(watchTime', GraceEnds(t)') \in Nat
  <2>1. t.started \in Nat
    BY DEF Tracker
  <2> QED BY <2>1, WatchFigures DEF GraceEnds, Least, Later
<1>3. \A a : Unreported(a)' = Held(t, a, watchTime')
  BY <1>1, BankedHolds DEF Unreported
<1>4. \A a : Sure(a)' = Held(t, a, Least(watchTime', GraceEnds(t)'))
  BY <1>1, <1>2, BankedHolds DEF Sure
<1>5. Believed' = Shown(t)
  BY DEF Believed, Shown
<1>6. Overdue' = IF watchTime' > t.lastLook + Poll THEN watchTime' - t.lastLook - Poll ELSE 0
  BY <1>1 DEF Overdue
<1> QED BY <1>2, <1>3, <1>4, <1>5, <1>6

\* Without a helper nothing is held, believed or overdue.
LEMMA NoHelper ==
    ASSUME helper = {}
    PROVE  /\ \A a : Unreported(a) = 0 /\ Sure(a) = 0
           /\ Believed = {} /\ Credited = {} /\ Overdue = 0
  BY DEF Unreported, Sure, Believed, Credited, Overdue

\* The same, after a step.
LEMMA NoHelperThen ==
    ASSUME helper' = {}
    PROVE  /\ \A a : Unreported(a)' = 0 /\ Sure(a)' = 0
           /\ Believed' = {} /\ Overdue' = 0
  BY DEF Unreported, Sure, Believed, Overdue

\* The invariant says of a helper that runs what it needs.
LEMMA HelperIs ==
    ASSUME WatchTypes, LooksAgree, helper # {}
    PROVE  \E t \in Tracker :
               /\ helper = {t}
               /\ \A c \in t.current : c.since = t.lastLook
<1>1. PICK t \in Tracker : helper = {t}
  BY DEF WatchTypes, Option
<1>2. \A c \in t.current : c.since = t.lastLook
  BY <1>1 DEF LooksAgree
<1> QED BY <1>1, <1>2

\* What the types say, one by one.
LEMMA TypesAre ==
    ASSUME WatchTypes
    PROVE  /\ watchTime \in Nat /\ lastInput \in Nat /\ lastInput <= watchTime
           /\ front \in Option(Apps) /\ session \in BOOLEAN
           /\ supervisor \in [pumping : BOOLEAN, at : Nat, backoff : MinBackoff..MaxBackoff]
           /\ supervisor.at \in Nat /\ supervisor.backoff \in Nat
           /\ MinBackoff <= supervisor.backoff /\ supervisor.backoff <= MaxBackoff
           /\ \A a \in Apps : /\ reported[a] \in Nat /\ past.real[a] \in Nat /\ past.wrong[a] \in Nat
                              /\ past.unseen[a] \in Nat /\ past.gone[a] \in Nat
           /\ past.away \in Nat /\ past.kills \in Nat /\ past.naps \in Nat
           /\ past.short \in Nat /\ past.ended \in Nat /\ past.disturbed \in Nat
<1>1. /\ supervisor \in [pumping : BOOLEAN, at : Nat, backoff : MinBackoff..MaxBackoff]
      /\ reported \in Counts
      /\ past \in [real : Counts, wrong : Counts, unseen : Counts, away : Nat, gone : Counts,
                   kills : Nat, naps : Nat, short : Nat, ended : Nat, disturbed : Nat]
  BY DEF WatchTypes
<1>2. supervisor.at \in Nat /\ supervisor.backoff \in MinBackoff..MaxBackoff
  BY <1>1
<1>3. /\ past.real \in Counts /\ past.wrong \in Counts /\ past.unseen \in Counts /\ past.gone \in Counts
      /\ past.away \in Nat /\ past.kills \in Nat /\ past.naps \in Nat
      /\ past.short \in Nat /\ past.ended \in Nat /\ past.disturbed \in Nat
  BY <1>1
<1>4. \A f \in Counts : \A a \in Apps : f[a] \in Nat
  BY DEF Counts
<1>5. supervisor.backoff \in Nat /\ MinBackoff <= supervisor.backoff /\ supervisor.backoff <= MaxBackoff
  BY <1>2, WatchFigures
<1>6. /\ watchTime \in Nat /\ lastInput \in Nat /\ lastInput <= watchTime
      /\ front \in Option(Apps) /\ session \in BOOLEAN
  BY DEF WatchTypes
<1> QED BY <1>1, <1>2, <1>3, <1>4, <1>5, <1>6

\* A new helper has seen nothing.
LEMMA FreshIs ==
    ASSUME watchTime \in Nat
    PROVE  /\ Fresh \in Tracker /\ Fresh.current = {} /\ ~Fresh.looked
           /\ Fresh.started = watchTime /\ Fresh.lastEmit = watchTime /\ Fresh.lastLook = watchTime
           /\ Shown(Fresh) = {}
           /\ \A a : At(Fresh.banked, a) = 0 /\ \A until \in Nat : Held(Fresh, a, until) = 0
<1>1. NoSecs \in Banks /\ \A a : At(NoSecs, a) = 0
  <2>1. DOMAIN NoSecs = {}
    BY DEF NoSecs
  <2>2. NoSecs \in [{} -> Nat]
    BY DEF NoSecs
  <2>3. NoSecs \in Banks
    BY <2>2, BankHas
  <2> QED BY <2>1, <2>3 DEF At
<1>2. {} \in Option([app : Apps, since : Nat])
  BY DEF Option
<1>3. /\ Fresh.current = {} /\ ~Fresh.looked /\ Fresh.idle = FALSE /\ Fresh.banked = NoSecs
      /\ Fresh.started = watchTime /\ Fresh.lastEmit = watchTime /\ Fresh.lastLook = watchTime
  BY DEF Fresh
<1>4. Fresh \in Tracker
  BY <1>1, <1>2 DEF Fresh, Tracker
<1>5. Shown(Fresh) = {}
  BY <1>3 DEF Shown
<1>6. \A a : At(Fresh.banked, a) = 0
  BY <1>1, <1>3
<1>7. \A a : \A until \in Nat : Held(Fresh, a, until) = 0
  BY <1>5, <1>6 DEF Held
<1> QED BY <1>3, <1>4, <1>5, <1>6, <1>7

\* Nothing is a count of nothing.
LEMMA NothingCounts == Nothing \in Counts /\ \A a \in Apps : Nothing[a] = 0
  BY DEF Nothing, Counts

\* The program starts in the invariant.
LEMMA WatchStarts == WatchInit => WatchIInv
<1> SUFFICES ASSUME WatchInit PROVE WatchIInv
  OBVIOUS
<1> USE WatchFigures, NothingCounts
<1>1. /\ watchTime = 0 /\ front = {} /\ lastInput = 0 /\ session = TRUE /\ helper = {}
      /\ supervisor = [pumping |-> FALSE, at |-> 0, backoff |-> MinBackoff]
      /\ reported = Nothing
      /\ past = [real |-> Nothing, wrong |-> Nothing, unseen |-> Nothing, away |-> 0, gone |-> Nothing,
                 kills |-> 0, naps |-> 0, short |-> 0, ended |-> 0, disturbed |-> 0]
  BY DEF WatchInit
<1>2. /\ past.real = Nothing /\ past.wrong = Nothing /\ past.unseen = Nothing /\ past.away = 0
      /\ past.gone = Nothing /\ past.kills = 0 /\ past.naps = 0 /\ past.short = 0 /\ past.disturbed = 0
  BY <1>1
<1>3. supervisor.pumping = FALSE /\ supervisor.at = 0 /\ supervisor.backoff = MinBackoff
  BY <1>1
<1>4. WatchTypes
  <2>1. front \in Option(Apps) /\ helper \in Option(Tracker)
    BY <1>1 DEF Option
  <2>2. supervisor \in [pumping : BOOLEAN, at : Nat, backoff : MinBackoff..MaxBackoff]
    BY <1>1
  <2>3. past \in [real : Counts, wrong : Counts, unseen : Counts, away : Nat, gone : Counts,
                  kills : Nat, naps : Nat, short : Nat, ended : Nat, disturbed : Nat]
    BY <1>1
  <2>4. /\ watchTime \in Nat /\ lastInput \in Nat /\ lastInput <= watchTime
        /\ session \in BOOLEAN /\ reported \in Counts
    BY <1>1
  <2> QED BY <2>1, <2>2, <2>3, <2>4 DEF WatchTypes
<1>5. LooksAgree
  BY <1>1 DEF LooksAgree
<1>6. CreditAgrees
  <2>1. Second * 0 = 0
    OBVIOUS
  <2>2. \A a \in Apps : reported[a] = 0 /\ past.real[a] = 0 /\ past.wrong[a] = 0 /\ past.unseen[a] = 0 /\ past.gone[a] = 0
    BY <1>1, <1>2
  <2>3. Believed = {} /\ \A a : Unreported(a) = 0 /\ Sure(a) = 0
    BY <1>1, NoHelper
  <2> QED BY <1>2, <2>1, <2>2, <2>3 DEF CreditAgrees
<1>7. LossesAgree
  <2>1. 0 * (Emit + Poll + Second - 2) = 0 /\ 0 * Nap = 0
    OBVIOUS
  <2>2. Overdue = 0
    BY <1>1, NoHelper
  <2>3. \A a \in Apps : past.gone[a] = 0
    BY <1>2
  <2> QED BY <1>2, <2>1, <2>2, <2>3 DEF LossesAgree
<1>8. SupervisorAgrees
  <2>1. (0 + 1) * MinBackoff = MinBackoff
    OBVIOUS
  <2>2. supervisor.backoff >= Least((past.short + 1) * MinBackoff, MaxBackoff)
    BY <1>2, <1>3, <2>1 DEF Least
  <2> QED BY <1>1, <1>2, <1>3, <2>2 DEF SupervisorAgrees
<1> QED BY <1>4, <1>5, <1>6, <1>7, <1>8 DEF WatchIInv

\* A helper has seen no less than it is sure of.
LEMMA SumsAre ==
    ASSUME WatchTypes, LooksAgree
    PROVE  \A a : Sure(a) \in Nat /\ Unreported(a) \in Nat /\ Overdue \in Nat /\ Sure(a) <= Unreported(a)
<1> USE WatchFigures
<1>1. CASE helper = {}
  BY <1>1, NoHelper
<1>2. CASE helper # {}
  <2>1. PICK t \in Tracker : helper = {t} /\ \A c \in t.current : c.since = t.lastLook
    BY <1>2, HelperIs
  <2>2. watchTime \in Nat /\ lastInput \in Nat
    BY TypesAre
  <2>3. /\ Least(watchTime, GraceEnds(t)) \in Nat
        /\ \A a : Unreported(a) = Held(t, a, watchTime)
        /\ \A a : Sure(a) = Held(t, a, Least(watchTime, GraceEnds(t)))
        /\ Overdue = IF watchTime > t.lastLook + Poll THEN watchTime - t.lastLook - Poll ELSE 0
    BY <2>1, <2>2, OneHelper
  <2>4. /\ t.lastLook \in Nat
        /\ \A a : At(t.banked, a) \in Nat /\ Held(t, a, watchTime) \in Nat
                  /\ Held(t, a, Least(watchTime, GraceEnds(t))) \in Nat
    BY <2>1, <2>2, <2>3, HeldIs
  <2>5. Least(watchTime, GraceEnds(t)) <= watchTime
    <3>1. GraceEnds(t) \in Nat
      BY <2>1, <2>2, OneHelper
    <3> QED BY <2>2, <3>1 DEF Least
  <2>6. \A a : Held(t, a, Least(watchTime, GraceEnds(t))) <= Held(t, a, watchTime)
    BY <2>2, <2>3, <2>4, <2>5 DEF Held
  <2> QED BY <2>2, <2>3, <2>4, <2>6
<1> QED BY <1>1, <1>2

\* The invariant gives the property.
LEMMA WatchIInvMeasures == WatchIInv => HelperMeasures
<1> SUFFICES ASSUME WatchIInv PROVE HelperMeasures
  OBVIOUS
<1> USE WatchFigures
<1>1. WatchTypes /\ LooksAgree /\ CreditAgrees /\ LossesAgree /\ SupervisorAgrees
  BY DEF WatchIInv
<1>2. \A a \in Apps : Sure(a) \in Nat /\ Unreported(a) \in Nat /\ Overdue \in Nat /\ Sure(a) <= Unreported(a)
  BY <1>1, SumsAre
<1>3. FocusIsReal
  <2> SUFFICES ASSUME NEW a \in Apps
               PROVE  LET counted == Second * reported[a] + Unreported(a)
                      IN  /\ \A t \in helper : t.looked => counted <= past.real[a] + past.wrong[a]
                          /\ counted + past.gone[a] >= past.real[a] - past.unseen[a]
                          /\ past.gone[a] <= past.kills * (Emit + Poll + Second - 2) + past.naps * Nap
    BY DEF FocusIsReal
  <2>1. /\ reported[a] \in Nat /\ past.real[a] \in Nat /\ past.wrong[a] \in Nat
        /\ past.unseen[a] \in Nat /\ past.gone[a] \in Nat /\ past.away \in Nat
        /\ past.kills \in Nat /\ past.naps \in Nat
    BY <1>1, TypesAre
  <2> DEFINE booked == Second * reported[a]
             allowance == past.kills * (Emit + Poll + Second - 2) + past.naps * Nap
  <2>2. booked \in Nat /\ allowance \in Int
    BY <2>1
  <2>3. /\ booked + Unreported(a) <= past.real[a] + past.wrong[a] + IF a \in Believed THEN past.away ELSE 0
        /\ past.real[a] <= booked + Sure(a) + past.gone[a] + past.unseen[a]
    BY <1>1 DEF CreditAgrees
  <2>4. past.gone[a] + Overdue <= allowance
    BY <1>1 DEF LossesAgree
  <2> HIDE DEF booked, allowance
  <2>5. \A t \in helper : t.looked => booked + Unreported(a) <= past.real[a] + past.wrong[a]
    <3>1. \A t \in helper : t.looked => past.away = 0
      BY <1>1 DEF LooksAgree
    <3> QED BY <2>1, <2>2, <2>3, <3>1, <1>2
  <2>6. booked + Unreported(a) + past.gone[a] >= past.real[a] - past.unseen[a]
    BY <2>1, <2>2, <2>3, <1>2
  <2>7. past.gone[a] <= allowance
    BY <2>1, <2>2, <2>4, <1>2
  <2> QED BY <2>5, <2>6, <2>7 DEF booked, allowance
<1>4. MeasuringResumes
  <2>1. /\ watchTime \in Nat /\ past.disturbed \in Nat /\ supervisor.at \in Nat
        /\ supervisor.backoff \in Nat /\ past.short \in Nat /\ past.ended \in Nat
    BY <1>1, TypesAre
  <2>2. session /\ watchTime - past.disturbed > MaxBackoff => helper # {}
    BY <1>1, <2>1 DEF SupervisorAgrees
  <2>3. ~supervisor.pumping /\ past.short > 0 =>
            supervisor.at - past.ended >= Least((past.short + 1) * MinBackoff, MaxBackoff)
    <3>1. Least((past.short + 1) * MinBackoff, MaxBackoff) \in Int
      BY <2>1 DEF Least
    <3> QED BY <1>1, <2>1, <3>1 DEF SupervisorAgrees
  <2> QED BY <2>2, <2>3 DEF MeasuringResumes
<1> QED BY <1>3, <1>4 DEF HelperMeasures

\* A look credits what was in front, up to the end of the grace, and a report loses nothing of it.
LEMMA LooksKeepsWatch == WatchIInv /\ Looks => WatchIInv'
<1> SUFFICES ASSUME WatchIInv, Looks PROVE WatchIInv'
  OBVIOUS
<1> USE WatchFigures
<1>1. WatchTypes /\ LooksAgree /\ CreditAgrees /\ LossesAgree /\ SupervisorAgrees
  BY DEF WatchIInv
<1>2. /\ watchTime \in Nat /\ lastInput \in Nat /\ lastInput <= watchTime /\ front \in Option(Apps)
      /\ past \in [real : Counts, wrong : Counts, unseen : Counts, away : Nat, gone : Counts,
                   kills : Nat, naps : Nat, short : Nat, ended : Nat, disturbed : Nat]
      /\ reported \in Counts
  BY <1>1 DEF WatchTypes
<1>3. /\ watchTime' = watchTime /\ front' = front /\ lastInput' = lastInput /\ session' = session
      /\ supervisor' = supervisor
      /\ past' = [past EXCEPT !.away = 0]
  BY DEF Looks
<1>4. /\ past'.real = past.real /\ past'.wrong = past.wrong /\ past'.unseen = past.unseen
      /\ past'.gone = past.gone /\ past'.kills = past.kills /\ past'.naps = past.naps
      /\ past'.short = past.short /\ past'.ended = past.ended /\ past'.disturbed = past.disturbed
      /\ past'.away = 0
  BY <1>2, <1>3
<1>5. helper # {}
  BY DEF Looks
<1>6. PICK t \in Tracker : helper = {t} /\ \A c \in t.current : c.since = t.lastLook
  BY <1>1, <1>5, HelperIs
<1>7. /\ t.started \in Nat /\ t.lastEmit \in Nat /\ t.lastLook \in Nat
      /\ t.started <= t.lastEmit /\ t.lastEmit <= t.lastLook /\ t.lastLook <= watchTime
      /\ t.lastLook < t.lastEmit + Emit
      /\ \A a \in Apps : At(t.banked, a) < Second + (t.lastLook - t.lastEmit)
  BY <1>1, <1>6 DEF LooksAgree, Tracker
<1> DEFINE seen == Banked(Observed(t, watchTime), watchTime)
           kept == [seen EXCEPT !.lastLook = watchTime, !.looked = TRUE]
           next == IF watchTime - t.lastEmit >= Emit
                   THEN [kept EXCEPT !.banked = Carried(@), !.lastEmit = watchTime] ELSE kept
           sure(a) == Held(t, a, Least(watchTime, GraceEnds(t)))
<1>8. /\ seen \in Tracker /\ seen.started = t.started /\ seen.lastEmit = t.lastEmit
      /\ \A c \in seen.current : c.since = watchTime
      /\ \A a : At(seen.banked, a) = sure(a)
  BY <1>2, <1>6, <1>7, ObservedIs
<1>9. /\ helper' = {next}
      /\ reported' = IF watchTime - t.lastEmit >= Emit
                     THEN [a \in Apps |-> reported[a] + At(Whole(seen.banked), a)] ELSE reported
  BY <1>6 DEF Looks
<1> HIDE DEF seen
<1>10. seen.banked \in Banks
  BY <1>8 DEF Tracker
<1>11. /\ Carried(seen.banked) \in Banks
       /\ \A a : /\ At(Whole(seen.banked), a) \in Nat
                 /\ At(Carried(seen.banked), a) \in Nat /\ At(Carried(seen.banked), a) < Second
                 /\ Second * At(Whole(seen.banked), a) + At(Carried(seen.banked), a) = At(seen.banked, a)
  BY <1>10, NothingIsLostInDrain
<1>12. /\ kept \in Tracker /\ kept.current = seen.current /\ kept.banked = seen.banked
       /\ kept.started = seen.started /\ kept.lastEmit = seen.lastEmit
       /\ kept.lastLook = watchTime /\ kept.looked
  BY <1>2, <1>8 DEF Tracker
<1> HIDE DEF kept
<1>13. /\ next \in Tracker /\ next.current = seen.current /\ next.started = t.started
       /\ next.lastLook = watchTime
       /\ next.lastEmit = IF watchTime - t.lastEmit >= Emit THEN watchTime ELSE t.lastEmit
       /\ next.banked = IF watchTime - t.lastEmit >= Emit THEN Carried(seen.banked) ELSE seen.banked
  <2>1. CASE watchTime - t.lastEmit >= Emit
    BY <1>2, <1>8, <1>11, <1>12, <2>1 DEF Tracker
  <2>2. CASE ~(watchTime - t.lastEmit >= Emit)
    BY <1>8, <1>12, <2>2
  <2> QED BY <2>1, <2>2
<1> HIDE DEF next
<1>14. PICK then \in Tracker : then = next
  BY <1>13
<1>15. /\ helper' = {then}
       /\ reported' = IF watchTime - t.lastEmit >= Emit
                      THEN [a \in Apps |-> reported[a] + At(Whole(seen.banked), a)] ELSE reported
  BY <1>9, <1>14
<1>16. /\ then \in Tracker /\ then.current = seen.current /\ then.started = t.started
       /\ then.lastLook = watchTime
       /\ then.lastEmit = IF watchTime - t.lastEmit >= Emit THEN watchTime ELSE t.lastEmit
       /\ then.banked = IF watchTime - t.lastEmit >= Emit THEN Carried(seen.banked) ELSE seen.banked
  BY <1>13, <1>14
<1>17. \A c \in then.current : c.since = then.lastLook
  BY <1>8, <1>16
<1>18. /\ GraceEnds(t) \in Nat /\ Least(watchTime, GraceEnds(t)) \in Nat
       /\ \A a : Unreported(a) = Held(t, a, watchTime) /\ Sure(a) = sure(a)
       /\ Overdue = IF watchTime > t.lastLook + Poll THEN watchTime - t.lastLook - Poll ELSE 0
  BY <1>2, <1>6, OneHelper
<1>19. /\ Least(watchTime', GraceEnds(then)') \in Nat
       /\ \A a : Unreported(a)' = Held(then, a, watchTime')
       /\ \A a : Sure(a)' = Held(then, a, Least(watchTime', GraceEnds(then)'))
       /\ Overdue' = IF watchTime' > then.lastLook + Poll THEN watchTime' - then.lastLook - Poll ELSE 0
       /\ GraceEnds(then)' \in Nat
  BY <1>2, <1>3, <1>15, <1>16, <1>17, OneHelperThen
<1>20. \A a : Held(then, a, watchTime') = At(then.banked, a)
              /\ Held(then, a, Least(watchTime', GraceEnds(then)')) = At(then.banked, a)
              /\ At(then.banked, a) \in Nat
  <2>1. Least(watchTime', GraceEnds(then)') <= watchTime
    BY <1>2, <1>3, <1>19 DEF Least
  <2>2. \A a : At(then.banked, a) \in Nat
    BY <1>16, BankIs DEF Tracker
  <2> QED BY <1>2, <1>3, <1>16, <1>19, <2>1, <2>2 DEF Held
<1>21. \A a : Unreported(a)' = At(then.banked, a) /\ Sure(a)' = At(then.banked, a) /\ Overdue' = 0
  BY <1>2, <1>3, <1>16, <1>19, <1>20
<1>22. \A a \in Apps : /\ reported'[a] \in Nat /\ sure(a) \in Nat
                       /\ Second * reported'[a] + At(then.banked, a) = Second * reported[a] + sure(a)
  <2> TAKE a \in Apps
  <2>1. reported[a] \in Nat
    BY <1>1, TypesAre
  <2>2. At(seen.banked, a) = sure(a) /\ sure(a) \in Nat
    BY <1>6, <1>8, <1>18, HeldIs
  <2> HIDE DEF sure
  <2>3. CASE watchTime - t.lastEmit >= Emit
    <3>1. reported'[a] = reported[a] + At(Whole(seen.banked), a) /\ then.banked = Carried(seen.banked)
      BY <1>15, <1>16, <2>3
    <3>2. /\ At(Whole(seen.banked), a) \in Nat /\ At(Carried(seen.banked), a) \in Nat
          /\ Second * At(Whole(seen.banked), a) + At(Carried(seen.banked), a) = sure(a)
      BY <1>11, <2>2
    <3>3. \A x, y \in Nat : Second * (x + y) = Second * x + Second * y /\ Second * x \in Nat
      OBVIOUS
    <3> QED BY <2>1, <2>2, <3>1, <3>2, <3>3
  <2>4. CASE ~(watchTime - t.lastEmit >= Emit)
    <3>1. reported' = reported /\ then.banked = seen.banked
      BY <1>15, <1>16, <2>4
    <3> QED BY <2>1, <2>2, <3>1
  <2> QED BY <2>3, <2>4
<1>23. WatchTypes'
  <2>1. reported' \in Counts
    <3>1. CASE watchTime - t.lastEmit >= Emit
      <4>1. reported' = [a \in Apps |-> reported[a] + At(Whole(seen.banked), a)]
        BY <1>15, <3>1
      <4>2. \A a \in Apps : reported[a] + At(Whole(seen.banked), a) \in Nat
        BY <1>11, <1>1, TypesAre
      <4> QED BY <4>1, <4>2 DEF Counts
    <3>2. CASE ~(watchTime - t.lastEmit >= Emit)
      BY <1>2, <1>15, <3>2
    <3> QED BY <3>1, <3>2
  <2>2. helper' \in Option(Tracker)
    BY <1>15, <1>16 DEF Option
  <2>3. past' \in [real : Counts, wrong : Counts, unseen : Counts, away : Nat, gone : Counts,
                   kills : Nat, naps : Nat, short : Nat, ended : Nat, disturbed : Nat]
    BY <1>2, <1>3
  <2> QED BY <1>1, <1>3, <2>1, <2>2, <2>3 DEF WatchTypes
<1>24. LooksAgree'
  <2>1. \A a \in Apps : At(then.banked, a) < Second + (then.lastLook - then.lastEmit)
    <3> TAKE a \in Apps
    <3>1. CASE watchTime - t.lastEmit >= Emit
      BY <1>2, <1>11, <1>16, <3>1
    <3>2. CASE ~(watchTime - t.lastEmit >= Emit)
      <4>1. At(then.banked, a) = sure(a) /\ then.lastLook = watchTime /\ then.lastEmit = t.lastEmit
        BY <1>8, <1>16, <3>2
      <4>2. At(t.banked, a) \in Nat /\ At(t.banked, a) < Second + (t.lastLook - t.lastEmit)
        BY <1>6, <1>7, HeldIs
      <4>3. Least(watchTime, GraceEnds(t)) <= watchTime
        BY <1>2, <1>18 DEF Least
      <4>4. sure(a) <= At(t.banked, a) + (watchTime - t.lastLook)
        BY <1>2, <1>7, <1>18, <4>2, <4>3 DEF Held
      <4>5. sure(a) \in Nat
        BY <1>22
      <4> HIDE DEF sure
      <4> QED BY <1>2, <1>7, <4>1, <4>2, <4>4, <4>5
    <3> QED BY <3>1, <3>2
  <2>2. /\ then.started <= then.lastEmit /\ then.lastEmit <= then.lastLook /\ then.lastLook <= watchTime
        /\ then.lastLook < then.lastEmit + Emit
    BY <1>2, <1>7, <1>16
  <2>3. then.looked => past'.away = 0 /\ then.lastLook = watchTime'
    BY <1>3, <1>4, <1>16
  <2> QED BY <1>3, <1>15, <1>17, <2>1, <2>2, <2>3 DEF LooksAgree
<1>25. CreditAgrees'
  <2> SUFFICES ASSUME NEW a \in Apps
               PROVE  /\ Second * reported'[a] + Sure(a)' <= past'.real[a] + past'.wrong[a]
                      /\ Second * reported'[a] + Unreported(a)' <=
                             past'.real[a] + past'.wrong[a] + IF a \in Believed' THEN past'.away ELSE 0
                      /\ past'.real[a] <= Second * reported'[a] + Sure(a)' + past'.gone[a] + past'.unseen[a]
    BY DEF CreditAgrees
  <2>1. /\ Second * reported[a] + sure(a) <= past.real[a] + past.wrong[a]
        /\ past.real[a] <= Second * reported[a] + sure(a) + past.gone[a] + past.unseen[a]
    BY <1>1, <1>18 DEF CreditAgrees
  <2>2. Second * reported'[a] + At(then.banked, a) = Second * reported[a] + sure(a)
    BY <1>22
  <2>3. /\ past.real[a] \in Nat /\ past.wrong[a] \in Nat /\ past.unseen[a] \in Nat /\ past.gone[a] \in Nat
    BY <1>1, TypesAre
  <2>4. Unreported(a)' = At(then.banked, a) /\ Sure(a)' = At(then.banked, a)
    BY <1>21
  <2>5. (IF a \in Believed' THEN past'.away ELSE 0) = 0
    BY <1>4
  <2> DEFINE total == Second * reported[a] + sure(a)
  <2>6. total \in Nat
    BY <1>1, <1>22, TypesAre
  <2>7. /\ total <= past.real[a] + past.wrong[a]
        /\ past.real[a] <= total + past.gone[a] + past.unseen[a]
    BY <2>1
  <2>8. Second * reported'[a] + Sure(a)' = total /\ Second * reported'[a] + Unreported(a)' = total
    BY <2>2, <2>4
  <2> HIDE DEF total
  <2> QED BY <1>4, <2>3, <2>5, <2>6, <2>7, <2>8
<1>26. LossesAgree'
  <2> SUFFICES ASSUME NEW a \in Apps
               PROVE  past'.gone[a] + Overdue' <= past'.kills * (Emit + Poll + Second - 2) + past'.naps * Nap
    BY DEF LossesAgree
  <2> DEFINE allowance == past.kills * (Emit + Poll + Second - 2) + past.naps * Nap
  <2>1. past.gone[a] + Overdue <= allowance
    BY <1>1 DEF LossesAgree
  <2>2. past.gone[a] \in Nat /\ Overdue \in Nat /\ past.kills \in Nat /\ past.naps \in Nat
    BY <1>1, TypesAre, SumsAre
  <2>3. allowance \in Int
    BY <2>2
  <2>4. past'.gone[a] = past.gone[a] /\ past'.kills = past.kills /\ past'.naps = past.naps /\ Overdue' = 0
    BY <1>4, <1>21
  <2>5. past'.kills * (Emit + Poll + Second - 2) + past'.naps * Nap = allowance
    BY <2>4
  <2> HIDE DEF allowance
  <2> QED BY <2>1, <2>2, <2>3, <2>4, <2>5
<1>27. SupervisorAgrees'
  <2>1. helper' # {}
    BY <1>15
  <2>2. supervisor.pumping
    BY <1>1, <1>5 DEF SupervisorAgrees
  <2>3. /\ past.disturbed <= watchTime
        /\ supervisor.backoff >= Least((past.short + 1) * MinBackoff, MaxBackoff)
    BY <1>1 DEF SupervisorAgrees
  <2> QED BY <1>3, <1>4, <2>1, <2>2, <2>3 DEF SupervisorAgrees
<1> QED BY <1>23, <1>24, <1>25, <1>26, <1>27 DEF WatchIInv

\* What a helper can take with it: one report, with the rest of a second before it, and what it
\* was behind.
LEMMA UnreportedIsBounded ==
    ASSUME WatchTypes, LooksAgree, helper # {}
    PROVE  \A a \in Apps : Unreported(a) <= (Emit + Poll + Second - 2) + Overdue
<1> USE WatchFigures
<1>1. PICK t \in Tracker : helper = {t} /\ \A c \in t.current : c.since = t.lastLook
  BY HelperIs
<1>2. watchTime \in Nat /\ lastInput \in Nat
  BY TypesAre
<1>3. /\ \A a : Unreported(a) = Held(t, a, watchTime)
      /\ Overdue = IF watchTime > t.lastLook + Poll THEN watchTime - t.lastLook - Poll ELSE 0
  BY <1>1, <1>2, OneHelper
<1>4. /\ t.lastEmit \in Nat /\ t.lastLook \in Nat /\ t.lastEmit <= t.lastLook /\ t.lastLook <= watchTime
      /\ t.lastLook < t.lastEmit + Emit
      /\ \A a \in Apps : At(t.banked, a) < Second + (t.lastLook - t.lastEmit)
  BY <1>1 DEF LooksAgree, Tracker
<1>5. \A a : At(t.banked, a) \in Nat /\ Held(t, a, watchTime) \in Nat
  BY <1>1, <1>2, HeldIs
<1>6. \A a \in Apps : At(t.banked, a) <= Second + Emit - 2
  BY <1>4, <1>5
<1>7. watchTime - t.lastLook <= Poll + Overdue /\ Overdue \in Nat
  BY <1>2, <1>3, <1>4
<1>8. \A a : Held(t, a, watchTime) <= At(t.banked, a) + (watchTime - t.lastLook)
  BY <1>2, <1>4, <1>5 DEF Held
<1> QED BY <1>2, <1>3, <1>4, <1>5, <1>6, <1>7, <1>8

\* Without a helper, what the last of them took with it is accounted for.
LEMMA WithoutHelper ==
    ASSUME WatchTypes, LooksAgree, CreditAgrees, LossesAgree,
           helper' = {}, reported' = reported,
           past'.real = past.real, past'.wrong = past.wrong, past'.unseen = past.unseen, past'.naps = past.naps,
           \A a \in Apps : past'.gone[a] = past.gone[a] + Unreported(a),
           past'.kills = IF helper = {} THEN past.kills ELSE past.kills + 1
    PROVE  LooksAgree' /\ CreditAgrees' /\ LossesAgree'
<1> USE WatchFigures
<1>1. LooksAgree'
  BY DEF LooksAgree
<1>2. Believed' = {} /\ \A a : Unreported(a)' = 0 /\ Sure(a)' = 0 /\ Overdue' = 0
  BY NoHelperThen
<1>3. \A a : Sure(a) \in Nat /\ Unreported(a) \in Nat /\ Overdue \in Nat /\ Sure(a) <= Unreported(a)
  BY SumsAre
<1>4. CreditAgrees'
  <2> SUFFICES ASSUME NEW a \in Apps
               PROVE  /\ Second * reported'[a] + Sure(a)' <= past'.real[a] + past'.wrong[a]
                      /\ Second * reported'[a] + Unreported(a)' <=
                             past'.real[a] + past'.wrong[a] + IF a \in Believed' THEN past'.away ELSE 0
                      /\ past'.real[a] <= Second * reported'[a] + Sure(a)' + past'.gone[a] + past'.unseen[a]
    BY DEF CreditAgrees
  <2> DEFINE booked == Second * reported[a]
  <2>1. /\ booked + Sure(a) <= past.real[a] + past.wrong[a]
        /\ past.real[a] <= booked + Sure(a) + past.gone[a] + past.unseen[a]
    BY DEF CreditAgrees
  <2>2. /\ booked \in Nat
        /\ past.real[a] \in Nat /\ past.wrong[a] \in Nat /\ past.unseen[a] \in Nat /\ past.gone[a] \in Nat
    BY TypesAre
  <2>3. Second * reported'[a] = booked
    OBVIOUS
  <2>4. (IF a \in Believed' THEN past'.away ELSE 0) = 0
    BY <1>2
  <2> HIDE DEF booked
  <2>5. /\ booked + 0 <= past.real[a] + past.wrong[a]
        /\ past.real[a] <= booked + 0 + (past.gone[a] + Unreported(a)) + past.unseen[a]
    BY <1>3, <2>1, <2>2
  <2> QED BY <1>2, <1>3, <2>2, <2>3, <2>4, <2>5
<1>5. LossesAgree'
  <2> SUFFICES ASSUME NEW a \in Apps
               PROVE  past'.gone[a] + Overdue' <= past'.kills * (Emit + Poll + Second - 2) + past'.naps * Nap
    BY DEF LossesAgree
  <2> DEFINE each == Emit + Poll + Second - 2
             lost == past.kills * each
             slept == past.naps * Nap
  <2>1. past.gone[a] + Overdue <= lost + slept
    BY DEF LossesAgree
  <2>2. past.gone[a] \in Nat /\ past.kills \in Nat /\ past.naps \in Nat /\ each \in Nat
    BY TypesAre
  <2>3. lost \in Nat /\ slept \in Nat
    BY <2>2
  <2>4. past'.naps * Nap = slept
    OBVIOUS
  <2>5. past'.gone[a] = past.gone[a] + Unreported(a)
    OBVIOUS
  <2>6. CASE helper = {}
    <3>1. Unreported(a) = 0 /\ past'.kills * each = lost
      BY <2>6, NoHelper
    <3> HIDE DEF lost, slept
    <3>2. past.gone[a] + 0 + 0 <= lost + slept
      BY <1>3, <2>1, <2>2, <2>3
    <3> QED BY <1>2, <2>2, <2>4, <2>5, <3>1, <3>2
  <2>7. CASE helper # {}
    <3>1. Unreported(a) <= each + Overdue
      BY <2>7, UnreportedIsBounded
    <3>2. past'.kills * each = lost + each
      <4>1. past'.kills = past.kills + 1
        BY <2>7
      <4>2. \A n, m \in Nat : (n + 1) * m = n * m + m
        OBVIOUS
      <4> HIDE DEF each
      <4> QED BY <2>2, <4>1, <4>2
    <3> HIDE DEF lost, slept, each
    <3>3. past.gone[a] + Unreported(a) + 0 <= (lost + each) + slept
      BY <1>3, <2>1, <2>2, <2>3, <3>1
    <3> QED BY <1>2, <2>4, <2>5, <3>2, <3>3 DEF each
  <2> QED BY <2>6, <2>7
<1> QED BY <1>1, <1>4, <1>5

\* The wait doubles, up to the longest, and starts anew after a run that lasted.
LEMMA WaitIs ==
    ASSUME NEW b \in Nat, NEW n \in Nat, NEW low \in Nat, NEW high \in Nat,
           low <= b, b <= high, b >= Least((n + 1) * low, high)
    PROVE  /\ Least(2 * b, high) \in low..high
           /\ Least(2 * b, high) >= Least((n + 1 + 1) * low, high)
<1> DEFINE one == (n + 1) * low
           two == (n + 1 + 1) * low
           many == n * low
<1>1. many \in Nat /\ one = many + low /\ two = many + low + low
  <2>1. \A x, y \in Nat : (x + 1) * y = x * y + y /\ x * y \in Nat
    OBVIOUS
  <2>2. one = n * low + low /\ two = (n + 1) * low + low
    BY <2>1
  <2> QED BY <2>1, <2>2
<1>2. b >= Least(one, high)
  OBVIOUS
<1> HIDE DEF one, two, many
<1>3. Least(2 * b, high) \in low..high
  BY DEF Least
<1>4. Least(2 * b, high) >= Least(two, high)
  BY <1>1, <1>2 DEF Least
<1> QED BY <1>3, <1>4 DEF two

\* The wait that follows a run, and what is remembered of it.
LEMMA WaitsRightly ==
    ASSUME WatchTypes, SupervisorAgrees, NEW uptime \in Int, SleepsAfter(uptime), Ended(uptime)
    PROVE  /\ supervisor' \in [pumping : BOOLEAN, at : Nat, backoff : MinBackoff..MaxBackoff]
           /\ ~supervisor'.pumping
           /\ supervisor'.at = watchTime + supervisor'.backoff
           /\ supervisor'.backoff \in Nat /\ supervisor'.backoff <= MaxBackoff
           /\ supervisor'.backoff >= Least((past'.short + 1) * MinBackoff, MaxBackoff)
           /\ past' \in [real : Counts, wrong : Counts, unseen : Counts, away : Nat, gone : Counts,
                         kills : Nat, naps : Nat, short : Nat, ended : Nat, disturbed : Nat]
           /\ past'.real = past.real /\ past'.wrong = past.wrong /\ past'.unseen = past.unseen
           /\ past'.gone = past.gone /\ past'.kills = past.kills /\ past'.naps = past.naps
           /\ past'.away = past.away /\ past'.ended = watchTime /\ past'.disturbed = past.disturbed
<1> USE WatchFigures
<1> DEFINE backoff == IF Healthy(uptime) THEN MinBackoff ELSE Least(2 * supervisor.backoff, MaxBackoff)
           short == IF uptime >= HealthyRun THEN 0 ELSE past.short + 1
<1>1. supervisor' = [pumping |-> FALSE, at |-> watchTime + backoff, backoff |-> backoff]
  BY DEF SleepsAfter
<1>2. past' = [past EXCEPT !.short = short, !.ended = watchTime]
  BY DEF Ended
<1>3. /\ watchTime \in Nat /\ supervisor.backoff \in Nat
      /\ MinBackoff <= supervisor.backoff /\ supervisor.backoff <= MaxBackoff /\ past.short \in Nat
      /\ past \in [real : Counts, wrong : Counts, unseen : Counts, away : Nat, gone : Counts,
                   kills : Nat, naps : Nat, short : Nat, ended : Nat, disturbed : Nat]
  BY TypesAre DEF WatchTypes
<1>4. supervisor.backoff >= Least((past.short + 1) * MinBackoff, MaxBackoff)
  BY DEF SupervisorAgrees
<1>5. /\ Least(2 * supervisor.backoff, MaxBackoff) \in MinBackoff..MaxBackoff
      /\ Least(2 * supervisor.backoff, MaxBackoff) >= Least((past.short + 1 + 1) * MinBackoff, MaxBackoff)
  BY <1>3, <1>4, WaitIs
<1>6. backoff \in MinBackoff..MaxBackoff /\ backoff \in Nat
  <2>1. backoff \in MinBackoff..MaxBackoff
    BY <1>5
  <2> HIDE DEF backoff
  <2> QED BY <2>1
<1>7. backoff >= Least((short + 1) * MinBackoff, MaxBackoff)
  <2>1. CASE uptime >= HealthyRun
    <3>1. backoff = MinBackoff /\ (short + 1) * MinBackoff = MinBackoff
      BY <2>1 DEF Healthy
    <3> QED BY <3>1 DEF Least
  <2>2. CASE ~(uptime >= HealthyRun)
    <3>1. backoff = Least(2 * supervisor.backoff, MaxBackoff) /\ short = past.short + 1
      BY <2>2 DEF Healthy
    <3> QED BY <1>5, <3>1
  <2> QED BY <2>1, <2>2
<1>8. short \in Nat
  BY <1>3
<1> HIDE DEF backoff, short
<1>9. /\ supervisor'.pumping = FALSE /\ supervisor'.at = watchTime + backoff /\ supervisor'.backoff = backoff
      /\ supervisor' \in [pumping : BOOLEAN, at : Nat, backoff : MinBackoff..MaxBackoff]
  BY <1>1, <1>3, <1>6
<1>10. past' \in [real : Counts, wrong : Counts, unseen : Counts, away : Nat, gone : Counts,
                  kills : Nat, naps : Nat, short : Nat, ended : Nat, disturbed : Nat]
  BY <1>2, <1>3, <1>8
<1>11. /\ past'.real = past.real /\ past'.wrong = past.wrong /\ past'.unseen = past.unseen
       /\ past'.gone = past.gone /\ past'.kills = past.kills /\ past'.naps = past.naps
       /\ past'.away = past.away /\ past'.ended = watchTime /\ past'.disturbed = past.disturbed
       /\ past'.short = short
  BY <1>2, <1>3
<1> QED BY <1>6, <1>7, <1>9, <1>10, <1>11

\* The supervisor that has nobody to start a watcher for, or reaps one, waits for as long as it should.
LEMMA WaitsKeepWatch == WatchIInv /\ (CannotSpawn \/ Reaps) => WatchIInv'
<1> SUFFICES ASSUME WatchIInv, CannotSpawn \/ Reaps PROVE WatchIInv'
  OBVIOUS
<1> USE WatchFigures
<1>1. WatchTypes /\ LooksAgree /\ CreditAgrees /\ LossesAgree /\ SupervisorAgrees
  BY DEF WatchIInv
<1>2. UNCHANGED <<watchTime, front, lastInput, session, helper, reported>> /\ helper = {}
  BY <1>1 DEF CannotSpawn, Reaps, SupervisorAgrees
<1>3. /\ watchTime \in Nat /\ past.disturbed \in Nat /\ past.disturbed <= watchTime /\ session \in BOOLEAN
      /\ supervisor.at \in Nat
      /\ \A a \in Apps : past.gone[a] \in Nat
  BY <1>1, TypesAre DEF SupervisorAgrees
<1>4. ~session \/ past.disturbed = watchTime
  BY <1>1 DEF CannotSpawn, Reaps, SupervisorAgrees
<1>5. \E uptime \in Int : SleepsAfter(uptime) /\ Ended(uptime)
  <2>1. CASE CannotSpawn
    BY <2>1 DEF CannotSpawn
  <2>2. CASE Reaps
    <3>1. supervisor.pumping /\ SleepsAfter(watchTime - supervisor.at) /\ Ended(watchTime - supervisor.at)
      BY <2>2 DEF Reaps
    <3>2. watchTime - supervisor.at \in Int
      BY <1>3
    <3> QED BY <3>1, <3>2
  <2> QED BY <2>1, <2>2
<1>6. PICK uptime \in Int : SleepsAfter(uptime) /\ Ended(uptime)
  BY <1>5
<1>7. /\ supervisor' \in [pumping : BOOLEAN, at : Nat, backoff : MinBackoff..MaxBackoff]
      /\ ~supervisor'.pumping
      /\ supervisor'.at = watchTime + supervisor'.backoff
      /\ supervisor'.backoff \in Nat /\ supervisor'.backoff <= MaxBackoff
      /\ supervisor'.backoff >= Least((past'.short + 1) * MinBackoff, MaxBackoff)
      /\ past' \in [real : Counts, wrong : Counts, unseen : Counts, away : Nat, gone : Counts,
                    kills : Nat, naps : Nat, short : Nat, ended : Nat, disturbed : Nat]
      /\ past'.real = past.real /\ past'.wrong = past.wrong /\ past'.unseen = past.unseen
      /\ past'.gone = past.gone /\ past'.kills = past.kills /\ past'.naps = past.naps
      /\ past'.away = past.away /\ past'.ended = watchTime /\ past'.disturbed = past.disturbed
  BY <1>1, <1>6, WaitsRightly
<1>8. WatchTypes'
  BY <1>1, <1>2, <1>7 DEF WatchTypes
<1>9. LooksAgree' /\ CreditAgrees' /\ LossesAgree'
  <2>1. \A a \in Apps : past'.gone[a] = past.gone[a] + Unreported(a)
    <3>1. \A a : Unreported(a) = 0
      BY <1>2, NoHelper
    <3> QED BY <1>3, <1>7, <3>1
  <2> QED BY <1>1, <1>2, <1>7, <2>1, WithoutHelper
<1>10. SupervisorAgrees'
  <2>1. watchTime' <= supervisor'.at
    BY <1>2, <1>3, <1>7
  <2>2. supervisor'.at <= (IF session' THEN past'.disturbed ELSE watchTime') + MaxBackoff
    BY <1>2, <1>3, <1>4, <1>7
  <2>3. past'.disturbed <= watchTime'
    BY <1>2, <1>3, <1>7
  <2> QED BY <1>2, <1>7, <2>1, <2>2, <2>3 DEF SupervisorAgrees
<1> QED BY <1>8, <1>9, <1>10 DEF WatchIInv

\* A helper that is started has nothing to answer for.
LEMMA SpawnsKeepsWatch == WatchIInv /\ Spawns => WatchIInv'
<1> SUFFICES ASSUME WatchIInv, Spawns PROVE WatchIInv'
  OBVIOUS
<1> USE WatchFigures
<1>1. WatchTypes /\ LooksAgree /\ CreditAgrees /\ LossesAgree /\ SupervisorAgrees
  BY DEF WatchIInv
<1>2. /\ helper' = {Fresh} /\ ~supervisor.pumping
      /\ supervisor' = [supervisor EXCEPT !.pumping = TRUE, !.at = watchTime]
      /\ UNCHANGED <<watchTime, front, lastInput, session, reported, past>>
  BY DEF Spawns
<1>3. /\ watchTime \in Nat /\ lastInput \in Nat
      /\ supervisor \in [pumping : BOOLEAN, at : Nat, backoff : MinBackoff..MaxBackoff]
  BY <1>1 DEF WatchTypes
<1>4. PICK t : t = Fresh
  OBVIOUS
<1>5. /\ t \in Tracker /\ t.current = {} /\ ~t.looked
      /\ t.started = watchTime /\ t.lastEmit = watchTime /\ t.lastLook = watchTime
      /\ Shown(t) = {}
      /\ \A a : At(t.banked, a) = 0 /\ \A until \in Nat : Held(t, a, until) = 0
  BY <1>3, <1>4, FreshIs
<1>6. helper = {}
  BY <1>1, <1>2 DEF SupervisorAgrees
<1>7. helper' = {t}
  BY <1>2, <1>4
<1>8. /\ Least(watchTime', GraceEnds(t)') \in Nat
      /\ \A a : Unreported(a)' = Held(t, a, watchTime')
      /\ \A a : Sure(a)' = Held(t, a, Least(watchTime', GraceEnds(t)'))
      /\ Believed' = {}
      /\ Overdue' = IF watchTime' > t.lastLook + Poll THEN watchTime' - t.lastLook - Poll ELSE 0
  BY <1>2, <1>3, <1>5, <1>7, OneHelperThen
<1>9. Believed' = {} /\ Overdue' = 0 /\ \A a : Unreported(a)' = 0 /\ Sure(a)' = 0
  BY <1>2, <1>3, <1>5, <1>8
<1>10. Believed = {} /\ Overdue = 0 /\ \A a : Unreported(a) = 0 /\ Sure(a) = 0
  BY <1>6, NoHelper
<1>11. /\ supervisor'.pumping /\ supervisor'.backoff = supervisor.backoff
       /\ supervisor' \in [pumping : BOOLEAN, at : Nat, backoff : MinBackoff..MaxBackoff]
  BY <1>2, <1>3
<1>12. WatchTypes'
  <2>1. helper' \in Option(Tracker)
    BY <1>5, <1>7 DEF Option
  <2> QED BY <1>1, <1>2, <1>11, <2>1 DEF WatchTypes
<1>13. LooksAgree'
  <2>1. \A a \in Apps : At(t.banked, a) < Second + (t.lastLook - t.lastEmit)
    BY <1>3, <1>5
  <2>2. t.lastLook < t.lastEmit + Emit
    BY <1>3, <1>5
  <2> QED BY <1>2, <1>3, <1>5, <1>7, <2>1, <2>2 DEF LooksAgree
<1>14. CreditAgrees'
  <2>1. \A a \in Apps : /\ Second * reported[a] + 0 <= past.real[a] + past.wrong[a]
                        /\ Second * reported[a] + 0 <= past.real[a] + past.wrong[a] + 0
                        /\ past.real[a] <= Second * reported[a] + 0 + past.gone[a] + past.unseen[a]
    BY <1>1, <1>10 DEF CreditAgrees
  <2> QED BY <1>2, <1>9, <2>1 DEF CreditAgrees
<1>15. LossesAgree'
  BY <1>1, <1>2, <1>9, <1>10 DEF LossesAgree
<1>16. SupervisorAgrees'
  BY <1>1, <1>2, <1>7, <1>11 DEF SupervisorAgrees
<1> QED BY <1>12, <1>13, <1>14, <1>15, <1>16 DEF WatchIInv

\* A helper that is ended takes what it had with it, and the supervisor starts another soon.
LEMMA EndsKeepWatch == WatchIInv /\ (Kills \/ SignsOutOrIn) => WatchIInv'
<1> SUFFICES ASSUME WatchIInv, Kills \/ SignsOutOrIn PROVE WatchIInv'
  OBVIOUS
<1> USE WatchFigures
<1>1. WatchTypes /\ LooksAgree /\ CreditAgrees /\ LossesAgree /\ SupervisorAgrees
  BY DEF WatchIInv
<1>2. /\ helper' = {} /\ HelperEnds
      /\ UNCHANGED <<watchTime, supervisor, reported>>
      /\ session' = session \/ session' = ~session
      /\ front' = front \/ front' = {}
      /\ lastInput' = lastInput \/ lastInput' = watchTime
  BY DEF Kills, SignsOutOrIn
<1>3. ~supervisor.pumping => SignsOutOrIn
  BY <1>1 DEF Kills, SupervisorAgrees
<1>4. /\ watchTime \in Nat /\ lastInput \in Nat /\ lastInput <= watchTime /\ session \in BOOLEAN
      /\ front \in Option(Apps)
      /\ supervisor.at \in Nat /\ past.disturbed \in Nat /\ past.disturbed <= watchTime
      /\ past \in [real : Counts, wrong : Counts, unseen : Counts, away : Nat, gone : Counts,
                   kills : Nat, naps : Nat, short : Nat, ended : Nat, disturbed : Nat]
      /\ past.kills \in Nat
      /\ \A a \in Apps : past.gone[a] \in Nat
  BY <1>1, TypesAre DEF WatchTypes, SupervisorAgrees
<1> DEFINE gone == [a \in Apps |-> past.gone[a] + Unreported(a)]
           kills == IF helper = {} THEN past.kills ELSE past.kills + 1
<1>5. past' = [past EXCEPT !.gone = gone, !.kills = kills, !.away = 0, !.disturbed = watchTime]
  BY <1>2 DEF HelperEnds
<1>6. gone \in Counts /\ kills \in Nat /\ \A a \in Apps : gone[a] = past.gone[a] + Unreported(a)
  <2>1. \A a : Unreported(a) \in Nat
    BY <1>1, SumsAre
  <2> QED BY <1>4, <2>1 DEF Counts
<1> HIDE DEF gone
<1>7. /\ past'.real = past.real /\ past'.wrong = past.wrong /\ past'.unseen = past.unseen
      /\ past'.naps = past.naps /\ past'.gone = gone /\ past'.kills = kills
      /\ past'.short = past.short /\ past'.ended = past.ended /\ past'.disturbed = watchTime
  BY <1>4, <1>5
<1>8. past' \in [real : Counts, wrong : Counts, unseen : Counts, away : Nat, gone : Counts,
                 kills : Nat, naps : Nat, short : Nat, ended : Nat, disturbed : Nat]
  <2> HIDE DEF kills
  <2> QED BY <1>4, <1>5, <1>6
<1>9. WatchTypes'
  <2>1. front' \in Option(Apps) /\ helper' \in Option(Tracker)
    BY <1>2, <1>4 DEF Option
  <2>2. session' \in BOOLEAN
    BY <1>2, <1>4
  <2>3. lastInput' \in Nat /\ lastInput' <= watchTime
    BY <1>2, <1>4
  <2> QED BY <1>1, <1>2, <1>8, <2>1, <2>2, <2>3 DEF WatchTypes
<1>10. LooksAgree' /\ CreditAgrees' /\ LossesAgree'
  BY <1>1, <1>2, <1>6, <1>7, WithoutHelper
<1>11. SupervisorAgrees'
  <2>1. past'.disturbed <= watchTime' /\ past'.disturbed = watchTime'
    BY <1>2, <1>4, <1>7
  <2>2. supervisor'.backoff >= Least((past'.short + 1) * MinBackoff, MaxBackoff)
    BY <1>1, <1>2, <1>7 DEF SupervisorAgrees
  <2>3. ASSUME ~supervisor.pumping
        PROVE  /\ supervisor.at <= watchTime + MaxBackoff
               /\ past.short > 0 => supervisor.at = past.ended + supervisor.backoff
    BY <1>1, <1>4, <2>3 DEF SupervisorAgrees
  <2>4. supervisor' = supervisor /\ watchTime' = watchTime /\ helper' = {}
    BY <1>2
  <2>5. ~supervisor'.pumping => supervisor'.at <= (IF session' THEN past'.disturbed ELSE watchTime') + MaxBackoff
    BY <2>1, <2>3, <2>4
  <2> QED BY <1>7, <2>1, <2>2, <2>3, <2>4, <2>5 DEF SupervisorAgrees
<1> QED BY <1>9, <1>10, <1>11 DEF WatchIInv

\* Somebody who touches his machine was there all along, for all the helper can tell.
LEMMA TouchesKeepsWatch == WatchIInv /\ Touches => WatchIInv'
<1> SUFFICES ASSUME WatchIInv, Touches PROVE WatchIInv'
  OBVIOUS
<1> USE WatchFigures
<1>1. WatchTypes /\ LooksAgree /\ CreditAgrees /\ LossesAgree /\ SupervisorAgrees
  BY DEF WatchIInv
<1>2. /\ front' \in Option(Apps) /\ lastInput' = watchTime
      /\ UNCHANGED <<watchTime, session, helper, supervisor, reported>>
  BY DEF Touches
<1>3. /\ watchTime \in Nat /\ lastInput \in Nat
      /\ past \in [real : Counts, wrong : Counts, unseen : Counts, away : Nat, gone : Counts,
                   kills : Nat, naps : Nat, short : Nat, ended : Nat, disturbed : Nat]
      /\ past.away \in Nat
      /\ \A a \in Apps : past.wrong[a] \in Nat
  BY <1>1, TypesAre DEF WatchTypes
<1> DEFINE wrong == [a \in Apps |-> past.wrong[a] + IF a \in Believed THEN past.away ELSE 0]
<1>4. past' = [past EXCEPT !.away = 0, !.wrong = wrong]
  BY DEF Touches
<1>5. wrong \in Counts /\ \A a \in Apps : wrong[a] = past.wrong[a] + IF a \in Believed THEN past.away ELSE 0
  BY <1>3 DEF Counts
<1> HIDE DEF wrong
<1>6. /\ past'.real = past.real /\ past'.wrong = wrong /\ past'.unseen = past.unseen
      /\ past'.gone = past.gone /\ past'.kills = past.kills /\ past'.naps = past.naps
      /\ past'.short = past.short /\ past'.ended = past.ended /\ past'.disturbed = past.disturbed
      /\ past'.away = 0
      /\ past' \in [real : Counts, wrong : Counts, unseen : Counts, away : Nat, gone : Counts,
                    kills : Nat, naps : Nat, short : Nat, ended : Nat, disturbed : Nat]
  BY <1>3, <1>4, <1>5
<1>7. WatchTypes'
  BY <1>1, <1>2, <1>3, <1>6 DEF WatchTypes
<1>8. LooksAgree'
  BY <1>1, <1>2, <1>6 DEF LooksAgree
<1>9. (\A a : Unreported(a)' = Unreported(a) /\ Sure(a)' = Unreported(a)) /\ Overdue' = Overdue
  <2>1. CASE helper = {}
    BY <1>2, <2>1, NoHelper, NoHelperThen
  <2>2. CASE helper # {}
    <3>1. PICK t \in Tracker : helper = {t} /\ \A c \in t.current : c.since = t.lastLook
      BY <1>1, <2>2, HelperIs
    <3>2. /\ \A a : Unreported(a) = Held(t, a, watchTime)
          /\ Overdue = IF watchTime > t.lastLook + Poll THEN watchTime - t.lastLook - Poll ELSE 0
      BY <1>3, <3>1, OneHelper
    <3>3. /\ GraceEnds(t)' = Later(lastInput', t.started) + IdleAfter
          /\ \A a : Unreported(a)' = Held(t, a, watchTime')
          /\ \A a : Sure(a)' = Held(t, a, Least(watchTime', GraceEnds(t)'))
          /\ Overdue' = IF watchTime' > t.lastLook + Poll THEN watchTime' - t.lastLook - Poll ELSE 0
      BY <1>2, <1>3, <3>1, OneHelperThen
    <3>4. Least(watchTime', GraceEnds(t)') = watchTime
      <4>1. t.started \in Nat
        BY <3>1 DEF Tracker
      <4> QED BY <1>2, <1>3, <3>3, <4>1 DEF Later, Least
    <3> QED BY <1>2, <3>2, <3>3, <3>4
  <2> QED BY <2>1, <2>2
<1>10. CreditAgrees'
  <2> SUFFICES ASSUME NEW a \in Apps
               PROVE  /\ Second * reported'[a] + Sure(a)' <= past'.real[a] + past'.wrong[a]
                      /\ Second * reported'[a] + Unreported(a)' <=
                             past'.real[a] + past'.wrong[a] + IF a \in Believed' THEN past'.away ELSE 0
                      /\ past'.real[a] <= Second * reported'[a] + Sure(a)' + past'.gone[a] + past'.unseen[a]
    BY DEF CreditAgrees
  <2> DEFINE booked == Second * reported[a]
             caught == IF a \in Believed THEN past.away ELSE 0
  <2>1. /\ booked + Unreported(a) <= past.real[a] + past.wrong[a] + caught
        /\ past.real[a] <= booked + Sure(a) + past.gone[a] + past.unseen[a]
    BY <1>1 DEF CreditAgrees
  <2>2. /\ booked \in Nat /\ caught \in Nat
        /\ past.real[a] \in Nat /\ past.wrong[a] \in Nat /\ past.unseen[a] \in Nat /\ past.gone[a] \in Nat
    BY <1>1, TypesAre
  <2>3. Sure(a) \in Nat /\ Unreported(a) \in Nat /\ Sure(a) <= Unreported(a)
    BY <1>1, SumsAre
  <2>4. Second * reported'[a] = booked
    BY <1>2
  <2>5. past'.wrong[a] = past.wrong[a] + caught
    BY <1>5, <1>6
  <2>6. (IF a \in Believed' THEN past'.away ELSE 0) = 0
    BY <1>6
  <2> HIDE DEF booked, caught
  <2> QED BY <1>6, <1>9, <2>1, <2>2, <2>3, <2>4, <2>5, <2>6
<1>11. LossesAgree'
  BY <1>1, <1>6, <1>9 DEF LossesAgree
<1>12. SupervisorAgrees'
  BY <1>1, <1>2, <1>6 DEF SupervisorAgrees
<1> QED BY <1>7, <1>8, <1>10, <1>11, <1>12 DEF WatchIInv

\* A unit that passes is held by the helper of what it believes in front, and sure within the grace.
LEMMA UnitIsHeld ==
    ASSUME WatchTypes, LooksAgree, UnitPasses
    PROVE  /\ \A a : /\ Unreported(a)' = Unreported(a) + One(a, Believed)
                     /\ Sure(a)' = Sure(a) + One(a, Credited)
           /\ Believed' = Believed
           /\ Credited \subseteq Believed
           /\ \A t \in helper : watchTime >= GraceEnds(t) => Credited = {}
           /\ \A t \in helper : ~(watchTime >= GraceEnds(t)) => Credited = Believed
           /\ InFront \intersect Believed \subseteq Credited
           /\ Overdue' = 0
<1> USE WatchFigures
<1>1. /\ watchTime \in Nat /\ lastInput \in Nat /\ watchTime' = watchTime + 1 /\ lastInput' = lastInput
      /\ helper' = {[t EXCEPT !.looked = FALSE] : t \in helper}
      /\ \A t \in helper : watchTime < t.lastLook + Poll
  BY TypesAre DEF UnitPasses
<1>2. CASE helper = {}
  <2>1. helper' = {}
    BY <1>1, <1>2
  <2> QED BY <1>2, <2>1, NoHelper, NoHelperThen DEF One
<1>3. CASE helper # {}
  <2>1. PICK t \in Tracker : helper = {t} /\ \A c \in t.current : c.since = t.lastLook
    BY <1>3, HelperIs
  <2>2. PICK u : u = [t EXCEPT !.looked = FALSE]
    OBVIOUS
  <2>3. /\ u \in Tracker /\ u.current = t.current /\ u.idle = t.idle /\ u.banked = t.banked
        /\ u.started = t.started /\ u.lastLook = t.lastLook
    BY <2>1, <2>2 DEF Tracker
  <2>4. helper' = {u}
    BY <1>1, <2>1, <2>2
  <2>5. Shown(u) = Shown(t) /\ \A a : \A until : Held(u, a, until) = Held(t, a, until)
    BY <2>3 DEF Held, Shown
  <2>6. /\ GraceEnds(t) \in Nat /\ Least(watchTime, GraceEnds(t)) \in Nat
        /\ \A a : Unreported(a) = Held(t, a, watchTime)
        /\ \A a : Sure(a) = Held(t, a, Least(watchTime, GraceEnds(t)))
        /\ Believed = Shown(t)
        /\ Credited = IF watchTime < GraceEnds(t) THEN Shown(t) ELSE {}
    BY <1>1, <2>1, OneHelper
  <2>7. /\ GraceEnds(u)' = Later(lastInput', u.started) + IdleAfter
        /\ \A a : Unreported(a)' = Held(u, a, watchTime')
        /\ \A a : Sure(a)' = Held(u, a, Least(watchTime', GraceEnds(u)'))
        /\ Believed' = Shown(u)
        /\ Overdue' = IF watchTime' > u.lastLook + Poll THEN watchTime' - u.lastLook - Poll ELSE 0
    BY <1>1, <2>1, <2>3, <2>4, OneHelperThen
  <2>8. GraceEnds(u)' = GraceEnds(t)
    BY <1>1, <2>3, <2>7 DEF GraceEnds
  <2>9. t.lastLook \in Nat /\ t.lastLook <= watchTime /\ t.started \in Nat
    BY <2>1 DEF LooksAgree, Tracker
  <2>10. \A a : At(t.banked, a) \in Nat
    BY <2>1, HeldIs
  <2>11. \A a : Held(t, a, watchTime + 1) = Held(t, a, watchTime) + One(a, Shown(t))
    BY <1>1, <2>9, <2>10 DEF Held, One
  <2>12. ASSUME NEW a PROVE Sure(a)' = Sure(a) + One(a, Credited)
    <3>1. Held(t, a, Least(watchTime, GraceEnds(t))) \in Nat
      BY <2>1, <2>6, HeldIs
    <3>2. CASE watchTime < GraceEnds(t)
      <4>1. Least(watchTime', GraceEnds(t)) = watchTime + 1 /\ Least(watchTime, GraceEnds(t)) = watchTime
        BY <1>1, <2>6, <3>2 DEF Least
      <4>2. Credited = Shown(t)
        BY <2>6, <3>2
      <4> QED BY <2>5, <2>6, <2>7, <2>8, <2>11, <4>1, <4>2
    <3>3. CASE ~(watchTime < GraceEnds(t))
      <4>1. Least(watchTime', GraceEnds(t)) = Least(watchTime, GraceEnds(t))
        BY <1>1, <2>6, <3>3 DEF Least
      <4>2. One(a, Credited) = 0
        BY <2>6, <3>3 DEF One
      <4>3. Sure(a)' = Held(t, a, Least(watchTime, GraceEnds(t)))
        BY <2>5, <2>7, <2>8, <4>1
      <4>4. Sure(a) = Held(t, a, Least(watchTime, GraceEnds(t)))
        BY <2>6
      <4> QED BY <3>1, <4>2, <4>3, <4>4
    <3> QED BY <3>2, <3>3
  <2>13. \A a : Unreported(a)' = Unreported(a) + One(a, Believed)
    BY <1>1, <2>5, <2>6, <2>7, <2>11
  <2>14. Overdue' = 0
    BY <1>1, <2>1, <2>3, <2>7, <2>9
  <2>15. InFront \intersect Believed \subseteq Credited
    <3>1. CASE Present
      <4>1. watchTime < GraceEnds(t)
        BY <1>1, <2>9, <3>1 DEF Present, GraceEnds, Later
      <4> QED BY <2>6, <4>1
    <3>2. CASE ~Present
      BY <3>2 DEF InFront
    <3> QED BY <3>1, <3>2
  <2>16. watchTime >= GraceEnds(t) => Credited = {}
    BY <1>1, <2>6
  <2>17. ~(watchTime >= GraceEnds(t)) => Credited = Believed
    BY <1>1, <2>6
  <2>18. Credited \subseteq Believed /\ Believed' = Believed
    BY <2>5, <2>6, <2>7
  <2> QED BY <2>1, <2>12, <2>13, <2>14, <2>15, <2>16, <2>17, <2>18
<1> QED BY <1>2, <1>3

\* A unit of time is in the right account, whatever the helper believes.
LEMMA UnitKeepsWatch == WatchIInv /\ UnitPasses => WatchIInv'
<1> SUFFICES ASSUME WatchIInv, UnitPasses PROVE WatchIInv'
  OBVIOUS
<1> USE WatchFigures
<1>1. WatchTypes /\ LooksAgree /\ CreditAgrees /\ LossesAgree /\ SupervisorAgrees
  BY DEF WatchIInv
<1>2. /\ watchTime' = watchTime + 1 /\ helper' = {[t EXCEPT !.looked = FALSE] : t \in helper}
      /\ UNCHANGED <<front, lastInput, session, supervisor, reported>>
      /\ supervisor.pumping => helper # {}
      /\ ~supervisor.pumping => watchTime < supervisor.at
  BY DEF UnitPasses
<1>3. /\ watchTime \in Nat /\ lastInput \in Nat /\ lastInput <= watchTime
      /\ past \in [real : Counts, wrong : Counts, unseen : Counts, away : Nat, gone : Counts,
                   kills : Nat, naps : Nat, short : Nat, ended : Nat, disturbed : Nat]
      /\ past.away \in Nat /\ past.disturbed \in Nat /\ supervisor.at \in Nat
      /\ \A a \in Apps : past.real[a] \in Nat /\ past.wrong[a] \in Nat /\ past.unseen[a] \in Nat
  BY <1>1, TypesAre DEF WatchTypes
<1> DEFINE real == [a \in Apps |-> past.real[a] + One(a, InFront)]
           wrong == [a \in Apps |-> past.wrong[a] + One(a, (Believed \ front) \union (Credited \ InFront))]
           unseen == [a \in Apps |-> past.unseen[a] + One(a, InFront \ Believed)]
           late == IF \E t \in helper : watchTime >= GraceEnds(t) THEN 1 ELSE 0
<1>4. past' = [past EXCEPT !.real = real, !.wrong = wrong, !.unseen = unseen, !.away = @ + late]
  BY DEF UnitPasses
<1>5. late \in Nat
  OBVIOUS
<1>6. /\ real \in Counts /\ wrong \in Counts /\ unseen \in Counts
      /\ \A a \in Apps : /\ real[a] = past.real[a] + One(a, InFront)
                         /\ wrong[a] = past.wrong[a] + One(a, (Believed \ front) \union (Credited \ InFront))
                         /\ unseen[a] = past.unseen[a] + One(a, InFront \ Believed)
  <2>1. \A a, set : One(a, set) \in Nat
    BY DEF One
  <2> QED BY <1>3, <2>1 DEF Counts
<1> HIDE DEF real, wrong, unseen
<1>7. /\ past'.real = real /\ past'.wrong = wrong /\ past'.unseen = unseen /\ past'.away = past.away + late
      /\ past'.gone = past.gone /\ past'.kills = past.kills /\ past'.naps = past.naps
      /\ past'.short = past.short /\ past'.ended = past.ended /\ past'.disturbed = past.disturbed
  BY <1>3, <1>4
<1>8. past' \in [real : Counts, wrong : Counts, unseen : Counts, away : Nat, gone : Counts,
                 kills : Nat, naps : Nat, short : Nat, ended : Nat, disturbed : Nat]
  <2> DEFINE away == past.away + late
  <2>1. past' = [past EXCEPT !.real = real, !.wrong = wrong, !.unseen = unseen, !.away = away]
    BY <1>4
  <2>2. away \in Nat
    BY <1>3, <1>5
  <2> HIDE DEF late, away
  <2> QED BY <1>3, <1>6, <2>1, <2>2
<1>9. \A u \in helper' : \E t \in helper \intersect Tracker :
          /\ u.current = t.current /\ u.banked = t.banked /\ u.started = t.started
          /\ u.lastEmit = t.lastEmit /\ u.lastLook = t.lastLook /\ ~u.looked
  <2>1. \A t \in helper : t \in Tracker
    BY <1>1 DEF WatchTypes, Option
  <2>2. ASSUME NEW t \in Tracker
        PROVE  LET u == [t EXCEPT !.looked = FALSE]
               IN  /\ u.current = t.current /\ u.banked = t.banked /\ u.started = t.started
                   /\ u.lastEmit = t.lastEmit /\ u.lastLook = t.lastLook /\ ~u.looked
    BY DEF Tracker
  <2> TAKE u \in helper'
  <2>3. PICK t \in helper : u = [t EXCEPT !.looked = FALSE]
    BY <1>2
  <2>4. t \in Tracker
    BY <2>1
  <2>5. /\ u.current = t.current /\ u.banked = t.banked /\ u.started = t.started
        /\ u.lastEmit = t.lastEmit /\ u.lastLook = t.lastLook /\ ~u.looked
    BY <2>2, <2>3, <2>4
  <2>6. t \in helper \intersect Tracker
    BY <2>4
  <2> QED BY <2>5, <2>6
<1>10. helper' \in Option(Tracker)
  <2>1. CASE helper = {}
    BY <1>2, <2>1 DEF Option
  <2>2. CASE helper # {}
    <3>1. PICK t \in Tracker : helper = {t}
      BY <1>1, <2>2, HelperIs
    <3>2. helper' = {[t EXCEPT !.looked = FALSE]} /\ [t EXCEPT !.looked = FALSE] \in Tracker
      BY <1>2, <3>1 DEF Tracker
    <3> QED BY <3>2 DEF Option
  <2> QED BY <2>1, <2>2
<1>11. WatchTypes'
  BY <1>1, <1>2, <1>3, <1>8, <1>10 DEF WatchTypes
<1>12. LooksAgree'
  <2> SUFFICES ASSUME NEW u \in helper'
               PROVE  /\ \A c \in u.current : c.since = u.lastLook
                      /\ u.started <= u.lastEmit /\ u.lastEmit <= u.lastLook /\ u.lastLook <= watchTime'
                      /\ u.lastLook < u.lastEmit + Emit
                      /\ \A a \in Apps : At(u.banked, a) < Second + (u.lastLook - u.lastEmit)
                      /\ ~u.looked
    BY DEF LooksAgree
  <2>1. PICK t \in helper \intersect Tracker :
            /\ u.current = t.current /\ u.banked = t.banked /\ u.started = t.started
            /\ u.lastEmit = t.lastEmit /\ u.lastLook = t.lastLook /\ ~u.looked
    BY <1>9
  <2>2. t.lastLook \in Nat
    BY <2>1 DEF Tracker
  <2> QED BY <1>1, <1>2, <1>3, <2>1, <2>2 DEF LooksAgree
<1>13. /\ \A a : /\ Unreported(a)' = Unreported(a) + One(a, Believed)
                 /\ Sure(a)' = Sure(a) + One(a, Credited)
       /\ Believed' = Believed
       /\ Credited \subseteq Believed
       /\ \A t \in helper : watchTime >= GraceEnds(t) => Credited = {}
       /\ \A t \in helper : ~(watchTime >= GraceEnds(t)) => Credited = Believed
       /\ InFront \intersect Believed \subseteq Credited
       /\ Overdue' = 0
  BY <1>1, UnitIsHeld
<1>14. CreditAgrees'
  <2> SUFFICES ASSUME NEW a \in Apps
               PROVE  /\ Second * reported'[a] + Sure(a)' <= past'.real[a] + past'.wrong[a]
                      /\ Second * reported'[a] + Unreported(a)' <=
                             past'.real[a] + past'.wrong[a] + IF a \in Believed' THEN past'.away ELSE 0
                      /\ past'.real[a] <= Second * reported'[a] + Sure(a)' + past'.gone[a] + past'.unseen[a]
    BY DEF CreditAgrees
  <2> DEFINE booked == Second * reported[a]
             caught == IF a \in Believed THEN past.away ELSE 0
             more == One(a, InFront)
             astray == One(a, (Believed \ front) \union (Credited \ InFront))
             missed == One(a, InFront \ Believed)
             extra == One(a, Believed)
             sure == One(a, Credited)
             waits == IF a \in Believed THEN late ELSE 0
  <2>1. /\ booked + Sure(a) <= past.real[a] + past.wrong[a]
        /\ booked + Unreported(a) <= past.real[a] + past.wrong[a] + caught
        /\ past.real[a] <= booked + Sure(a) + past.gone[a] + past.unseen[a]
    BY <1>1 DEF CreditAgrees
  <2>2. /\ booked \in Nat /\ caught \in Nat
        /\ past.real[a] \in Nat /\ past.wrong[a] \in Nat /\ past.unseen[a] \in Nat /\ past.gone[a] \in Nat
    BY <1>1, TypesAre
  <2>3. Sure(a) \in Nat /\ Unreported(a) \in Nat
    BY <1>1, SumsAre
  <2>4. Second * reported'[a] = booked
    BY <1>2
  <2>5. sure <= more + astray
    BY DEF One
  <2>6. more <= sure + missed
    BY <1>13 DEF One
  <2>7. extra <= more + astray + waits
    <3>1. CASE \E t \in helper : watchTime >= GraceEnds(t)
      BY <3>1 DEF One
    <3>2. CASE helper # {} /\ ~\E t \in helper : watchTime >= GraceEnds(t)
      <4>1. Credited = Believed
        BY <1>13, <3>2
      <4> QED BY <4>1 DEF One
    <3>3. CASE helper = {}
      <4>1. Believed = {}
        BY <3>3, NoHelper
      <4> QED BY <4>1 DEF One
    <3> QED BY <3>1, <3>2, <3>3
  <2>8. (IF a \in Believed' THEN past'.away ELSE 0) = caught + waits
    BY <1>3, <1>7, <1>13
  <2>9. /\ past'.real[a] = past.real[a] + more /\ past'.wrong[a] = past.wrong[a] + astray
        /\ past'.unseen[a] = past.unseen[a] + missed /\ past'.gone[a] = past.gone[a]
    BY <1>6, <1>7
  <2>10. Unreported(a)' = Unreported(a) + extra /\ Sure(a)' = Sure(a) + sure
    BY <1>13
  <2>11. /\ more \in Nat /\ astray \in Nat /\ missed \in Nat /\ extra \in Nat /\ sure \in Nat /\ waits \in Nat
    BY DEF One
  <2> HIDE DEF booked, caught, more, astray, missed, extra, sure, waits
  <2> QED BY <2>1, <2>2, <2>3, <2>4, <2>5, <2>6, <2>7, <2>8, <2>9, <2>10, <2>11
<1>15. LossesAgree'
  <2> SUFFICES ASSUME NEW a \in Apps
               PROVE  past'.gone[a] + Overdue' <= past'.kills * (Emit + Poll + Second - 2) + past'.naps * Nap
    BY DEF LossesAgree
  <2> DEFINE allowance == past.kills * (Emit + Poll + Second - 2) + past.naps * Nap
  <2>1. past.gone[a] + Overdue <= allowance
    BY <1>1 DEF LossesAgree
  <2>2. past.gone[a] \in Nat /\ Overdue \in Nat /\ past.kills \in Nat /\ past.naps \in Nat
    BY <1>1, TypesAre, SumsAre
  <2>3. allowance \in Int
    BY <2>2
  <2>4. past'.kills * (Emit + Poll + Second - 2) + past'.naps * Nap = allowance /\ past'.gone[a] = past.gone[a]
    BY <1>7
  <2> HIDE DEF allowance
  <2> QED BY <1>13, <2>1, <2>2, <2>3, <2>4
<1>16. SupervisorAgrees'
  <2>1. supervisor.pumping => helper' # {}
    BY <1>2
  <2>2. helper = {} => helper' = {}
    BY <1>2
  <2>3. ~supervisor.pumping => /\ watchTime + 1 <= supervisor.at
                               /\ supervisor.at <= (IF session THEN past.disturbed ELSE watchTime + 1) + MaxBackoff
    BY <1>1, <1>2, <1>3 DEF SupervisorAgrees
  <2>4. past.disturbed <= watchTime + 1
    BY <1>1, <1>3 DEF SupervisorAgrees
  <2> QED BY <1>1, <1>2, <1>7, <2>1, <2>2, <2>3, <2>4 DEF SupervisorAgrees
<1> QED BY <1>11, <1>12, <1>14, <1>15, <1>16 DEF WatchIInv

\* A sleep is credited to what was in front, and to nothing else.
LEMMA SleepsKeepsWatch == WatchIInv /\ Sleeps => WatchIInv'
<1> SUFFICES ASSUME WatchIInv, Sleeps PROVE WatchIInv'
  OBVIOUS
<1> USE WatchFigures
<1>1. WatchTypes /\ LooksAgree /\ CreditAgrees /\ LossesAgree /\ SupervisorAgrees
  BY DEF WatchIInv
<1>2. /\ watchTime' = watchTime + Nap /\ Nap > 0 /\ \A t \in helper : ~t.looked
      /\ UNCHANGED <<front, lastInput, session, helper, supervisor, reported>>
  BY DEF Sleeps
<1>3. /\ watchTime \in Nat /\ lastInput \in Nat /\ lastInput <= watchTime
      /\ past \in [real : Counts, wrong : Counts, unseen : Counts, away : Nat, gone : Counts,
                   kills : Nat, naps : Nat, short : Nat, ended : Nat, disturbed : Nat]
      /\ past.naps \in Nat /\ past.disturbed \in Nat /\ supervisor.at \in Nat
      /\ \A a \in Apps : past.wrong[a] \in Nat
  BY <1>1, TypesAre DEF WatchTypes
<1> DEFINE wrong == [a \in Apps |-> past.wrong[a] + IF a \in Believed THEN Nap ELSE 0]
<1>4. past' = [past EXCEPT !.wrong = wrong, !.naps = @ + 1, !.disturbed = watchTime']
  BY DEF Sleeps
<1>5. wrong \in Counts /\ \A a \in Apps : wrong[a] = past.wrong[a] + IF a \in Believed THEN Nap ELSE 0
  BY <1>3 DEF Counts
<1> HIDE DEF wrong
<1>6. watchTime' \in Nat /\ watchTime <= watchTime'
  BY <1>2, <1>3
<1>7. /\ past'.real = past.real /\ past'.wrong = wrong /\ past'.unseen = past.unseen /\ past'.away = past.away
      /\ past'.gone = past.gone /\ past'.kills = past.kills /\ past'.naps = past.naps + 1
      /\ past'.short = past.short /\ past'.ended = past.ended /\ past'.disturbed = watchTime'
  BY <1>3, <1>4
<1>8. past' \in [real : Counts, wrong : Counts, unseen : Counts, away : Nat, gone : Counts,
                  kills : Nat, naps : Nat, short : Nat, ended : Nat, disturbed : Nat]
  <2> DEFINE naps == past.naps + 1
  <2>1. past' = [past EXCEPT !.wrong = wrong, !.naps = naps, !.disturbed = watchTime']
    BY <1>4
  <2>2. naps \in Nat
    BY <1>3
  <2> HIDE DEF naps
  <2> QED BY <1>3, <1>5, <1>6, <2>1, <2>2
<1>9. WatchTypes'
  <2>1. lastInput' <= watchTime'
    BY <1>2, <1>3
  <2> QED BY <1>1, <1>2, <1>6, <1>8, <2>1 DEF WatchTypes
<1>10. LooksAgree'
  <2>1. \A t \in helper : t.lastLook <= watchTime'
    <3>1. \A t \in helper : t.lastLook \in Nat
      BY <1>1 DEF WatchTypes, Option, Tracker
    <3> QED BY <1>1, <1>2, <1>3, <3>1 DEF LooksAgree
  <2> QED BY <1>1, <1>2, <2>1 DEF LooksAgree
<1>11. /\ \A a : /\ Unreported(a)' = Unreported(a) + IF a \in Believed THEN Nap ELSE 0
                 /\ Sure(a) <= Sure(a)'
                 /\ Sure(a)' <= Sure(a) + IF a \in Believed THEN Nap ELSE 0
                 /\ Sure(a)' \in Nat
       /\ Believed' = Believed
       /\ Overdue' <= Overdue + Nap /\ Overdue' \in Nat
  <2>1. CASE helper = {}
    BY <1>2, <2>1, NoHelper, NoHelperThen
  <2>2. CASE helper # {}
    <3>1. PICK t \in Tracker : helper = {t} /\ \A c \in t.current : c.since = t.lastLook
      BY <1>1, <2>2, HelperIs
    <3>2. /\ GraceEnds(t) \in Nat
          /\ \A a : Unreported(a) = Held(t, a, watchTime)
          /\ \A a : Sure(a) = Held(t, a, Least(watchTime, GraceEnds(t)))
          /\ Believed = Shown(t)
          /\ Overdue = IF watchTime > t.lastLook + Poll THEN watchTime - t.lastLook - Poll ELSE 0
      BY <1>3, <3>1, OneHelper
    <3>3. /\ GraceEnds(t)' = Later(lastInput', t.started) + IdleAfter
          /\ \A a : Unreported(a)' = Held(t, a, watchTime')
          /\ \A a : Sure(a)' = Held(t, a, Least(watchTime', GraceEnds(t)'))
          /\ Believed' = Shown(t)
          /\ Overdue' = IF watchTime' > t.lastLook + Poll THEN watchTime' - t.lastLook - Poll ELSE 0
      BY <1>2, <1>3, <1>6, <3>1, OneHelperThen
    <3>4. GraceEnds(t)' = GraceEnds(t)
      BY <1>2, <3>3 DEF GraceEnds
    <3>5. t.lastLook \in Nat /\ t.lastLook <= watchTime
      BY <1>1, <3>1 DEF LooksAgree, Tracker
    <3>6. \A a : At(t.banked, a) \in Nat
      BY <3>1, HeldIs
    <3> DEFINE until == Least(watchTime, GraceEnds(t))
               then == Least(watchTime + Nap, GraceEnds(t))
    <3>7. until \in Nat /\ then \in Nat /\ until <= then /\ then <= until + Nap
      BY <1>3, <3>2 DEF Least
    <3>8. then = Least(watchTime', GraceEnds(t)')
      BY <1>2, <3>4
    <3> HIDE DEF until, then
    <3>9. \A a : /\ Held(t, a, until) <= Held(t, a, then)
                 /\ Held(t, a, then) <= Held(t, a, until) + IF a \in Shown(t) THEN Nap ELSE 0
                 /\ Held(t, a, then) \in Nat
      <4> TAKE a
      <4>1. CASE a \in Shown(t)
        BY <3>5, <3>6, <3>7, <4>1 DEF Held
      <4>2. CASE a \notin Shown(t)
        BY <3>6, <4>2 DEF Held
      <4> QED BY <4>1, <4>2
    <3>10. \A a : Held(t, a, watchTime + Nap) = Held(t, a, watchTime) + IF a \in Shown(t) THEN Nap ELSE 0
      <4> TAKE a
      <4>1. CASE a \in Shown(t)
        BY <1>3, <3>5, <3>6, <4>1 DEF Held
      <4>2. CASE a \notin Shown(t)
        BY <3>6, <4>2 DEF Held
      <4> QED BY <4>1, <4>2
    <3>11. \A a : /\ Sure(a) <= Sure(a)'
                  /\ Sure(a)' <= Sure(a) + IF a \in Believed THEN Nap ELSE 0
                  /\ Sure(a)' \in Nat
      BY <3>2, <3>3, <3>8, <3>9 DEF until
    <3>12. \A a : Unreported(a)' = Unreported(a) + IF a \in Believed THEN Nap ELSE 0
      BY <1>2, <3>2, <3>3, <3>10
    <3>13. Overdue' <= Overdue + Nap /\ Overdue' \in Nat
      BY <1>2, <1>3, <3>2, <3>3, <3>5
    <3> QED BY <3>2, <3>3, <3>11, <3>12, <3>13
  <2> QED BY <2>1, <2>2
<1>12. CreditAgrees'
  <2> SUFFICES ASSUME NEW a \in Apps
               PROVE  /\ Second * reported'[a] + Sure(a)' <= past'.real[a] + past'.wrong[a]
                      /\ Second * reported'[a] + Unreported(a)' <=
                             past'.real[a] + past'.wrong[a] + IF a \in Believed' THEN past'.away ELSE 0
                      /\ past'.real[a] <= Second * reported'[a] + Sure(a)' + past'.gone[a] + past'.unseen[a]
    BY DEF CreditAgrees
  <2> DEFINE booked == Second * reported[a]
             caught == IF a \in Believed THEN past.away ELSE 0
             slept == IF a \in Believed THEN Nap ELSE 0
  <2>1. /\ booked + Sure(a) <= past.real[a] + past.wrong[a]
        /\ booked + Unreported(a) <= past.real[a] + past.wrong[a] + caught
        /\ past.real[a] <= booked + Sure(a) + past.gone[a] + past.unseen[a]
    BY <1>1 DEF CreditAgrees
  <2>2. /\ booked \in Nat /\ caught \in Nat /\ slept \in Nat
        /\ past.real[a] \in Nat /\ past.wrong[a] \in Nat /\ past.unseen[a] \in Nat /\ past.gone[a] \in Nat
    BY <1>1, TypesAre
  <2>3. Sure(a) \in Nat /\ Unreported(a) \in Nat
    BY <1>1, SumsAre
  <2>4. Second * reported'[a] = booked
    BY <1>2
  <2>5. (IF a \in Believed' THEN past'.away ELSE 0) = caught
    BY <1>7, <1>11
  <2>6. /\ past'.real[a] = past.real[a] /\ past'.wrong[a] = past.wrong[a] + slept
        /\ past'.unseen[a] = past.unseen[a] /\ past'.gone[a] = past.gone[a]
    BY <1>5, <1>7
  <2>7. /\ Unreported(a)' = Unreported(a) + slept
        /\ Sure(a) <= Sure(a)' /\ Sure(a)' <= Sure(a) + slept /\ Sure(a)' \in Nat
    BY <1>11
  <2> HIDE DEF booked, caught, slept
  <2> QED BY <2>1, <2>2, <2>3, <2>4, <2>5, <2>6, <2>7
<1>13. LossesAgree'
  <2> SUFFICES ASSUME NEW a \in Apps
               PROVE  past'.gone[a] + Overdue' <= past'.kills * (Emit + Poll + Second - 2) + past'.naps * Nap
    BY DEF LossesAgree
  <2> DEFINE lost == past.kills * (Emit + Poll + Second - 2)
             slept == past.naps * Nap
  <2>1. past.gone[a] + Overdue <= lost + slept
    BY <1>1 DEF LossesAgree
  <2>2. past.gone[a] \in Nat /\ Overdue \in Nat /\ past.kills \in Nat
    BY <1>1, TypesAre, SumsAre
  <2>3. lost \in Int /\ slept \in Int
    BY <1>3, <2>2
  <2>4. past'.kills * (Emit + Poll + Second - 2) = lost /\ past'.gone[a] = past.gone[a]
    BY <1>7
  <2>5. past'.naps * Nap = slept + Nap
    <3>1. \A n, m \in Nat : (n + 1) * m = n * m + m
      OBVIOUS
    <3> QED BY <1>3, <1>7, <3>1
  <2> HIDE DEF lost, slept
  <2> QED BY <1>11, <2>1, <2>2, <2>3, <2>4, <2>5
<1>14. SupervisorAgrees'
  <2>1. ~supervisor.pumping => supervisor.at <= (IF session THEN watchTime' ELSE watchTime') + MaxBackoff
    BY <1>1, <1>3, <1>6 DEF SupervisorAgrees
  <2>2. past'.disturbed = watchTime' /\ past'.disturbed <= watchTime'
    BY <1>6, <1>7
  <2> QED BY <1>1, <1>2, <1>7, <2>1, <2>2 DEF SupervisorAgrees
<1> QED BY <1>9, <1>10, <1>12, <1>13, <1>14 DEF WatchIInv

\* No step of the child, his machine, the helper or the supervisor breaks the invariant.
LEMMA WatchStepKeeps == WatchIInv /\ [WatchNext]_watchVars => WatchIInv'
<1> SUFFICES ASSUME WatchIInv, [WatchNext]_watchVars PROVE WatchIInv'
  OBVIOUS
<1>1. CASE Looks
  BY <1>1, LooksKeepsWatch
<1>2. CASE Spawns
  BY <1>2, SpawnsKeepsWatch
<1>3. CASE CannotSpawn \/ Reaps
  BY <1>3, WaitsKeepWatch
<1>4. CASE Touches
  BY <1>4, TouchesKeepsWatch
<1>5. CASE Kills \/ SignsOutOrIn
  BY <1>5, EndsKeepWatch
<1>6. CASE UnitPasses
  BY <1>6, UnitKeepsWatch
<1>7. CASE Sleeps
  BY <1>7, SleepsKeepsWatch
<1>8. CASE UNCHANGED watchVars
  BY <1>8 DEF watchVars, WatchIInv, WatchTypes, LooksAgree, CreditAgrees, LossesAgree, SupervisorAgrees,
              Unreported, Sure, Believed, Overdue, GraceEnds
<1> QED BY <1>1, <1>2, <1>3, <1>4, <1>5, <1>6, <1>7, <1>8 DEF WatchNext

\* However often the child ends the helper, moves its windows or leaves: a program is credited with
\* the time it was in front, less at most a report for every helper that was ended, and a helper that
\* is left alone runs again within the longest wait.
THEOREM HelperAlwaysMeasures == WatchSpec => []HelperMeasures
<1>1. WatchInit => WatchIInv
  BY WatchStarts
<1>2. WatchIInv /\ [WatchNext]_watchVars => WatchIInv'
  BY WatchStepKeeps
<1>3. WatchIInv => HelperMeasures
  BY WatchIInvMeasures
<1> QED BY <1>1, <1>2, <1>3, PTL DEF WatchSpec

=============================================================================
