---------------------- MODULE ConfigAndSettingsProofs ----------------------
(***************************************************************************)
(* Proofs about ConfigStore: its types, that the config in force is the    *)
(* one on disk, that the enforcer loops are told of every change, and that *)
(* it implements PolicyStore.  All but the first assume that no handler is *)
(* dropped while it waits for its save.  And about Settings: that only the *)
(* parent pauses, that an exported household comes back as it was, and     *)
(* that what parent and child are told is what the enforcer does.          *)
(***************************************************************************)
EXTENDS ConfigStore, Settings, SequenceTheorems, FiniteSetTheorems, TLAPS

\* What TypeOK says of the handlers and of their saves.
CallTypeOK ==
    /\ step \in [Callers -> Steps] /\ job \in [Callers -> Jobs]
    /\ saves \in [Callers -> Option(Configs)]
    /\ \A c \in Callers : saves[c] # {} => step[c] \in {"saving", "idle"}

-----------------------------------------------------------------------------
(* Types. *)

LEMMA InitTypes == Init => TypeOK
  BY FirstAssumption DEF Init, TypeOK, Steps, Option

\* A closure makes a config of a config, or none.
LEMMA JobTypes ==
    ASSUME NEW j \in Jobs, NEW old \in Configs
    PROVE  j[old] \in Option(Configs) /\ \A new \in j[old] : new \in Configs
  <1>1. j[old] \in Option(Configs)
    BY JobsAssumption
  <1> QED
    BY <1>1 DEF Option

LEMMA RequestTypes ==
    ASSUME TypeOK, NEW c \in Callers, Asks(c) \/ Refuses(c) \/ Skips(c) \/ Dropped(c)
    PROVE  TypeOK'
  <1>1. CASE Asks(c)
    BY <1>1 DEF Asks, TypeOK, Steps, Holding, Answered, loopVars
  <1>2. CASE Refuses(c) \/ Skips(c)
    BY <1>2 DEF Refuses, Skips, Moves, TypeOK, Steps, Holding, Answered, loopVars
  <1>3. CASE Dropped(c)
    BY <1>3 DEF Dropped, TypeOK, Steps, Holding, Answered, loopVars, Option
  <1> QED
    BY <1>1, <1>2, <1>3

LEMMA ChangeTypes ==
    ASSUME TypeOK, NEW c \in Callers, Changes(c)
    PROVE  TypeOK'
  <1>1. PICK new \in job[c][memory] \ {memory} :
            memory' = new /\ saves' = [saves EXCEPT ![c] = {new}]
    BY DEF Changes
  <1>2. new \in Configs
    BY <1>1, JobTypes DEF TypeOK
  <1>3. {new} \in Option(Configs) /\ {memory} \in Option(Configs) /\ {c} \in Option(Callers)
    BY <1>2 DEF TypeOK, Option
  <1> QED
    BY <1>1, <1>2, <1>3 DEF Changes, Moves, TypeOK, Steps, Holding, loopVars

LEMMA SaveTypes ==
    ASSUME TypeOK, NEW c \in Callers, SaveReturns(c)
    PROVE  TypeOK'
  <1>1. disk' \in Configs
    <2>1. CASE SaveLands(c)
      BY <2>1 DEF SaveLands, TypeOK, Option
    <2>2. CASE SaveFails(c)
      BY <2>2 DEF SaveFails, TypeOK
    <2> QED
      BY <2>1, <2>2 DEF SaveReturns
  <1>2. PICK outcome \in {"saved", "unsaved"} : SaveEnds(c, outcome)
    BY DEF SaveReturns, SaveLands, SaveFails
  <1>3. CallTypeOK'
    BY <1>2 DEF SaveEnds, CallTypeOK, TypeOK, Steps, Holding, Answered, Option
  <1> QED
    BY <1>1, <1>2, <1>3 DEF SaveEnds, CallTypeOK, TypeOK, loopVars

LEMMA ResumeTypes ==
    ASSUME TypeOK, NEW c \in Callers, Resumes(c)
    PROVE  TypeOK'
  <1>1. CASE Confirms(c)
    BY <1>1 DEF Confirms, Moves, TypeOK, Steps, Holding, Answered, Option
  <1>2. CASE TakesBack(c)
    <2>1. memory' \in Configs
      BY <1>2 DEF TakesBack, TypeOK, Option
    <2> QED
      BY <1>2, <2>1 DEF TakesBack, Moves, TypeOK, Steps, Holding, Answered, Option
  <1> QED
    BY <1>1, <1>2 DEF Resumes

LEMMA LoopTypes ==
    ASSUME TypeOK, EnforcerReads \/ Restart
    PROVE  TypeOK'
  <1>1. CASE EnforcerReads
    <2>1. {memory} \in Option(Configs)
      BY DEF TypeOK, Option
    <2> QED
      BY <1>1, <2>1 DEF EnforcerReads, TypeOK, handlerVars
  <1>2. CASE Restart
    BY <1>2 DEF Restart, TypeOK, Steps, Option
  <1> QED
    BY <1>1, <1>2

LEMMA StepTypes ==
    ASSUME TypeOK, [Next]_vars
    PROVE  TypeOK'
  <1>1. CASE \E c \in Callers :
                 Asks(c) \/ Mutates(c) \/ SaveReturns(c) \/ Resumes(c) \/ Dropped(c)
    BY <1>1, RequestTypes, ChangeTypes, SaveTypes, ResumeTypes DEF Mutates
  <1>2. CASE EnforcerReads \/ Restart
    BY <1>2, LoopTypes
  <1>3. CASE UNCHANGED vars
    BY <1>3 DEF vars, handlerVars, loopVars, TypeOK
  <1> QED
    BY <1>1, <1>2, <1>3 DEF Next

(* The lock, the config in memory and on disk, and every handler and save    *)
(* under way have the declared types, for every config and closure.          *)
THEOREM TypeCorrect == Spec => []TypeOK
  BY InitTypes, StepTypes, PTL DEF Spec

-----------------------------------------------------------------------------
(* Memory and disk. *)

\* The lock is held by the one handler in the middle of a change; its save is of what is in
\* memory, made by its closure of what is on disk; and the disk is what it would put back.
CallAgrees(c) ==
    /\ step[c] \in Holding <=> lock = {c}
    /\ saves[c] # {} => step[c] = "saving"
    /\ step[c] = "saving" => saves[c] = {memory} /\ memory \in job[c][disk]
    /\ step[c] = "saved" => memory = disk
    /\ step[c] \in {"saving", "unsaved"} => previous = {disk}

StoreInv ==
    /\ lock = {} => memory = disk
    /\ \A c \in Callers : CallAgrees(c)

LEMMA InitAgrees == Init => StoreInv
  BY DEF Init, StoreInv, CallAgrees, Holding

\* A handler that does not hold the lock, and does not take it, leaves all the others alone.
LEMMA RequestAgrees ==
    ASSUME TypeOK, StoreInv, "saving" \notin Drops, NEW c \in Callers,
           Asks(c) \/ Refuses(c) \/ Skips(c) \/ Dropped(c)
    PROVE  StoreInv'
  <1>1. step[c] \in {"idle", "queued"} \union Answered /\ step'[c] \in {"idle", "queued"} \union Answered
    BY DEF Asks, Refuses, Skips, Dropped, Moves, TypeOK, Answered
  <1>2. \A d \in Callers \ {c} : step'[d] = step[d] /\ job'[d] = job[d]
    BY DEF Asks, Refuses, Skips, Dropped, Moves, TypeOK
  <1>3. UNCHANGED <<memory, disk, lock, previous, saves>>
    BY DEF Asks, Refuses, Skips, Dropped
  <1>4. \A d \in Callers \ {c} : CallAgrees(d)'
    BY <1>2, <1>3 DEF StoreInv, CallAgrees
  <1>5. CallAgrees(c)'
    <2>1. saves[c] = {} /\ lock # {c}
      BY <1>1 DEF StoreInv, CallAgrees, Holding, Answered
    <2> QED
      BY <1>1, <1>3, <2>1 DEF CallAgrees, Holding, Answered
  <1> QED
    BY <1>3, <1>4, <1>5 DEF StoreInv

LEMMA ChangeAgrees ==
    ASSUME TypeOK, StoreInv, NEW c \in Callers, Changes(c)
    PROVE  StoreInv'
  <1>1. memory = disk /\ lock = {} /\ lock' = {c} /\ previous' = {disk} /\ UNCHANGED <<disk, job>>
    BY DEF Changes, StoreInv
  <1>2. saves'[c] = {memory'} /\ memory' \in job'[c][disk']
    BY <1>1 DEF Changes, TypeOK
  <1>3. step'[c] = "saving"
    BY DEF Changes, Moves, TypeOK
  <1>4. ASSUME NEW d \in Callers \ {c} PROVE CallAgrees(d)'
    <2>1. step'[d] = step[d] /\ saves'[d] = saves[d] /\ job'[d] = job[d]
      BY <1>1 DEF Changes, Moves, TypeOK
    <2>2. step[d] \notin Holding /\ saves[d] = {}
      BY <1>1 DEF StoreInv, CallAgrees, Holding
    <2> QED
      BY <1>1, <2>1, <2>2 DEF CallAgrees, Holding
  <1>5. CallAgrees(c)'
    BY <1>1, <1>2, <1>3 DEF CallAgrees, Holding
  <1> QED
    BY <1>1, <1>4, <1>5 DEF StoreInv

\* Only the holder of the lock has a save to end.
LEMMA SaveAgrees ==
    ASSUME TypeOK, StoreInv, NEW c \in Callers, SaveReturns(c)
    PROVE  StoreInv'
  <1>1. lock = {c} /\ step[c] = "saving" /\ saves[c] = {memory} /\ previous = {disk}
    BY DEF SaveReturns, SaveLands, SaveFails, StoreInv, CallAgrees, Holding
  <1>2. UNCHANGED <<memory, lock, previous, job>> /\ saves'[c] = {}
    BY DEF SaveReturns, SaveLands, SaveFails, SaveEnds, TypeOK
  <1>3. \/ step'[c] = "saved" /\ disk' = memory
        \/ step'[c] = "unsaved" /\ disk' = disk
    BY <1>1 DEF SaveReturns, SaveLands, SaveFails, SaveEnds, TypeOK
  <1>4. ASSUME NEW d \in Callers \ {c} PROVE CallAgrees(d)'
    <2>1. step'[d] = step[d] /\ saves'[d] = saves[d]
      BY <1>1 DEF SaveReturns, SaveLands, SaveFails, SaveEnds, TypeOK
    <2>2. step[d] \notin Holding /\ saves[d] = {}
      BY <1>1 DEF StoreInv, CallAgrees, Holding
    <2> QED
      BY <1>1, <1>2, <2>1, <2>2 DEF CallAgrees, Holding
  <1>5. CallAgrees(c)'
    BY <1>1, <1>2, <1>3 DEF CallAgrees, Holding
  <1> QED
    BY <1>1, <1>2, <1>4, <1>5 DEF StoreInv

LEMMA ResumeAgrees ==
    ASSUME TypeOK, StoreInv, NEW c \in Callers, Resumes(c)
    PROVE  StoreInv'
  <1>1. lock = {c} /\ lock' = {} /\ saves[c] = {} /\ UNCHANGED <<disk, saves, job>>
    BY DEF Resumes, Confirms, TakesBack, Moves, StoreInv, CallAgrees, Holding
  <1>2. step'[c] \in Answered
    BY DEF Resumes, Confirms, TakesBack, Moves, TypeOK, Answered
  <1>3. memory' = disk'
    BY DEF Resumes, Confirms, TakesBack, Moves, StoreInv, CallAgrees
  <1>4. ASSUME NEW d \in Callers \ {c} PROVE CallAgrees(d)'
    <2>1. step'[d] = step[d]
      BY DEF Resumes, Confirms, TakesBack, Moves, TypeOK
    <2>2. step[d] \notin Holding /\ saves[d] = {}
      BY <1>1 DEF StoreInv, CallAgrees, Holding
    <2> QED
      BY <1>1, <2>1, <2>2 DEF CallAgrees, Holding
  <1>5. CallAgrees(c)'
    BY <1>1, <1>2 DEF CallAgrees, Holding, Answered
  <1> QED
    BY <1>3, <1>4, <1>5 DEF StoreInv

LEMMA RestartAgrees ==
    ASSUME StoreInv, Restart
    PROVE  StoreInv'
  BY DEF Restart, StoreInv, CallAgrees, Holding

LEMMA StepAgrees ==
    ASSUME TypeOK, StoreInv, "saving" \notin Drops, [Next]_vars
    PROVE  StoreInv'
  <1>1. CASE \E c \in Callers :
                 Asks(c) \/ Mutates(c) \/ SaveReturns(c) \/ Resumes(c) \/ Dropped(c)
    BY <1>1, RequestAgrees, ChangeAgrees, SaveAgrees, ResumeAgrees DEF Mutates
  <1>2. CASE Restart
    BY <1>2, RestartAgrees
  <1>3. CASE EnforcerReads
    BY <1>3 DEF EnforcerReads, handlerVars, StoreInv, CallAgrees
  <1>4. CASE UNCHANGED vars
    BY <1>4 DEF vars, handlerVars, StoreInv, CallAgrees
  <1> QED
    BY <1>1, <1>2, <1>3, <1>4 DEF Next

\* What holds of the lock, the memory and the disk in every reachable state.
LEMMA StoreAgrees ==
    ASSUME "saving" \notin Drops
    PROVE  Spec => [](TypeOK /\ StoreInv)
  <1>1. Init => TypeOK /\ StoreInv
    BY InitTypes, InitAgrees
  <1>2. TypeOK /\ StoreInv /\ [Next]_vars => (TypeOK /\ StoreInv)'
    BY StepTypes, StepAgrees
  <1> QED
    BY <1>1, <1>2, PTL DEF Spec

(* With nothing under way, the config in force is the one on disk, however   *)
(* many handlers there are, whatever fails and whenever the service restarts *)
(* (api.rs try_update_config, state.rs config_save_lock).                    *)
THEOREM MemoryIsAlwaysOnDisk ==
    ASSUME "saving" \notin Drops
    PROVE  Spec => []MemoryIsOnDisk
  <1>1. StoreInv => MemoryIsOnDisk
    BY DEF StoreInv, MemoryIsOnDisk
  <1> QED
    BY <1>1, StoreAgrees, PTL

-----------------------------------------------------------------------------
(* The enforcer loops. *)

(* Between changes, a loop that has not read the config in force is about to *)
(* be woken, unless what it read was taken back (api.rs try_update_config,   *)
(* heartbeat.rs wake).                                                       *)
THEOREM EnforcersAreAlwaysTold ==
    ASSUME "saving" \notin Drops
    PROVE  Spec => []EnforcersAreTold
  <1>1. Init => EnforcersAreTold
    BY DEF Init, EnforcersAreTold
  <1>2. ASSUME EnforcersAreTold, [Next]_vars PROVE EnforcersAreTold'
    <2>1. CASE \E c \in Callers : Asks(c) \/ Refuses(c) \/ Skips(c) \/ SaveReturns(c) \/ Dropped(c)
      BY <1>2, <2>1 DEF Asks, Refuses, Skips, SaveReturns, SaveLands, SaveFails, SaveEnds, Dropped,
                        loopVars, EnforcersAreTold
    <2>2. CASE \E c \in Callers : Changes(c)
      BY <2>2 DEF Changes, EnforcersAreTold
    <2>3. CASE \E c \in Callers : Resumes(c)
      BY <2>3 DEF Resumes, Confirms, TakesBack, EnforcersAreTold
    <2>4. CASE EnforcerReads \/ Restart
      BY <2>4 DEF EnforcerReads, Restart, EnforcersAreTold
    <2>5. CASE UNCHANGED vars
      BY <1>2, <2>5 DEF vars, loopVars, EnforcersAreTold
    <2> QED
      BY <1>2, <2>1, <2>2, <2>3, <2>4, <2>5 DEF Next, Mutates
  <1> QED
    BY <1>1, <1>2, PTL DEF Spec

-----------------------------------------------------------------------------
(* ConfigStore implements PolicyStore. *)

\* One handler goes from one step to another.
Goes(c, from, to) == step[c] = from /\ step' = [step EXCEPT ![c] = to]

LEMMA StagesGo ==
    ASSUME TypeOK, NEW c \in Callers, NEW from, NEW to, Goes(c, from, to)
    PROVE  Stages[c] = Stage(from) /\ Stages' = [Stages EXCEPT ![c] = Stage(to)]
  BY DEF Goes, Stages, TypeOK

LEMMA StageValues ==
    /\ Stage("idle") = "idle" /\ Stage("ok") = "ok" /\ Stage("failed") = "failed"
    /\ Stage("queued") = "asked" /\ Stage("saving") = "asked" /\ Stage("unsaved") = "asked"
    /\ Stage("saved") = "stored"
  BY DEF Stage

LEMMA InitMaps == Init => Store!Init
  BY StageValues DEF Init, Stages, Store!Init

LEMMA RequestMaps ==
    ASSUME TypeOK, StoreInv, NEW c \in Callers, Asks(c) \/ Refuses(c) \/ Skips(c)
    PROVE  Store!Next
  <1>1. CASE Asks(c)
    <2>1. PICK s \in {"idle", "ok", "failed"} : Goes(c, s, "queued")
      BY <1>1 DEF Asks, Answered, Goes
    <2>2. Stages[c] = s /\ Stages' = [Stages EXCEPT ![c] = "asked"]
      BY <2>1, StagesGo, StageValues
    <2>3. Store!Ask(c)
      BY <1>1, <2>2 DEF Asks, Store!Ask, Store!Moves
    <2> QED
      BY <2>3 DEF Store!Next
  <1>2. CASE Refuses(c)
    <2>1. Goes(c, "queued", "failed")
      BY <1>2 DEF Refuses, Moves, Goes
    <2>2. Stages[c] = "asked" /\ Stages' = [Stages EXCEPT ![c] = "failed"]
      BY <2>1, StagesGo, StageValues
    <2>3. Store!Refuse(c)
      BY <1>2, <2>2 DEF Refuses, Store!Refuse, Store!Moves
    <2> QED
      BY <2>3 DEF Store!Next
  <1>3. CASE Skips(c)
    <2>1. Goes(c, "queued", "ok") /\ job[c][disk] = {disk}
      BY <1>3 DEF Skips, Moves, Goes, StoreInv
    <2>2. Stages[c] = "asked" /\ Stages' = [Stages EXCEPT ![c] = "ok"]
      BY <2>1, StagesGo, StageValues
    <2>3. Store!Confirm(c)
      BY <1>3, <2>1, <2>2 DEF Skips, Store!Confirm, Store!Moves
    <2> QED
      BY <2>3 DEF Store!Next
  <1> QED
    BY <1>1, <1>2, <1>3

\* A handler whose stage stays the same leaves them all as they are.
LEMMA StagesStay ==
    ASSUME TypeOK, NEW c \in Callers, NEW from, NEW to, Goes(c, from, to), Stage(from) = Stage(to)
    PROVE  Stages' = Stages
  BY DEF Goes, Stages, TypeOK

\* Until its save ends a request has not been applied, whatever is in memory.
LEMMA ChangeMaps ==
    ASSUME TypeOK, NEW c \in Callers, Changes(c)
    PROVE  UNCHANGED Store!vars
  <1>1. Goes(c, "queued", "saving")
    BY DEF Changes, Moves, Goes
  <1>2. Stages' = Stages
    BY <1>1, StagesStay, StageValues
  <1> QED
    BY <1>2 DEF Changes, Store!vars

LEMMA SaveMaps ==
    ASSUME TypeOK, StoreInv, NEW c \in Callers, SaveReturns(c)
    PROVE  [Store!Next]_Store!vars
  <1>1. step[c] = "saving" /\ saves[c] = {memory} /\ memory \in job[c][disk] /\ UNCHANGED job
    BY DEF SaveReturns, SaveLands, SaveFails, SaveEnds, StoreInv, CallAgrees
  <1>2. CASE SaveLands(c)
    <2>1. Goes(c, "saving", "saved") /\ disk' = memory
      BY <1>1, <1>2 DEF SaveLands, SaveEnds, Goes
    <2>2. Stages[c] = "asked" /\ Stages' = [Stages EXCEPT ![c] = "stored"]
      BY <2>1, StagesGo, StageValues
    <2>3. Store!Store(c)
      BY <1>1, <2>1, <2>2 DEF Store!Store, Store!Moves
    <2> QED
      BY <2>3 DEF Store!Next
  <1>3. CASE SaveFails(c)
    <2>1. Goes(c, "saving", "unsaved") /\ UNCHANGED disk
      BY <1>1, <1>3 DEF SaveFails, SaveEnds, Goes
    <2>2. Stages' = Stages
      BY <2>1, StagesStay, StageValues
    <2> QED
      BY <1>1, <2>1, <2>2 DEF Store!vars
  <1> QED
    BY <1>2, <1>3 DEF SaveReturns

LEMMA ResumeMaps ==
    ASSUME TypeOK, NEW c \in Callers, Resumes(c)
    PROVE  Store!Next
  <1>1. CASE Confirms(c)
    <2>1. Goes(c, "saved", "ok")
      BY <1>1 DEF Confirms, Moves, Goes
    <2>2. Stages[c] = "stored" /\ Stages' = [Stages EXCEPT ![c] = "ok"]
      BY <2>1, StagesGo, StageValues
    <2>3. Store!Confirm(c)
      BY <1>1, <2>2 DEF Confirms, Store!Confirm, Store!Moves
    <2> QED
      BY <2>3 DEF Store!Next
  <1>2. CASE TakesBack(c)
    <2>1. Goes(c, "unsaved", "failed")
      BY <1>2 DEF TakesBack, Moves, Goes
    <2>2. Stages[c] = "asked" /\ Stages' = [Stages EXCEPT ![c] = "failed"]
      BY <2>1, StagesGo, StageValues
    <2>3. Store!Refuse(c)
      BY <1>2, <2>2 DEF TakesBack, Store!Refuse, Store!Moves
    <2> QED
      BY <2>3 DEF Store!Next
  <1> QED
    BY <1>1, <1>2 DEF Resumes

LEMMA ForgottenMaps ==
    ASSUME TypeOK, Restart \/ \E c \in Callers : Dropped(c)
    PROVE  Store!Next
  <1>1. CASE Restart
    <2>1. Store!Forget(Callers)
      BY <1>1, StageValues DEF Restart, Stages, Store!Forget
    <2> QED
      BY <2>1 DEF Store!Next
  <1>2. CASE \E c \in Callers : Dropped(c)
    <2>1. PICK c \in Callers : Dropped(c)
      BY <1>2
    <2>2. Goes(c, step[c], "idle") /\ UNCHANGED <<disk, job>>
      BY <2>1 DEF Dropped, Goes
    <2>3. Stages' = [Stages EXCEPT ![c] = "idle"]
      BY <2>2, StagesGo, StageValues
    <2>4. Store!Forget({c})
      BY <2>2, <2>3 DEF Stages, Store!Forget
    <2> QED
      BY <2>4 DEF Store!Next
  <1> QED
    BY <1>1, <1>2

LEMMA StepMaps ==
    ASSUME TypeOK, StoreInv, [Next]_vars
    PROVE  [Store!Next]_Store!vars
  <1>1. CASE \E c \in Callers :
                 Asks(c) \/ Mutates(c) \/ SaveReturns(c) \/ Resumes(c) \/ Dropped(c)
    BY <1>1, RequestMaps, ChangeMaps, SaveMaps, ResumeMaps, ForgottenMaps DEF Mutates
  <1>2. CASE Restart
    BY <1>2, ForgottenMaps
  <1>3. CASE EnforcerReads
    BY <1>3 DEF EnforcerReads, handlerVars, Stages, Store!vars
  <1>4. CASE UNCHANGED vars
    BY <1>4 DEF vars, handlerVars, Stages, Store!vars
  <1> QED
    BY <1>1, <1>2, <1>3, <1>4 DEF Next

(* try_update_config implements the store the dashboard is promised, for     *)
(* every number of handlers and every set of closures (api.rs                *)
(* try_update_config).                                                       *)
THEOREM PolicyIsStored ==
    ASSUME "saving" \notin Drops
    PROVE  Spec => StoresPolicy
  <1>1. Init => Store!Init
    BY InitMaps
  <1>2. TypeOK /\ StoreInv /\ [Next]_vars => [Store!Next]_Store!vars
    BY StepMaps
  <1> QED
    BY <1>1, <1>2, StoreAgrees, PTL DEF Spec, StoresPolicy, Store!Spec


-----------------------------------------------------------------------------
(* The household's settings.  Types. *)

LEMMA BoundsTypes ==
    /\ Minute \in Nat /\ Minute > 0 /\ Grant \in Nat /\ Lookahead \in Nat /\ MaxLimit \in Nat
    /\ MaxRoutines \in Nat /\ MaxWindows \in Nat /\ Horizon \in Nat /\ MaxMoves \in Nat
  BY SettingsBoundsAssumption

\* What a handler may make of the config, piece by piece.
LEMMA ConfigOf ==
    ASSUME NEW c \in Config
    PROVE  /\ \A rules \in RulesType : [c EXCEPT !.rules = rules] \in Config
           /\ \A hours \in Bedtimes : [c EXCEPT !.curfew.bedtime = hours] \in Config
           /\ \A until \in SUBSET Nat : [c EXCEPT !.curfew.extended = until] \in Config
           /\ \A routines \in Seq(Routine) : [c EXCEPT !.routines = routines] \in Config
           /\ \A language \in Languages : [c EXCEPT !.language = language] \in Config
           /\ \A extra \in Nat : [c EXCEPT !.extra = extra] \in Config
  BY DEF Config, Curfew

LEMMA HouseInitTypes == HouseInit => HouseTypeOK
  <1> SUFFICES ASSUME HouseInit PROVE HouseTypeOK
    OBVIOUS
  <1>1. PICK hours \in {b \in Bedtimes : b.valid}, gate \in Gates, language \in Languages :
            config = [curfew |-> [bedtime |-> hours, extended |-> {}], rules |-> DefaultRules,
                      routines |-> <<>>, language |-> language, extra |-> 0, gate |-> gate]
    BY DEF HouseInit
  <1>2. config \in Config
    BY <1>1 DEF Config, Curfew, RulesType, DefaultRules, Stopping
  <1>3. Len(config.routines) <= MaxRoutines
    BY <1>1, BoundsTypes
  <1>4. now \in Instants /\ used \in 0..now /\ moves \in 0..MaxMoves
    BY BoundsTypes DEF HouseInit, Instants
  <1>5. checking \in BOOLEAN /\ paused \in BOOLEAN
    BY DEF HouseInit
  <1>6. applying \subseteq RulesType /\ file \subseteq File /\ told \subseteq Answer
    BY DEF HouseInit
  <1> QED
    BY <1>2, <1>3, <1>4, <1>5, <1>6 DEF HouseTypeOK

LEMMA StoresTypes ==
    ASSUME HouseTypeOK, NEW c \in Config, Len(c.routines) <= MaxRoutines,
           NEW answer \in SUBSET Answer, Stores(c, answer), Rest, UNCHANGED paused,
           applying' \subseteq RulesType, file' \subseteq File
    PROVE  HouseTypeOK'
  BY BoundsTypes DEF HouseTypeOK, Stores, Rest, Instants

LEMMA ApplyTypes ==
    ASSUME NEW c \in Config, NEW policy \in PolicyType
    PROVE  ApplyPolicy(c, policy) \in Config /\ ApplyPolicy(c, policy).routines = policy.routines
  BY DEF ApplyPolicy, Config, PolicyType, Curfew, RulesType

LEMMA PolicyTypes ==
    ASSUME NEW c \in Config
    PROVE  Policy(c) \in PolicyType
  BY DEF Policy, Config, PolicyType, Curfew

LEMMA RulesInForceTypes ==
    ASSUME NEW c \in Config, NEW t
    PROVE  /\ \A r \in ScheduledRoutineAt(c, t) : r \in Stored(c) /\ r \in Routine
           /\ RulesAt(c, t) \in RulesType
  <1>1. \A i \in DOMAIN c.routines : c.routines[i] \in Routine
    BY DEF Config
  <1>2. \A r \in ScheduledRoutineAt(c, t) : r \in Stored(c) /\ r \in Routine
    BY <1>1 DEF ScheduledRoutineAt, Stored
  <1>3. ScheduledRoutineAt(c, t) # {} => The(ScheduledRoutineAt(c, t)) \in ScheduledRoutineAt(c, t)
    BY DEF The
  <1> QED
    BY <1>2, <1>3 DEF RulesAt, Routine, Config

LEMMA GateCapTypes ==
    ASSUME NEW c \in Config
    PROVE  GateCap(c) \subseteq Nat /\ GateCap(c) \in {{}, c.gate} /\ \A m, o \in GateCap(c) : m = o
  BY GatesAssumption DEF GateCap, Config

LEMMA LeastOfTwo ==
    ASSUME NEW a \in Nat, NEW b \in Nat
    PROVE  \E m \in {a, b} : \A o \in {a, b} : m <= o
  <1>1. CASE a <= b
    BY <1>1
  <1>2. CASE b <= a
    BY <1>2
  <1> QED
    BY <1>1, <1>2

LEMMA BudgetTypes ==
    ASSUME NEW c \in Config, NEW rules \in RulesType
    PROVE  Effective(rules, c) \in Nat
  <1> DEFINE bounds == GateCap(c) \union ({rules.limit} \ {0})
             least  == CHOOSE m \in bounds : \A o \in bounds : m <= o
  <1>1. rules.limit \in Nat /\ c.extra \in Nat
    BY DEF RulesType, Config
  <1>2. CASE rules.limit = 0 /\ GateCap(c) = {}
    BY <1>2 DEF Effective
  <1>3. CASE ~(rules.limit = 0 /\ GateCap(c) = {})
    <2>1. \E m \in bounds : \A o \in bounds : m <= o
      <3>1. CASE GateCap(c) = {}
        <4>1. bounds = {rules.limit}
          BY <3>1, <1>3
        <4> QED
          BY <4>1, <1>1
      <3>2. CASE GateCap(c) # {}
        <4>1. PICK cap \in GateCap(c) : GateCap(c) = {cap} /\ cap \in Nat
          BY <3>2, GateCapTypes
        <4>2. CASE rules.limit = 0
          <5>1. bounds = {cap}
            BY <4>1, <4>2
          <5> QED
            BY <5>1, <4>1
        <4>3. CASE rules.limit # 0
          <5>1. bounds = {cap, rules.limit}
            BY <4>1, <4>3
          <5> QED
            BY <5>1, <4>1, <1>1, LeastOfTwo
        <4> QED
          BY <4>2, <4>3
      <3> QED
        BY <3>1, <3>2
    <2>2. least \in bounds
      BY <2>1
    <2>3. bounds \subseteq Nat
      BY <1>1, GateCapTypes
    <2>4. Effective(rules, c) = c.extra + least
      BY <1>3 DEF Effective
    <2>5. least \in Nat
      BY <2>2, <2>3
    <2> HIDE DEF least, bounds
    <2> QED
      BY <2>4, <2>5, <1>1
  <1> QED
    BY <1>2, <1>3

LEMMA NoteTypes ==
    ASSUME HouseTypeOK, NEW c \in Config, NEW minutes
    PROVE  CutsExtensionShort(minutes, c) \subseteq Nat
  <1>1. Effective(RulesAt(c, now), c) \in Nat
    BY RulesInForceTypes, BudgetTypes
  <1> DEFINE budget == Effective(RulesAt(c, now), c)
  <1>2. UsedMins \in Nat
    BY BoundsTypes DEF UsedMins, HouseTypeOK, Instants
  <1>3. RemainingMins(budget) \subseteq Nat
    <2> HIDE DEF budget
    <2>1. budget \in Nat
      BY <1>1 DEF budget
    <2> QED
      BY <2>1, <1>2 DEF RemainingMins
  <1> QED
    BY <1>3 DEF CutsExtensionShort

LEMMA RulesStepTypes ==
    ASSUME HouseTypeOK, SetsRules \/ PreviewsRules
    PROVE  HouseTypeOK'
  <1>1. CASE SetsRules
    <2>1. PICK rules \in Asked :
              /\ Stores([config EXCEPT !.rules = rules],
                        {[kind |-> "saved", over |-> t.over] :
                            t \in {u \in told : u.kind = "preview" /\ u.rules = rules}})
              /\ paused' = ~rules.enabled
      BY <1>1 DEF SetsRules
    <2> DEFINE c == [config EXCEPT !.rules = rules]
               answer == {[kind |-> "saved", over |-> t.over] :
                            t \in {u \in told : u.kind = "preview" /\ u.rules = rules}}
    <2>2. c \in Config /\ c.routines = config.routines
      BY ConfigOf, AskedAssumption DEF HouseTypeOK, Config
    <2>3. answer \subseteq Answer
      BY DEF HouseTypeOK, Answer
    <2>4. paused' \in BOOLEAN
      BY <2>1, AskedAssumption DEF RulesType
    <2>5. config' = c /\ told' = answer /\ moves < MaxMoves /\ moves' = moves + 1
      BY <2>1 DEF Stores
    <2>6. UNCHANGED <<applying, file, now, used, checking>>
      BY <1>1 DEF SetsRules, Rest
    <2> HIDE DEF c, answer
    <2> QED
      BY <2>2, <2>3, <2>4, <2>5, <2>6, BoundsTypes DEF HouseTypeOK, Instants
  <1>2. CASE PreviewsRules
    <2>1. PICK candidate \in Asked :
              Stores(config, {[kind |-> "preview", rules |-> candidate, over |-> Preview(candidate)]})
      BY <1>2 DEF PreviewsRules
    <2>2. Preview(candidate) \in BOOLEAN
      BY DEF Preview, SpentToday
    <2>3. [kind |-> "preview", rules |-> candidate, over |-> Preview(candidate)] \in Answer
      BY <2>2, AskedAssumption DEF Answer
    <2>4. config \in Config /\ Len(config.routines) <= MaxRoutines
      BY DEF HouseTypeOK
    <2> QED
      BY <1>2, <2>1, <2>3, <2>4, StoresTypes DEF PreviewsRules, HouseTypeOK
  <1> QED
    BY <1>1, <1>2

LEMMA CurfewStepTypes ==
    ASSUME HouseTypeOK, SetsCurfew \/ ExtendsCurfew \/ UndoesExtension \/ SetsLanguage \/ Gives
    PROVE  HouseTypeOK'
  <1> USE DEF HouseTypeOK
  <1>1. Len(config.routines) <= MaxRoutines /\ config \in Config /\ {} \in SUBSET Answer
    OBVIOUS
  <1>2. CASE SetsCurfew
    <2>1. PICK hours \in Bedtimes : Stores([config EXCEPT !.curfew.bedtime = hours], {})
      BY <1>2 DEF SetsCurfew
    <2> DEFINE c == [config EXCEPT !.curfew.bedtime = hours]
    <2>2. c \in Config /\ c.routines = config.routines
      BY <1>1, ConfigOf DEF Config
    <2> HIDE DEF c
    <2> QED
      BY <1>1, <1>2, <2>1, <2>2, StoresTypes DEF SetsCurfew, c
  <1>3. CASE ExtendsCurfew
    <2> DEFINE base  == {t \in config.curfew.extended : t > now}
               until == (IF base = {} THEN now ELSE The(base)) + Grant * Minute
               c     == [config EXCEPT !.curfew.extended = {until}]
               told1 == [kind |-> "extended", note |-> CutsExtensionShort(Grant, c),
                         used |-> used, decided |-> <<RulesAt(c, now), GateCap(c)>>]
    <2>1. base # {} => The(base) \in base
      BY DEF The
    <2>2. base \subseteq Nat
      BY <1>1 DEF Config, Curfew
    <2>3. (IF base = {} THEN now ELSE The(base)) \in Nat
      BY <2>1, <2>2, BoundsTypes DEF Instants
    <2>4. until \in Nat
      <3> HIDE DEF base
      <3> QED
        BY <2>3, BoundsTypes
    <2> HIDE DEF until
    <2>5. c \in Config /\ c.routines = config.routines /\ c.gate = config.gate
      <3>1. {until} \in SUBSET Nat
        BY <2>4
      <3>2. c \in Config
        BY <1>1, <3>1, ConfigOf
      <3> QED
        BY <1>1, <3>2 DEF Config
    <2> HIDE DEF c
    <2>6. told1 \in Answer
      <3>1. CutsExtensionShort(Grant, c) \subseteq Nat
        BY <2>5, NoteTypes
      <3>2. RulesAt(c, now) \in RulesType
        BY <2>5, RulesInForceTypes
      <3>3. GateCap(c) \in Gates \union {{}}
        BY <2>5, GateCapTypes DEF Config
      <3>4. used \in Nat
        BY BoundsTypes DEF Instants
      <3> QED
        BY <3>1, <3>2, <3>3, <3>4 DEF Answer
    <2>7. Stores(c, {told1})
      BY <1>3 DEF ExtendsCurfew, c, until
    <2> HIDE DEF told1
    <2>8. Rest /\ UNCHANGED <<applying, file, paused>>
      BY <1>3 DEF ExtendsCurfew
    <2> QED
      BY <1>1, <2>5, <2>6, <2>7, <2>8, StoresTypes
  <1>4. CASE UndoesExtension
    <2>1. PICK until \in config.curfew.extended :
              Stores([config EXCEPT !.curfew.extended =
                      {IF until < now + Lookahead * Minute THEN until ELSE now + Lookahead * Minute}], {})
      BY <1>4 DEF UndoesExtension
    <2> DEFINE end == IF until < now + Lookahead * Minute THEN until ELSE now + Lookahead * Minute
               c   == [config EXCEPT !.curfew.extended = {end}]
    <2>2. end \in Nat
      <3>1. until \in Nat
        BY <1>1, <2>1 DEF Config, Curfew
      <3>2. Lookahead * Minute \in Nat /\ now \in Nat
        BY BoundsTypes DEF Instants
      <3> QED
        BY <3>1, <3>2
    <2> HIDE DEF end
    <2>3. c \in Config /\ c.routines = config.routines
      <3>1. {end} \in SUBSET Nat
        BY <2>2
      <3>2. c \in Config
        BY <1>1, <3>1, ConfigOf
      <3> QED
        BY <1>1, <3>2 DEF Config
    <2> HIDE DEF c
    <2> QED
      BY <1>1, <1>4, <2>1, <2>3, StoresTypes DEF UndoesExtension, c, end
  <1>5. CASE SetsLanguage
    <2>1. PICK tag \in Tags : \E language \in FromTag(tag) : Stores([config EXCEPT !.language = language], {})
      BY <1>5 DEF SetsLanguage
    <2>2. PICK language \in Languages : Stores([config EXCEPT !.language = language], {})
      BY <2>1 DEF FromTag
    <2> DEFINE c == [config EXCEPT !.language = language]
    <2>3. c \in Config /\ c.routines = config.routines
      BY <1>1, ConfigOf DEF Config
    <2> HIDE DEF c
    <2> QED
      BY <1>1, <1>5, <2>2, <2>3, StoresTypes DEF SetsLanguage, c
  <1>6. CASE Gives
    <2> DEFINE c == [config EXCEPT !.extra = @ + Grant]
    <2>1. config.extra + Grant \in Nat
      BY <1>1, BoundsTypes DEF Config
    <2>2. c = [config EXCEPT !.extra = config.extra + Grant]
      OBVIOUS
    <2>3. c \in Config /\ c.routines = config.routines
      BY <1>1, <2>1, <2>2, ConfigOf DEF Config
    <2> HIDE DEF c
    <2> QED
      BY <1>1, <1>6, <2>3, StoresTypes DEF Gives, c
  <1> QED
    BY <1>2, <1>3, <1>4, <1>5, <1>6

\* Where a routine of that name is.
NamedAs(routines, routine) == {i \in DOMAIN routines : routines[i].name = routine.name}

LEMMA WithRoutineShape ==
    ASSUME NEW routines \in Seq(Routine), NEW routine \in Routine
    PROVE  /\ WithRoutine(routines, routine) \in Seq(Routine)
           /\ NamedAs(routines, routine) = {} =>
                 /\ Len(WithRoutine(routines, routine)) = Len(routines) + 1
                 /\ \A i \in 1 .. Len(routines) : WithRoutine(routines, routine)[i] = routines[i]
                 /\ WithRoutine(routines, routine)[Len(routines) + 1] = routine
           /\ NamedAs(routines, routine) # {} =>
                 /\ Len(WithRoutine(routines, routine)) = Len(routines)
                 /\ \A i \in 1 .. Len(routines) :
                       WithRoutine(routines, routine)[i] =
                           IF i \in NamedAs(routines, routine) THEN routine ELSE routines[i]
  <1> DEFINE named == NamedAs(routines, routine)
  <1>0. named = {i \in DOMAIN routines : routines[i].name = routine.name}
    BY DEF NamedAs
  <1>1. CASE named = {}
    <2>1. WithRoutine(routines, routine) = Append(routines, routine)
      BY <1>1, <1>0 DEF WithRoutine
    <2> QED
      BY <1>1, <2>1, AppendProperties
  <1>2. CASE named # {}
    <2>1. DOMAIN routines = 1 .. Len(routines) /\ Len(routines) \in Nat
      BY LenProperties
    <2>2. WithRoutine(routines, routine) = [i \in 1 .. Len(routines) |-> IF i \in named THEN routine ELSE routines[i]]
      BY <1>2, <1>0, <2>1 DEF WithRoutine
    <2>3. \A i \in 1 .. Len(routines) : (IF i \in named THEN routine ELSE routines[i]) \in Routine
      BY <2>1, ElementOfSeq
    <2>4. WithRoutine(routines, routine) \in Seq(Routine) /\ Len(WithRoutine(routines, routine)) = Len(routines)
      BY <2>1, <2>2, <2>3, IsASeq
    <2> QED
      BY <1>2, <2>2, <2>4
  <1> QED
    BY <1>1, <1>2

LEMMA WithoutShape ==
    ASSUME NEW routines \in Seq(Routine), NEW i \in DOMAIN routines
    PROVE  /\ Without(routines, i) \in Seq(Routine)
           /\ Len(Without(routines, i)) = Len(routines) - 1
           /\ \A k \in 1 .. Len(routines) - 1 :
                 Without(routines, i)[k] = routines[IF k < i THEN k ELSE k + 1]
  <1> DEFINE head == SubSeq(routines, 1, i - 1)
             tail == SubSeq(routines, i + 1, Len(routines))
  <1>1. i \in 1 .. Len(routines) /\ Len(routines) \in Nat
    BY LenProperties
  <1>2. /\ head \in Seq(Routine) /\ Len(head) = i - 1
        /\ \A k \in 1 .. i - 1 : head[k] = routines[k]
    <2>1. \A k \in 1 .. i - 1 : routines[k] \in Routine
      BY <1>1, ElementOfSeq
    <2> QED
      BY <1>1, <2>1, SubSeqProperties
  <1>3. /\ tail \in Seq(Routine) /\ Len(tail) = Len(routines) - i
        /\ \A k \in 1 .. Len(routines) - i : tail[k] = routines[i + k]
    <2>1. \A k \in i + 1 .. Len(routines) : routines[k] \in Routine
      BY <1>1, ElementOfSeq
    <2>2. /\ tail \in Seq(Routine)
          /\ Len(tail) = IF i + 1 <= Len(routines) THEN Len(routines) - (i + 1) + 1 ELSE 0
          /\ \A k \in 1 .. Len(routines) - (i + 1) + 1 : tail[k] = routines[i + 1 + k - 1]
      BY <1>1, <2>1, SubSeqProperties
    <2> HIDE DEF tail
    <2> QED
      BY <1>1, <2>2
  <1>4. Without(routines, i) = head \o tail
    BY DEF Without
  <1> HIDE DEF head, tail
  <1>5. /\ head \o tail \in Seq(Routine) /\ Len(head \o tail) = Len(head) + Len(tail)
        /\ \A k \in 1 .. Len(head) + Len(tail) :
              (head \o tail)[k] = IF k <= Len(head) THEN head[k] ELSE tail[k - Len(head)]
    BY <1>2, <1>3, ConcatProperties
  <1>6. Len(head) + Len(tail) = Len(routines) - 1
    BY <1>1, <1>2, <1>3
  <1>7. \A k \in 1 .. Len(routines) - 1 :
            (head \o tail)[k] = IF k <= i - 1 THEN head[k] ELSE tail[k - (i - 1)]
    BY <1>2, <1>5, <1>6
  <1>8. ASSUME NEW k \in 1 .. Len(routines) - 1
        PROVE  (head \o tail)[k] = routines[IF k < i THEN k ELSE k + 1]
    <2>1. CASE k < i
      <3>1. k \in 1 .. i - 1 /\ k <= i - 1
        BY <1>1, <2>1
      <3>2. (head \o tail)[k] = head[k]
        BY <1>7, <3>1
      <3> QED
        BY <1>2, <2>1, <3>1, <3>2
    <2>2. CASE ~(k < i)
      <3>1. k - (i - 1) \in 1 .. Len(routines) - i /\ i + (k - (i - 1)) = k + 1 /\ ~(k <= i - 1)
        BY <1>1, <2>2
      <3>2. (head \o tail)[k] = tail[k - (i - 1)]
        BY <1>7, <3>1
      <3>3. tail[k - (i - 1)] = routines[i + (k - (i - 1))]
        BY <1>3, <3>1
      <3> QED
        BY <2>2, <3>1, <3>2, <3>3
    <2> QED
      BY <2>1, <2>2
  <1> QED
    BY <1>4, <1>5, <1>6, <1>8

LEMMA RoutineStepTypes ==
    ASSUME HouseTypeOK, SavesRoutine \/ BeginsApply \/ AppliesRoutine \/ DeletesRoutine
    PROVE  HouseTypeOK'
  <1> USE DEF HouseTypeOK
  <1>1. /\ config \in Config /\ config.routines \in Seq(Routine) /\ {} \in SUBSET Answer
        /\ Len(config.routines) <= MaxRoutines /\ Len(config.routines) \in Nat
    BY LenProperties DEF Config
  <1>2. CASE SavesRoutine
    <2>1. PICK name \in Names \union {BadName}, rules \in Asked, schedule \in Schedules :
              /\ name # BadName
              /\ name \in {r.name : r \in Stored(config)} \/ Len(config.routines) < MaxRoutines
              /\ Stores([config EXCEPT !.routines = WithRoutine(config.routines,
                            [name |-> name, rules |-> Preset(rules), schedule |-> schedule])], {})
      BY <1>2 DEF SavesRoutine
    <2> DEFINE routine == [name |-> name, rules |-> Preset(rules), schedule |-> schedule]
               named == NamedAs(config.routines, routine)
               stored == WithRoutine(config.routines, routine)
               c == [config EXCEPT !.routines = stored]
    <2>2. Preset(rules) \in RulesType
      BY AskedAssumption DEF Preset, RulesType
    <2>3. routine \in Routine
      BY <2>1, <2>2 DEF Routine
    <2>4. named = {} => name \notin {r.name : r \in Stored(config)}
      BY DEF Stored, NamedAs
    <2>6. Stores(c, {})
      BY <2>1
    <2> HIDE DEF routine
    <2>7. /\ stored \in Seq(Routine)
          /\ named = {} => Len(stored) = Len(config.routines) + 1
          /\ named # {} => Len(stored) = Len(config.routines)
      BY <1>1, <2>3, WithRoutineShape DEF named
    <2>8. Len(stored) <= MaxRoutines
      BY <1>1, <2>1, <2>4, <2>7, BoundsTypes
    <2> HIDE DEF stored
    <2>9. c \in Config
      BY <1>1, <2>7, ConfigOf
    <2>10. c.routines = stored
      BY <1>1 DEF Config
    <2> HIDE DEF c
    <2> QED
      BY <1>1, <1>2, <2>6, <2>8, <2>9, <2>10, StoresTypes DEF SavesRoutine
  <1>3. CASE BeginsApply
    <2>1. PICK routine \in Stored(config) : applying' = {routine.rules}
      BY <1>3 DEF BeginsApply
    <2>2. routine.rules \in RulesType
      <3>1. PICK i \in DOMAIN config.routines : routine = config.routines[i]
        BY DEF Stored
      <3>2. config.routines[i] \in Routine
        BY <1>1, <3>1, ElementOfSeq, LenProperties
      <3> QED
        BY <3>1, <3>2 DEF Routine
    <2> QED
      BY <1>3, <2>1, <2>2 DEF BeginsApply, Rest
  <1>4. CASE AppliesRoutine
    <2>1. PICK rules \in applying : Stores(Applied(rules), {})
      BY <1>4 DEF AppliesRoutine
    <2>2. [rules EXCEPT !.enabled = config.rules.enabled] \in RulesType
      BY <1>1 DEF RulesType, Config
    <2>3. Applied(rules) \in Config
      BY <1>1, <2>2, ConfigOf DEF Applied
    <2>4. Applied(rules).routines = config.routines
      BY <1>1 DEF Applied, Config
    <2> QED
      BY <1>1, <1>4, <2>1, <2>3, <2>4, StoresTypes DEF AppliesRoutine
  <1>5. CASE DeletesRoutine
    <2>1. PICK i \in DOMAIN config.routines :
              Stores([config EXCEPT !.routines = Without(config.routines, i)], {})
      BY <1>5 DEF DeletesRoutine
    <2> DEFINE stored == Without(config.routines, i)
               c == [config EXCEPT !.routines = stored]
    <2>2. stored \in Seq(Routine) /\ Len(stored) = Len(config.routines) - 1
      BY <1>1, WithoutShape
    <2>3. Len(stored) <= MaxRoutines
      BY <1>1, <2>2, BoundsTypes
    <2>4. Stores(c, {})
      BY <2>1
    <2> HIDE DEF stored
    <2>5. c \in Config
      BY <1>1, <2>2, ConfigOf
    <2>6. c.routines = stored
      BY <1>1 DEF Config
    <2> HIDE DEF c
    <2> QED
      BY <1>1, <1>5, <2>3, <2>4, <2>5, <2>6, StoresTypes DEF DeletesRoutine
  <1> QED
    BY <1>2, <1>3, <1>4, <1>5

LEMMA FileStepTypes ==
    ASSUME HouseTypeOK, Exports \/ Edits \/ Restores
    PROVE  HouseTypeOK'
  <1> USE DEF HouseTypeOK
  <1>1. config \in Config /\ Len(config.routines) <= MaxRoutines /\ {} \in SUBSET Answer
    OBVIOUS
  <1>2. CASE Exports
    <2>1. [policy |-> Policy(config), was |-> config, edited |-> FALSE] \in File
      BY <1>1, PolicyTypes DEF File
    <2> QED
      BY <1>1, <1>2, <2>1, StoresTypes DEF Exports
  <1>3. CASE Edits
    <2> DEFINE Edited(f) == {[f.policy EXCEPT !.curfew.extended = {Horizon}],
                             [f.policy EXCEPT !.rules.enabled = ~@],
                             [f.policy EXCEPT !.rules.limit = MaxLimit + 1]}
    <2>1. PICK f \in file : \E policy \in Edited(f) :
              file' = {[f EXCEPT !.policy = policy, !.edited = TRUE]}
      BY <1>3 DEF Edits
    <2>0. PICK policy \in Edited(f) : file' = {[f EXCEPT !.policy = policy, !.edited = TRUE]}
      BY <2>1
    <2>2. f \in File /\ f.policy \in PolicyType
      BY <2>1 DEF File
    <2>3. [f.policy EXCEPT !.curfew.extended = {Horizon}] \in PolicyType
      <3>1. {Horizon} \in SUBSET Nat
        BY BoundsTypes
      <3> QED
        BY <2>2, <3>1 DEF PolicyType, Curfew
    <2>4. [f.policy EXCEPT !.rules.enabled = ~@] \in PolicyType
      BY <2>2 DEF PolicyType, RulesType
    <2>5. [f.policy EXCEPT !.rules.limit = MaxLimit + 1] \in PolicyType
      <3>1. MaxLimit + 1 \in Nat
        BY BoundsTypes
      <3> QED
        BY <2>2, <3>1 DEF PolicyType, RulesType
    <2>6. policy \in PolicyType
      BY <2>0, <2>3, <2>4, <2>5
    <2>7. [f EXCEPT !.policy = policy, !.edited = TRUE] \in File
      BY <2>2, <2>6 DEF File
    <2> QED
      BY <1>3, <2>0, <2>7 DEF Edits, Rest
  <1>4. CASE Restores
    <2>1. PICK f \in file : ValidPolicy(f.policy) /\ Stores(ApplyPolicy(config, f.policy), {})
      BY <1>4 DEF Restores
    <2>2. f.policy \in PolicyType
      BY <2>1 DEF File
    <2>3. Len(f.policy.routines) <= MaxRoutines
      BY <2>1 DEF ValidPolicy
    <2> QED
      BY <1>1, <1>4, <2>1, <2>2, <2>3, ApplyTypes, StoresTypes DEF Restores
  <1> QED
    BY <1>2, <1>3, <1>4

LEMMA TimeStepTypes ==
    ASSUME HouseTypeOK, CheckingChanges \/ TimePasses
    PROVE  HouseTypeOK'
  <1>1. CASE CheckingChanges
    <2>1. told' \subseteq Answer
      BY <1>1 DEF CheckingChanges, Stores, HouseTypeOK
    <2>2. checking' \in BOOLEAN
      BY <1>1 DEF CheckingChanges, HouseTypeOK
    <2>3. moves' \in 0 .. MaxMoves
      BY <1>1, BoundsTypes DEF CheckingChanges, Stores, HouseTypeOK
    <2> QED
      BY <1>1, <2>1, <2>2, <2>3 DEF CheckingChanges, Stores, HouseTypeOK
  <1>2. CASE TimePasses
    <2>1. now' \in Instants /\ used' \in 0 .. now'
      BY <1>2, BoundsTypes DEF TimePasses, HouseTypeOK, Instants
    <2>2. told' \subseteq Answer
      BY <1>2 DEF TimePasses, HouseTypeOK
    <2> QED
      BY <1>2, <2>1, <2>2 DEF TimePasses, HouseTypeOK
  <1> QED
    BY <1>1, <1>2

LEMMA HouseStepTypes ==
    ASSUME HouseTypeOK, [HouseNext]_houseVars
    PROVE  HouseTypeOK'
  <1>1. CASE UNCHANGED houseVars
    BY <1>1 DEF houseVars, HouseTypeOK, Instants
  <1>2. CASE HouseNext
    BY <1>2, RulesStepTypes, CurfewStepTypes, RoutineStepTypes, FileStepTypes, TimeStepTypes DEF HouseNext
  <1> QED
    BY <1>1, <1>2

(* The household's settings, an exported file, and every answer given have    *)
(* the declared types, whatever is asked for (api.rs's handlers, Policy).     *)
THEOREM HouseTypeCorrect == HouseSpec => []HouseTypeOK
  BY HouseInitTypes, HouseStepTypes, PTL DEF HouseSpec

-----------------------------------------------------------------------------
(* What is in force, and what is in an exported file. *)

\* Routines of different names, none of which is paused, and none out of bounds.
GoodRoutines(routines) ==
    /\ Len(routines) <= MaxRoutines
    /\ \A i, j \in DOMAIN routines : routines[i].name = routines[j].name => i = j
    /\ \A i \in DOMAIN routines : routines[i].rules.enabled /\ ValidRules(routines[i].rules)

\* What is in force is what could be exported, and paused when the parent has said so.
ConfigInv ==
    /\ config.rules.enabled = ~paused
    /\ config.curfew.bedtime.valid /\ ValidRules(config.rules) /\ GoodRoutines(config.routines)
    /\ \A rules \in applying : ValidRules(rules)

\* A file no hand was laid on is of a config that was good.
FileInv ==
    \A f \in file :
        /\ GoodRoutines(f.policy.routines)
        /\ ~f.edited => f.policy = Policy(f.was) /\ ValidPolicy(f.policy)

LEMMA GoodPolicy ==
    ASSUME HouseTypeOK, ConfigInv
    PROVE  ValidPolicy(Policy(config)) /\ GoodRoutines(Policy(config).routines)
  <1>1. /\ Policy(config).curfew.bedtime = config.curfew.bedtime /\ Policy(config).rules = config.rules
        /\ Policy(config).routines = config.routines
    BY DEF Policy, HouseTypeOK, Config, Curfew
  <1>2. \A i \in DOMAIN config.routines : config.routines[i].name \in Names
    <2>1. \A i \in DOMAIN config.routines : config.routines[i] \in Routine
      BY ElementOfSeq, LenProperties DEF HouseTypeOK, Config
    <2> QED
      BY <2>1 DEF Routine
  <1> QED
    BY <1>1, <1>2 DEF ConfigInv, GoodRoutines, ValidPolicy

LEMMA WithRoutineIsGood ==
    ASSUME NEW routines \in Seq(Routine), GoodRoutines(routines), NEW routine \in Routine,
           routine.rules.enabled, ValidRules(routine.rules),
           NamedAs(routines, routine) # {} \/ Len(routines) < MaxRoutines
    PROVE  GoodRoutines(WithRoutine(routines, routine))
  <1> DEFINE stored == WithRoutine(routines, routine)
  <1>1. Len(routines) \in Nat /\ DOMAIN routines = 1 .. Len(routines)
    BY LenProperties
  <1>2. stored \in Seq(Routine)
    BY WithRoutineShape
  <1>3. DOMAIN stored = 1 .. Len(stored) /\ Len(stored) \in Nat
    BY <1>2, LenProperties
  <1>4. CASE NamedAs(routines, routine) = {}
    <2>1. Len(stored) = Len(routines) + 1 /\ stored[Len(routines) + 1] = routine
      BY <1>4, WithRoutineShape
    <2>2. \A i \in 1 .. Len(routines) : stored[i] = routines[i]
      BY <1>4, WithRoutineShape
    <2>3. \A i \in 1 .. Len(routines) : routines[i].name # routine.name
      BY <1>1, <1>4 DEF NamedAs
    <2> HIDE DEF stored
    <2>4. \A i \in DOMAIN stored : i \in 1 .. Len(routines) \/ i = Len(routines) + 1
      BY <1>1, <1>3, <2>1
    <2>5. \A i, j \in DOMAIN stored : stored[i].name = stored[j].name => i = j
      BY <1>1, <2>1, <2>2, <2>3, <2>4 DEF GoodRoutines
    <2>6. \A i \in DOMAIN stored : stored[i].rules.enabled /\ ValidRules(stored[i].rules)
      BY <1>1, <2>1, <2>2, <2>4 DEF GoodRoutines
    <2>7. Len(stored) <= MaxRoutines
      BY <1>1, <1>4, <2>1, BoundsTypes
    <2> QED
      BY <2>5, <2>6, <2>7 DEF GoodRoutines, stored
  <1>5. CASE NamedAs(routines, routine) # {}
    <2>1. /\ Len(stored) = Len(routines)
          /\ \A i \in 1 .. Len(routines) :
                stored[i] = IF i \in NamedAs(routines, routine) THEN routine ELSE routines[i]
      BY <1>5, WithRoutineShape
    <2> HIDE DEF stored
    <2>2. \A i \in DOMAIN stored : stored[i].name = routines[i].name
      BY <1>1, <1>3, <2>1 DEF NamedAs
    <2>3. \A i, j \in DOMAIN stored : stored[i].name = stored[j].name => i = j
      BY <1>1, <1>3, <2>1, <2>2 DEF GoodRoutines
    <2>4. \A i \in DOMAIN stored : stored[i].rules.enabled /\ ValidRules(stored[i].rules)
      BY <1>1, <1>3, <2>1 DEF GoodRoutines
    <2>5. Len(stored) <= MaxRoutines
      BY <2>1 DEF GoodRoutines
    <2> QED
      BY <2>3, <2>4, <2>5 DEF GoodRoutines, stored
  <1> QED
    BY <1>4, <1>5

LEMMA WithoutIsGood ==
    ASSUME NEW routines \in Seq(Routine), GoodRoutines(routines), NEW i \in DOMAIN routines
    PROVE  GoodRoutines(Without(routines, i))
  <1> DEFINE stored == Without(routines, i)
             Old(k) == IF k < i THEN k ELSE k + 1
  <1>1. Len(routines) \in Nat /\ DOMAIN routines = 1 .. Len(routines)
    BY LenProperties
  <1>2. /\ stored \in Seq(Routine) /\ Len(stored) = Len(routines) - 1
        /\ \A k \in 1 .. Len(routines) - 1 : stored[k] = routines[Old(k)]
    BY WithoutShape
  <1>3. DOMAIN stored = 1 .. Len(routines) - 1
    BY <1>2, LenProperties
  <1> HIDE DEF stored
  <1>4. \A k \in DOMAIN stored : Old(k) \in DOMAIN routines
    BY <1>1, <1>3
  <1>5. ASSUME NEW j \in DOMAIN stored, NEW k \in DOMAIN stored, stored[j].name = stored[k].name
        PROVE  j = k
    <2>1. Old(j) = Old(k)
      BY <1>2, <1>3, <1>4, <1>5 DEF GoodRoutines
    <2> QED
      BY <1>1, <1>3, <2>1
  <1>6. \A k \in DOMAIN stored : stored[k].rules.enabled /\ ValidRules(stored[k].rules)
    <2> HIDE DEF Old
    <2> QED
      BY <1>2, <1>3, <1>4 DEF GoodRoutines
  <1>7. Len(stored) <= MaxRoutines
    BY <1>1, <1>2, BoundsTypes DEF GoodRoutines
  <1> QED
    BY <1>5, <1>6, <1>7 DEF GoodRoutines, stored

LEMMA RulesStepIsGood ==
    ASSUME HouseTypeOK, ConfigInv, SetsRules \/ PreviewsRules
    PROVE  ConfigInv'
  <1>1. CASE SetsRules
    <2>1. PICK rules \in Asked :
              /\ ValidRules(rules) /\ paused' = ~rules.enabled
              /\ config' = [config EXCEPT !.rules = rules]
      BY <1>1 DEF SetsRules, Stores
    <2>2. /\ config'.rules = rules /\ config'.curfew = config.curfew
          /\ config'.routines = config.routines
      BY <2>1 DEF HouseTypeOK, Config
    <2>3. rules.enabled \in BOOLEAN
      BY AskedAssumption DEF RulesType
    <2>4. config'.rules.enabled = ~paused'
      BY <2>1, <2>2, <2>3
    <2> QED
      BY <1>1, <2>1, <2>2, <2>4 DEF SetsRules, ConfigInv
  <1>2. CASE PreviewsRules
    BY <1>2 DEF PreviewsRules, Stores, ConfigInv
  <1> QED
    BY <1>1, <1>2

LEMMA CurfewStepIsGood ==
    ASSUME HouseTypeOK, ConfigInv,
           SetsCurfew \/ ExtendsCurfew \/ UndoesExtension \/ SetsLanguage \/ Gives
    PROVE  ConfigInv'
  <1>1. config \in Config
    BY DEF HouseTypeOK
  <1>2. CASE SetsCurfew
    <2>1. PICK hours \in Bedtimes : hours.valid /\ config' = [config EXCEPT !.curfew.bedtime = hours]
      BY <1>2 DEF SetsCurfew, Stores
    <2>2. /\ config'.rules = config.rules /\ config'.curfew.bedtime = hours
          /\ config'.routines = config.routines
      BY <1>1, <2>1 DEF Config, Curfew
    <2> QED
      BY <1>2, <2>1, <2>2 DEF SetsCurfew, ConfigInv
  <1>3. CASE ExtendsCurfew
    <2>1. PICK until : config' = [config EXCEPT !.curfew.extended = {until}]
      BY <1>3 DEF ExtendsCurfew, Stores
    <2>2. /\ config'.rules = config.rules /\ config'.curfew.bedtime = config.curfew.bedtime
          /\ config'.routines = config.routines
      BY <1>1, <2>1 DEF Config, Curfew
    <2> QED
      BY <1>3, <2>2 DEF ExtendsCurfew, ConfigInv
  <1>4. CASE UndoesExtension
    <2>1. PICK until : config' = [config EXCEPT !.curfew.extended = {until}]
      BY <1>4 DEF UndoesExtension, Stores
    <2>2. /\ config'.rules = config.rules /\ config'.curfew.bedtime = config.curfew.bedtime
          /\ config'.routines = config.routines
      BY <1>1, <2>1 DEF Config, Curfew
    <2> QED
      BY <1>4, <2>2 DEF UndoesExtension, ConfigInv
  <1>5. CASE SetsLanguage
    <2>1. PICK language : config' = [config EXCEPT !.language = language]
      BY <1>5 DEF SetsLanguage, Stores
    <2>2. /\ config'.rules = config.rules /\ config'.curfew = config.curfew
          /\ config'.routines = config.routines
      BY <1>1, <2>1 DEF Config
    <2> QED
      BY <1>5, <2>2 DEF SetsLanguage, ConfigInv
  <1>6. CASE Gives
    <2>1. /\ config'.rules = config.rules /\ config'.curfew = config.curfew
          /\ config'.routines = config.routines
      BY <1>1, <1>6 DEF Gives, Stores, Config
    <2> QED
      BY <1>6, <2>1 DEF Gives, ConfigInv
  <1> QED
    BY <1>2, <1>3, <1>4, <1>5, <1>6

LEMMA RoutineStepIsGood ==
    ASSUME HouseTypeOK, ConfigInv, SavesRoutine \/ BeginsApply \/ AppliesRoutine \/ DeletesRoutine
    PROVE  ConfigInv'
  <1>1. config \in Config /\ config.routines \in Seq(Routine) /\ GoodRoutines(config.routines)
    BY DEF HouseTypeOK, Config, ConfigInv
  <1>2. CASE SavesRoutine
    <2>1. PICK name \in Names \union {BadName}, rules \in Asked, schedule \in Schedules :
              /\ name # BadName /\ ValidRules(rules)
              /\ name \in {r.name : r \in Stored(config)} \/ Len(config.routines) < MaxRoutines
              /\ Stores([config EXCEPT !.routines = WithRoutine(config.routines,
                            [name |-> name, rules |-> Preset(rules), schedule |-> schedule])], {})
      BY <1>2 DEF SavesRoutine
    <2> DEFINE routine == [name |-> name, rules |-> Preset(rules), schedule |-> schedule]
    <2>2. Preset(rules) \in RulesType /\ Preset(rules).enabled /\ ValidRules(Preset(rules))
      BY <2>1, AskedAssumption DEF Preset, RulesType, ValidRules
    <2>3. routine \in Routine /\ routine.rules.enabled /\ ValidRules(routine.rules)
      BY <2>1, <2>2 DEF Routine
    <2>4. NamedAs(config.routines, routine) = {} => name \notin {r.name : r \in Stored(config)}
      BY DEF Stored, NamedAs
    <2>5. config' = [config EXCEPT !.routines = WithRoutine(config.routines, routine)]
      BY <2>1 DEF Stores
    <2> HIDE DEF routine
    <2>6. GoodRoutines(WithRoutine(config.routines, routine))
      BY <1>1, <2>1, <2>3, <2>4, WithRoutineIsGood
    <2>7. /\ config'.rules = config.rules /\ config'.curfew = config.curfew
          /\ config'.routines = WithRoutine(config.routines, routine)
      BY <1>1, <2>5 DEF Config
    <2> QED
      BY <1>2, <2>6, <2>7 DEF SavesRoutine, ConfigInv
  <1>3. CASE BeginsApply
    <2>1. PICK i \in DOMAIN config.routines : applying' = {config.routines[i].rules}
      BY <1>3 DEF BeginsApply, Stored
    <2> QED
      BY <1>1, <1>3, <2>1 DEF BeginsApply, ConfigInv, GoodRoutines
  <1>4. CASE AppliesRoutine
    <2>1. PICK rules \in applying : config' = Applied(rules)
      BY <1>4 DEF AppliesRoutine, Stores
    <2>2. /\ config'.rules = [rules EXCEPT !.enabled = config.rules.enabled]
          /\ config'.curfew = config.curfew /\ config'.routines = config.routines
      BY <1>1, <2>1 DEF Applied, Config
    <2>3. rules \in RulesType /\ ValidRules(rules)
      BY <2>1 DEF HouseTypeOK, ConfigInv
    <2>4. config'.rules.enabled = config.rules.enabled /\ config'.rules.limit = rules.limit
      BY <2>2, <2>3 DEF RulesType
    <2> QED
      BY <1>4, <2>2, <2>3, <2>4 DEF AppliesRoutine, ConfigInv, ValidRules
  <1>5. CASE DeletesRoutine
    <2>1. PICK i \in DOMAIN config.routines :
              config' = [config EXCEPT !.routines = Without(config.routines, i)]
      BY <1>5 DEF DeletesRoutine, Stores
    <2>2. /\ config'.rules = config.rules /\ config'.curfew = config.curfew
          /\ config'.routines = Without(config.routines, i)
      BY <1>1, <2>1 DEF Config
    <2>3. GoodRoutines(Without(config.routines, i))
      BY <1>1, WithoutIsGood
    <2> QED
      BY <1>5, <2>2, <2>3 DEF DeletesRoutine, ConfigInv
  <1> QED
    BY <1>2, <1>3, <1>4, <1>5

LEMMA FileStepIsGood ==
    ASSUME HouseTypeOK, ConfigInv, FileInv, Exports \/ Edits \/ Restores
    PROVE  ConfigInv'
  <1>1. CASE Exports \/ Edits
    <2>1. UNCHANGED <<config, applying, paused>>
      BY <1>1 DEF Exports, Edits, Stores
    <2> QED
      BY <2>1 DEF ConfigInv
  <1>2. CASE Restores
    <2>1. PICK f \in file : ValidPolicy(f.policy) /\ config' = ApplyPolicy(config, f.policy)
      BY <1>2 DEF Restores, Stores
    <2>2. f.policy \in PolicyType /\ config \in Config
      BY <2>1 DEF HouseTypeOK, File
    <2>3. /\ config'.curfew.bedtime = f.policy.curfew.bedtime
          /\ config'.rules = [f.policy.rules EXCEPT !.enabled = config.rules.enabled]
          /\ config'.routines = f.policy.routines
      BY <2>1, <2>2 DEF ApplyPolicy, Config, Curfew
    <2>4. config'.rules.enabled = config.rules.enabled /\ config'.rules.limit = f.policy.rules.limit
      BY <2>2, <2>3 DEF PolicyType, RulesType
    <2> QED
      BY <1>2, <2>1, <2>3, <2>4 DEF Restores, ConfigInv, FileInv, ValidPolicy, ValidRules
  <1> QED
    BY <1>1, <1>2

LEMMA ConfigStep ==
    ASSUME HouseTypeOK, ConfigInv, FileInv, [HouseNext]_houseVars
    PROVE  ConfigInv'
  <1>1. CASE UNCHANGED houseVars \/ CheckingChanges \/ TimePasses
    BY <1>1 DEF houseVars, CheckingChanges, TimePasses, Stores, ConfigInv
  <1> QED
    BY <1>1, RulesStepIsGood, CurfewStepIsGood, RoutineStepIsGood, FileStepIsGood DEF HouseNext

LEMMA FileStep ==
    ASSUME HouseTypeOK, ConfigInv, FileInv, [HouseNext]_houseVars
    PROVE  FileInv'
  <1>1. CASE Exports
    BY <1>1, GoodPolicy DEF Exports, FileInv
  <1>2. CASE Edits
    <2> DEFINE Edited(f) == {[f.policy EXCEPT !.curfew.extended = {Horizon}],
                             [f.policy EXCEPT !.rules.enabled = ~@],
                             [f.policy EXCEPT !.rules.limit = MaxLimit + 1]}
    <2>1. PICK f \in file : \E policy \in Edited(f) :
              file' = {[f EXCEPT !.policy = policy, !.edited = TRUE]}
      BY <1>2 DEF Edits
    <2>0. PICK policy \in Edited(f) : file' = {[f EXCEPT !.policy = policy, !.edited = TRUE]}
      BY <2>1
    <2>2. f \in File
      BY DEF HouseTypeOK
    <2>3. \A g \in file' : g.policy = policy /\ g.edited = TRUE
      BY <2>0, <2>2 DEF File
    <2>4. policy.routines = f.policy.routines
      BY <2>0, <2>2 DEF File, PolicyType
    <2> QED
      BY <2>1, <2>3, <2>4 DEF FileInv
  <1>3. CASE UNCHANGED file
    BY <1>3 DEF FileInv
  <1>4. Exports \/ Edits \/ UNCHANGED file
    BY DEF HouseNext, houseVars, SetsRules, PreviewsRules, SetsCurfew, ExtendsCurfew, UndoesExtension,
           SetsLanguage, SavesRoutine, BeginsApply, AppliesRoutine, DeletesRoutine, Restores, Gives,
           CheckingChanges, TimePasses
  <1> QED
    BY <1>1, <1>2, <1>3, <1>4

\* The rules in force are those of the config, or of a routine of it.
LEMMA RulesAtOf ==
    ASSUME NEW c, NEW d, c.rules = d.rules, c.routines = d.routines, NEW t
    PROVE  RulesAt(c, t) = RulesAt(d, t) /\ ScheduledRoutineAt(c, t) = ScheduledRoutineAt(d, t)
  BY DEF RulesAt, ScheduledRoutineAt

LEMMA PausedOnlyByParent == HouseTypeOK /\ ConfigInv => OnlyTheParentPauses
  <1> SUFFICES ASSUME HouseTypeOK, ConfigInv, NEW t \in Instants
               PROVE  RulesAt(config, t).enabled = ~paused
    BY DEF OnlyTheParentPauses
  <1>1. config.rules.enabled = ~paused /\ paused \in BOOLEAN
    BY DEF ConfigInv, HouseTypeOK
  <1>2. CASE ScheduledRoutineAt(config, t) = {}
    BY <1>1, <1>2 DEF RulesAt
  <1>3. CASE ScheduledRoutineAt(config, t) # {}
    <2>1. config.rules.enabled
      BY <1>3 DEF ScheduledRoutineAt
    <2>2. The(ScheduledRoutineAt(config, t)) \in ScheduledRoutineAt(config, t)
      BY <1>3 DEF The
    <2>3. PICK i \in DOMAIN config.routines : The(ScheduledRoutineAt(config, t)) = config.routines[i]
      BY <2>2 DEF ScheduledRoutineAt
    <2>4. config.routines[i].rules.enabled /\ config.routines[i] \in Routine
      BY ElementOfSeq, LenProperties DEF ConfigInv, GoodRoutines, HouseTypeOK, Config
    <2>5. config.routines[i].rules.enabled = TRUE
      BY <2>4 DEF Routine, RulesType
    <2>6. RulesAt(config, t) = config.routines[i].rules
      BY <1>3, <2>3 DEF RulesAt
    <2> QED
      BY <1>1, <2>1, <2>5, <2>6
  <1> QED
    BY <1>2, <1>3

LEMMA RestoredAsExported == HouseTypeOK /\ FileInv => RestoreIsFaithful
  <1> SUFFICES ASSUME HouseTypeOK, FileInv, NEW f \in file
               PROVE  LET back == ApplyPolicy(config, f.policy)
                          was  == [f.was EXCEPT !.rules.enabled = config.rules.enabled]
                      IN  /\ back.curfew.extended = config.curfew.extended
                          /\ <<back.rules.enabled, back.extra, back.gate>> = <<config.rules.enabled, config.extra, config.gate>>
                          /\ ~f.edited =>
                                /\ ValidPolicy(f.policy)
                                /\ \A t \in Instants : RulesAt(back, t) = RulesAt(was, t)
                                /\ <<back.curfew.bedtime, back.language>> = <<was.curfew.bedtime, was.language>>
    BY DEF RestoreIsFaithful
  <1> DEFINE back == ApplyPolicy(config, f.policy)
             was  == [f.was EXCEPT !.rules.enabled = config.rules.enabled]
  <1>1. config \in Config /\ f.was \in Config /\ f.policy \in PolicyType
    BY DEF HouseTypeOK, File
  <1>2. back = [config EXCEPT !.curfew = [config.curfew EXCEPT !.bedtime = f.policy.curfew.bedtime],
                              !.rules = [f.policy.rules EXCEPT !.enabled = config.rules.enabled],
                              !.routines = f.policy.routines, !.language = f.policy.language]
    BY <1>1 DEF ApplyPolicy, Config
  <1>3. /\ back.curfew = [config.curfew EXCEPT !.bedtime = f.policy.curfew.bedtime]
        /\ back.rules = [f.policy.rules EXCEPT !.enabled = config.rules.enabled]
        /\ back.routines = f.policy.routines /\ back.language = f.policy.language
        /\ back.extra = config.extra /\ back.gate = config.gate
    BY <1>1, <1>2 DEF Config
  <1> HIDE DEF back
  <1>4. back.curfew.extended = config.curfew.extended /\ back.curfew.bedtime = f.policy.curfew.bedtime
    BY <1>1, <1>3 DEF Config, Curfew
  <1>5. back.rules.enabled = config.rules.enabled
    BY <1>1, <1>3 DEF PolicyType, RulesType
  <1>6. /\ was.rules = [f.was.rules EXCEPT !.enabled = config.rules.enabled]
        /\ was.routines = f.was.routines /\ was.curfew = f.was.curfew /\ was.language = f.was.language
    BY <1>1 DEF Config
  <1> HIDE DEF was
  <1>7. ASSUME ~f.edited
        PROVE  /\ ValidPolicy(f.policy)
               /\ \A t \in Instants : RulesAt(back, t) = RulesAt(was, t)
               /\ back.curfew.bedtime = was.curfew.bedtime /\ back.language = was.language
    <2>1. f.policy = Policy(f.was) /\ ValidPolicy(f.policy)
      BY <1>7 DEF FileInv
    <2>2. /\ f.policy.rules = f.was.rules /\ f.policy.routines = f.was.routines
          /\ f.policy.curfew.bedtime = f.was.curfew.bedtime /\ f.policy.language = f.was.language
      BY <1>1, <2>1 DEF Policy, Config, Curfew
    <2>3. back.rules = was.rules /\ back.routines = was.routines
      BY <1>3, <1>6, <2>2
    <2>4. \A t \in Instants : RulesAt(back, t) = RulesAt(was, t)
      BY <2>3, RulesAtOf
    <2> QED
      BY <1>3, <1>4, <1>6, <2>1, <2>2, <2>4
  <1> QED
    BY <1>3, <1>4, <1>5, <1>7 DEF back, was

LEMMA InitIsGood == HouseInit => ConfigInv /\ FileInv
  <1> SUFFICES ASSUME HouseInit PROVE ConfigInv /\ FileInv
    OBVIOUS
  <1>1. PICK hours \in {b \in Bedtimes : b.valid}, gate \in Gates, language \in Languages :
            config = [curfew |-> [bedtime |-> hours, extended |-> {}], rules |-> DefaultRules,
                      routines |-> <<>>, language |-> language, extra |-> 0, gate |-> gate]
    BY DEF HouseInit
  <1>2. config.rules.enabled = ~paused /\ config.curfew.bedtime.valid
    BY <1>1 DEF HouseInit, DefaultRules
  <1>3. ValidRules(config.rules)
    BY <1>1, BoundsTypes DEF DefaultRules, ValidRules
  <1>4. GoodRoutines(config.routines)
    <2>1. config.routines = <<>>
      BY <1>1
    <2>2. Len(config.routines) = 0 /\ DOMAIN config.routines = {}
      BY <2>1
    <2> QED
      BY <2>2, BoundsTypes DEF GoodRoutines
  <1>5. applying = {} /\ file = {}
    BY DEF HouseInit
  <1> QED
    BY <1>2, <1>3, <1>4, <1>5 DEF ConfigInv, FileInv

(* At every instant of the day, whatever routines are saved, applied, deleted *)
(* or restored, enforcement is paused just when the parent last asked for it  *)
(* (config.rs rules_at; api.rs save_routine, apply_routine, set_policy).      *)
THEOREM OnlyTheParentEverPauses == HouseSpec => []OnlyTheParentPauses
  <1>1. HouseSpec => [](HouseTypeOK /\ ConfigInv /\ FileInv)
    BY HouseInitTypes, HouseStepTypes, InitIsGood, ConfigStep, FileStep, PTL DEF HouseSpec
  <1> QED
    BY <1>1, PausedOnlyByParent, PTL

(* What get_policy wrote is taken by set_policy at any later moment, and      *)
(* brings back what was exported, but never tonight's extension, the pause or *)
(* what is of the machine (config.rs policy, apply_policy, Policy::validate). *)
THEOREM RestoreIsAlwaysFaithful == HouseSpec => []RestoreIsFaithful
  <1>1. HouseSpec => [](HouseTypeOK /\ ConfigInv /\ FileInv)
    BY HouseInitTypes, HouseStepTypes, InitIsGood, ConfigStep, FileStep, PTL DEF HouseSpec
  <1> QED
    BY <1>1, RestoredAsExported, PTL

-----------------------------------------------------------------------------
(* What is told, of what was read. *)

\* A limit, of the rules, of what a gate has left and of what was given.
Budget(rules, cap, extra) ==
    IF rules.limit = 0 /\ cap = {} THEN 0
    ELSE extra + (CHOOSE m \in cap \union ({rules.limit} \ {0}) :
                     \A o \in cap \union ({rules.limit} \ {0}) : m <= o)

SpentOf(rules, budget, u) == rules.enabled /\ budget > 0 /\ u >= budget * Minute

EnforcedOf(rules, budget, u) ==
    IF ~rules.enabled THEN "stand down"
    ELSE IF budget = 0 THEN "unlimited"
    ELSE IF u < budget * Minute THEN "counting"
    ELSE rules.action

LeftOf(budget, u) == IF u \div Minute < budget THEN budget - (u \div Minute) ELSE 0

\* The note on an extension.
NoteOf(rules, budget, u) ==
    IF ~rules.enabled \/ rules.action = "warn" \/ budget = 0 THEN {}
    ELSE {m \in {LeftOf(budget, u)} : m < Grant}

LEMMA WholeMinutes ==
    ASSUME NEW u \in Nat, NEW b \in Nat
    PROVE  /\ u < b * Minute <=> u \div Minute < b
           /\ u \div Minute \in Nat /\ b * Minute \in Nat
           /\ (u \div Minute) * Minute <= u /\ u < (u \div Minute + 1) * Minute
  <1> DEFINE q == u \div Minute
             r == u % Minute
  <1>1. q \in Nat /\ r \in 0 .. Minute - 1 /\ u = Minute * q + r
    BY SettingsBoundsAssumption
  <1>2. Minute \in Nat \ {0}
    BY SettingsBoundsAssumption
  <1> HIDE DEF q, r
  <1>3. Minute * q \in Nat /\ b * Minute \in Nat /\ q * Minute = Minute * q
    BY <1>1, <1>2
  <1>4. (q + 1) * Minute = Minute * q + Minute
    BY <1>1, <1>2
  <1>5. CASE q < b
    <2>1. PICK d \in Nat : b = q + 1 + d
      <3>1. b - q - 1 \in Nat /\ b = q + 1 + (b - q - 1)
        BY <1>1, <1>5
      <3> QED
        BY <3>1
    <2>2. b * Minute = (q + 1) * Minute + d * Minute
      BY <1>1, <1>2, <2>1
    <2>3. d * Minute \in Nat
      BY <1>2
    <2>4. u < b * Minute
      BY <1>1, <1>2, <1>3, <1>4, <2>2, <2>3
    <2> QED
      BY <1>1, <1>2, <1>3, <1>4, <1>5, <2>4 DEF q
  <1>6. CASE ~(q < b)
    <2>1. PICK d \in Nat : q = b + d
      <3>1. q - b \in Nat /\ q = b + (q - b)
        BY <1>1, <1>6
      <3> QED
        BY <3>1
    <2>2. q * Minute = b * Minute + d * Minute
      BY <1>1, <1>2, <2>1
    <2>3. d * Minute \in Nat
      BY <1>2
    <2>4. ~(u < b * Minute)
      BY <1>1, <1>2, <1>3, <2>2, <2>3
    <2> QED
      BY <1>1, <1>2, <1>3, <1>4, <1>6, <2>4 DEF q
  <1> QED
    BY <1>5, <1>6

LEMMA Reads ==
    ASSUME NEW c, NEW rules
    PROVE  /\ Effective(rules, c) = Budget(rules, GateCap(c), c.extra)
           /\ SpentToday(rules, c) <=> SpentOf(rules, Effective(rules, c), used)
           /\ Enforced(c) = EnforcedOf(RulesAt(c, now), Effective(RulesAt(c, now), c), used)
           /\ UsedMins = used \div Minute
  BY DEF Effective, Budget, SpentToday, SpentOf, Enforced, EnforcedOf, UsedMins

LEMMA StopsWhenSpent ==
    ASSUME NEW rules \in RulesType, NEW budget \in Nat, NEW u \in Nat
    PROVE  /\ EnforcedOf(rules, budget, u) \in Stopping <=> SpentOf(rules, budget, u)
           /\ SpentOf(rules, budget, u) <=> rules.enabled /\ budget # 0 /\ LeftOf(budget, u) = 0
           /\ EnforcedOf(rules, budget, u) = "lock" <=> SpentOf(rules, budget, u) /\ rules.action = "lock"
           /\ LeftOf(budget, u) \in Nat
  <1>1. /\ u < budget * Minute <=> u \div Minute < budget
        /\ u \div Minute \in Nat /\ budget * Minute \in Nat
    BY WholeMinutes
  <1>2. rules.action \in Stopping
    BY DEF RulesType
  <1> DEFINE whole == u \div Minute
             most == budget * Minute
  <1>3. EnforcedOf(rules, budget, u) = IF ~rules.enabled THEN "stand down"
                                       ELSE IF budget = 0 THEN "unlimited"
                                       ELSE IF u < most THEN "counting"
                                       ELSE rules.action
    BY DEF EnforcedOf
  <1>4. SpentOf(rules, budget, u) <=> rules.enabled /\ budget > 0 /\ u >= most
    BY DEF SpentOf
  <1>5. LeftOf(budget, u) = IF whole < budget THEN budget - whole ELSE 0
    BY DEF LeftOf
  <1>6. /\ u < most <=> whole < budget
        /\ whole \in Nat /\ most \in Nat
    BY <1>1
  <1> HIDE DEF whole, most
  <1>7. u >= most <=> ~(u < most)
    BY <1>6
  <1>8. budget > 0 <=> budget # 0
    OBVIOUS
  <1>9. LeftOf(budget, u) = 0 <=> ~(whole < budget)
    BY <1>5, <1>6
  <1>10. LeftOf(budget, u) \in Nat
    BY <1>5, <1>6
  <1>11. SpentOf(rules, budget, u) <=> rules.enabled /\ budget # 0 /\ ~(u < most)
    BY <1>4, <1>7, <1>8
  <1>12. EnforcedOf(rules, budget, u) \in Stopping <=> rules.enabled /\ budget # 0 /\ ~(u < most)
    BY <1>2, <1>3 DEF Stopping
  <1>13. EnforcedOf(rules, budget, u) = "lock" <=>
             rules.enabled /\ budget # 0 /\ ~(u < most) /\ rules.action = "lock"
    BY <1>2, <1>3 DEF Stopping
  <1> QED
    BY <1>6, <1>9, <1>10, <1>11, <1>12, <1>13

\* Of the routines there are, those with the badge are the one in force.
LEMMA ActiveIsScheduled ==
    ASSUME HouseTypeOK, ConfigInv
    PROVE  /\ ActiveNow = ScheduledRoutineAt(config, now)
           /\ \A r, s \in ScheduledRoutineAt(config, now) : r = s
  <1> DEFINE inForce == ScheduledRoutineAt(config, now)
             matching == {i \in DOMAIN config.routines : Covers(config.routines[i], now)}
  <1>1. DOMAIN config.routines \subseteq Nat
    BY LenProperties DEF HouseTypeOK, Config
  <1>2. inForce \subseteq Stored(config)
    BY DEF ScheduledRoutineAt, Stored
  <1>3. \A r, s \in Stored(config) : r.name = s.name => r = s
    BY DEF Stored, ConfigInv, GoodRoutines
  <1>4. \A r, s \in inForce : r = s
    <2>1. ASSUME NEW i \in matching, NEW j \in matching,
                 \A o \in matching : i <= o, \A o \in matching : j <= o
          PROVE  i = j
      BY <1>1, <2>1
    <2> QED
      BY <2>1 DEF ScheduledRoutineAt
  <1> HIDE DEF inForce
  <1>5. ActiveNow = {r \in Stored(config) : r.name \in {s.name : s \in inForce}}
    BY DEF ActiveNow, inForce
  <1> QED
    BY <1>2, <1>3, <1>4, <1>5 DEF inForce

LEMMA CardsAreRight == HouseTypeOK /\ ConfigInv => CardsAgree
  <1> SUFFICES ASSUME HouseTypeOK, ConfigInv PROVE CardsAgree
    OBVIOUS
  <1> DEFINE rules   == RulesAt(config, now)
             budget  == Effective(rules, config)
             inForce == ScheduledRoutineAt(config, now)
             names   == {r.name : r \in inForce}
             did     == Enforced(config)
  <1>1. config \in Config /\ used \in Nat
    BY BoundsTypes DEF HouseTypeOK, Instants
  <1>2. rules \in RulesType /\ budget \in Nat
    BY <1>1, RulesInForceTypes, BudgetTypes
  <1>3. did = EnforcedOf(rules, budget, used)
    BY Reads
  <1>4. UsageToday = [enabled |-> rules.enabled, remaining |-> RemainingMins(budget), active |-> names]
    BY DEF UsageToday, TodayCard
  <1>5. RemainingMins(budget) = IF budget = 0 THEN {} ELSE {LeftOf(budget, used)}
    BY DEF RemainingMins, LeftOf, UsedMins
  <1>6. ChildStatus = [limited |-> rules.enabled /\ budget > 0,
                       remaining |-> IF budget = 0 THEN 0 ELSE The(RemainingMins(budget))]
    BY DEF ChildStatus
  <1>7. ActiveNow = inForce /\ \A r, s \in inForce : r = s
    BY ActiveIsScheduled
  <1>8. \A r \in inForce : rules = r.rules
    BY <1>7 DEF RulesAt, The
  <1>9. Cardinality(inForce) = Cardinality(names)
    <2>1. CASE inForce = {}
      <3>1. names = {}
        BY <2>1
      <3> QED
        BY <2>1, <3>1
    <2>2. CASE inForce # {}
      <3>1. PICK r \in inForce : TRUE
        BY <2>2
      <3>2. inForce = {r} /\ names = {r.name}
        BY <1>7, <3>1
      <3>3. Cardinality({r}) = 1 /\ Cardinality({r.name}) = 1
        BY FS_Singleton
      <3> QED
        BY <3>2, <3>3
    <2> QED
      BY <2>1, <2>2
  <1>10. /\ did \in Stopping <=> rules.enabled /\ budget # 0 /\ LeftOf(budget, used) = 0
         /\ LeftOf(budget, used) \in Nat
    <2> HIDE DEF rules, budget, did
    <2>1. /\ EnforcedOf(rules, budget, used) \in Stopping <=> SpentOf(rules, budget, used)
          /\ SpentOf(rules, budget, used) <=> rules.enabled /\ budget # 0 /\ LeftOf(budget, used) = 0
          /\ LeftOf(budget, used) \in Nat
      BY <1>1, <1>2, StopsWhenSpent
    <2> QED
      BY <1>3, <2>1
  <1> DEFINE card == UsageToday
             child == ChildStatus
             left == LeftOf(budget, used)
             shown == RemainingMins(budget)
  <1>11. /\ card.enabled = rules.enabled /\ card.remaining = shown /\ card.active = names
         /\ child.limited = (rules.enabled /\ budget > 0)
         /\ child.remaining = IF budget = 0 THEN 0 ELSE The(shown)
    BY <1>4, <1>6
  <1>12. budget # 0 => shown = {left} /\ The(shown) = left
    BY <1>5 DEF The
  <1>13. budget = 0 => shown = {}
    BY <1>5
  <1>14. budget > 0 <=> budget # 0
    BY <1>2
  <1> HIDE DEF rules, budget, inForce, names, did, card, child, left, shown
  <1>15. did \in Stopping <=> card.enabled /\ card.remaining = {0}
    BY <1>10, <1>11, <1>12, <1>13 DEF left
  <1>16. did \in Stopping <=> child.limited /\ child.remaining = 0
    BY <1>10, <1>11, <1>12, <1>14 DEF left
  <1>17. child.limited => card.remaining = {child.remaining}
    BY <1>11, <1>12, <1>14
  <1> QED
    BY <1>7, <1>8, <1>9, <1>11, <1>15, <1>16, <1>17 DEF CardsAgree, rules, did, card, child

\* An answer stands while what it was computed from does.
AnswerHolds(t) ==
    /\ t.kind = "preview" => (t.over <=> Preview(t.rules))
    /\ t.kind = "saved" => (t.over <=> Enforced(config) \in Stopping)
    /\ t.kind = "extended" =>
          /\ t.used <= used
          /\ t.note = NoteOf(t.decided[1], Budget(t.decided[1], t.decided[2], config.extra), t.used)

ToldInv == \A t \in told : AnswerHolds(t)

LEMMA AnswerTypes ==
    ASSUME NEW t \in Answer
    PROVE  /\ t.kind \in {"saved", "preview", "extended"}
           /\ t.kind = "extended" => t.used \in Nat /\ t.note \subseteq Nat
  BY DEF Answer

\* The same, of the config, the instant, whether the gate can be checked, and the time used.
CapOf(c, on) == IF on THEN c.gate ELSE {}
BudgetIn(c, t, on) == Budget(RulesAt(c, t), CapOf(c, on), c.extra)
SpentIn(c, t, on, u) == SpentOf(RulesAt(c, t), BudgetIn(c, t, on), u)
EnforcedIn(c, t, on, u) == EnforcedOf(RulesAt(c, t), BudgetIn(c, t, on), u)

LEMMA ReadsAsBefore ==
    /\ \A c : GateCap(c) = CapOf(c, checking) /\ GateCap(c)' = CapOf(c, checking')
    /\ \A c : Effective(RulesAt(c, now), c) = BudgetIn(c, now, checking)
    /\ Enforced(config) = EnforcedIn(config, now, checking, used)
    /\ Enforced(config)' = EnforcedIn(config', now', checking', used')
    /\ \A r : Preview(r) <=> SpentIn([config EXCEPT !.rules = r], now, checking, used)
    /\ \A r : Preview(r)' <=> SpentIn([config' EXCEPT !.rules = r], now', checking', used')
  <1>1. \A c : GateCap(c) = CapOf(c, checking) /\ GateCap(c)' = CapOf(c, checking')
    BY DEF GateCap, CapOf
  <1>2. \A c : Effective(RulesAt(c, now), c) = BudgetIn(c, now, checking)
    BY DEF Effective, BudgetIn, Budget, GateCap, CapOf
  <1>3. Enforced(config) = EnforcedIn(config, now, checking, used)
    BY DEF Enforced, EnforcedIn, EnforcedOf, Effective, BudgetIn, Budget, GateCap, CapOf
  <1>4. Enforced(config)' = EnforcedIn(config', now', checking', used')
    BY DEF Enforced, EnforcedIn, EnforcedOf, Effective, BudgetIn, Budget, GateCap, CapOf
  <1>5. \A r : Preview(r) <=> SpentIn([config EXCEPT !.rules = r], now, checking, used)
    BY DEF Preview, SpentToday, SpentIn, SpentOf, Effective, BudgetIn, Budget, GateCap, CapOf
  <1>6. \A r : Preview(r)' <=> SpentIn([config' EXCEPT !.rules = r], now', checking', used')
    BY DEF Preview, SpentToday, SpentIn, SpentOf, Effective, BudgetIn, Budget, GateCap, CapOf
  <1> QED
    BY <1>1, <1>2, <1>3, <1>4, <1>5, <1>6

\* What was told stands while nothing is asked for.
LEMMA ToldStands ==
    ASSUME ToldInv, told' \subseteq told, UNCHANGED <<config, now, used, checking>>
    PROVE  ToldInv'
  <1> SUFFICES ASSUME NEW t \in told' PROVE AnswerHolds(t)'
    BY DEF ToldInv
  <1>1. AnswerHolds(t)
    BY DEF ToldInv
  <1>2. /\ Preview(t.rules)' <=> Preview(t.rules)
        /\ Enforced(config)' = Enforced(config)
    BY ReadsAsBefore
  <1> QED
    BY <1>1, <1>2 DEF AnswerHolds

LEMMA BudgetInTypes ==
    ASSUME NEW c \in Config
    PROVE  RulesAt(c, now) \in RulesType /\ BudgetIn(c, now, checking) \in Nat
  BY RulesInForceTypes, BudgetTypes, ReadsAsBefore

\* What a preview said comes true when the rules it was of are saved.
LEMMA SaveIsToldTruly ==
    ASSUME HouseTypeOK, ToldInv, SetsRules
    PROVE  ToldInv'
  <1>1. PICK rules \in Asked :
            /\ config' = [config EXCEPT !.rules = rules]
            /\ told' = {[kind |-> "saved", over |-> t.over] :
                            t \in {u \in told : u.kind = "preview" /\ u.rules = rules}}
    BY DEF SetsRules, Stores
  <1>2. UNCHANGED <<now, used, checking>>
    BY DEF SetsRules, Rest
  <1>3. config' \in Config /\ used \in Nat
    <2>1. rules \in RulesType
      BY AskedAssumption
    <2> QED
      BY <1>1, <2>1, ConfigOf, BoundsTypes DEF HouseTypeOK, Instants
  <1>4. Enforced(config)' \in Stopping <=> SpentIn(config', now, checking, used)
    <2>1. RulesAt(config', now) \in RulesType /\ BudgetIn(config', now, checking) \in Nat
      BY <1>3, BudgetInTypes
    <2>2. Enforced(config)' = EnforcedIn(config', now, checking, used)
      BY <1>2, ReadsAsBefore
    <2> DEFINE rules1 == RulesAt(config', now)
               budget == BudgetIn(config', now, checking)
    <2>3. Enforced(config)' = EnforcedOf(rules1, budget, used)
      BY <2>2 DEF EnforcedIn
    <2>4. SpentIn(config', now, checking, used) <=> SpentOf(rules1, budget, used)
      BY DEF SpentIn
    <2> HIDE DEF rules1, budget
    <2>5. EnforcedOf(rules1, budget, used) \in Stopping <=> SpentOf(rules1, budget, used)
      BY <1>3, <2>1, StopsWhenSpent DEF rules1, budget
    <2> QED
      BY <2>3, <2>4, <2>5
  <1>5. ASSUME NEW t \in told'
        PROVE  AnswerHolds(t)'
    <2>1. PICK u \in told : u.kind = "preview" /\ u.rules = rules /\ t = [kind |-> "saved", over |-> u.over]
      BY <1>1
    <2>2. u.over <=> Preview(rules)
      BY <2>1 DEF ToldInv, AnswerHolds
    <2>3. Preview(rules) <=> SpentIn(config', now, checking, used)
      BY <1>1, ReadsAsBefore
    <2>4. t.kind = "saved" /\ (t.over <=> u.over)
      BY <2>1
    <2>5. t.over <=> Enforced(config)' \in Stopping
      BY <1>4, <2>2, <2>3, <2>4
    <2>6. t.kind # "preview" /\ t.kind # "extended"
      BY <2>4
    <2> QED
      BY <2>5, <2>6 DEF AnswerHolds, Stopping
  <1> QED
    BY <1>5 DEF ToldInv

LEMMA PreviewIsToldTruly ==
    ASSUME HouseTypeOK, ToldInv, PreviewsRules
    PROVE  ToldInv'
  <1>1. PICK candidate \in Asked :
            /\ config' = config
            /\ told' = {[kind |-> "preview", rules |-> candidate, over |-> Preview(candidate)]}
    BY DEF PreviewsRules, Stores
  <1>2. UNCHANGED <<now, used, checking>>
    BY DEF PreviewsRules, Rest
  <1>3. Preview(candidate)' <=> Preview(candidate)
    BY <1>1, <1>2, ReadsAsBefore
  <1>4. ASSUME NEW t \in told'
        PROVE  AnswerHolds(t)'
    <2>1. t.kind = "preview" /\ t.rules = candidate /\ (t.over <=> Preview(candidate))
      BY <1>1
    <2>2. t.over <=> Preview(t.rules)'
      BY <1>3, <2>1
    <2> QED
      BY <2>1, <2>2 DEF AnswerHolds
  <1> QED
    BY <1>4 DEF ToldInv

LEMMA NoteIsToldTruly ==
    ASSUME HouseTypeOK, ToldInv, ExtendsCurfew
    PROVE  ToldInv'
  <1> DEFINE base  == {t \in config.curfew.extended : t > now}
             until == (IF base = {} THEN now ELSE The(base)) + Grant * Minute
             c     == [config EXCEPT !.curfew.extended = {until}]
             answer == [kind |-> "extended", note |-> CutsExtensionShort(Grant, c),
                        used |-> used, decided |-> <<RulesAt(c, now), GateCap(c)>>]
  <1>1. config' = c /\ told' = {answer}
    BY DEF ExtendsCurfew, Stores
  <1>2. c.extra = config.extra
    BY DEF HouseTypeOK, Config
  <1> HIDE DEF base, until
  <1>3. UNCHANGED <<now, used, checking>>
    BY DEF ExtendsCurfew, Rest
  <1>4. config'.extra = config.extra
    BY <1>1, <1>2
  <1> HIDE DEF c
  <1>5. CutsExtensionShort(Grant, c) = NoteOf(RulesAt(c, now), Effective(RulesAt(c, now), c), used)
    BY DEF CutsExtensionShort, NoteOf, RemainingMins, LeftOf, UsedMins
  <1>6. Effective(RulesAt(c, now), c) = Budget(RulesAt(c, now), GateCap(c), c.extra)
    BY Reads
  <1>7. /\ answer.kind = "extended" /\ answer.used = used /\ answer.note = CutsExtensionShort(Grant, c)
        /\ answer.decided[1] = RulesAt(c, now) /\ answer.decided[2] = GateCap(c)
    OBVIOUS
  <1> HIDE DEF answer
  <1>8. used' = used /\ used \in Nat
    BY <1>3, BoundsTypes DEF HouseTypeOK, Instants
  <1>9. answer.note = NoteOf(answer.decided[1],
                             Budget(answer.decided[1], answer.decided[2], config'.extra), answer.used)
    BY <1>2, <1>4, <1>5, <1>6, <1>7
  <1>10. ASSUME NEW t \in told'
         PROVE  AnswerHolds(t)'
    <2>1. t.kind = "extended" /\ t.used <= used'
      BY <1>1, <1>7, <1>8
    <2>2. t.note = NoteOf(t.decided[1], Budget(t.decided[1], t.decided[2], config'.extra), t.used)
      BY <1>1, <1>9
    <2> QED
      BY <2>1, <2>2 DEF AnswerHolds
  <1> QED
    BY <1>10 DEF ToldInv

\* A note is left standing while the time and the gate change.
LEMMA NotesStand ==
    ASSUME HouseTypeOK, ToldInv, CheckingChanges \/ TimePasses
    PROVE  ToldInv'
  <1>1. told' = {t \in told : t.kind = "extended"} /\ config' = config
    BY DEF CheckingChanges, TimePasses, Stores
  <1>2. used' \in {used, used + 1} /\ used \in Nat
    BY BoundsTypes DEF CheckingChanges, TimePasses, HouseTypeOK, Instants
  <1>3. ASSUME NEW t \in told'
        PROVE  AnswerHolds(t)'
    <2>1. t \in Answer /\ t.kind = "extended" /\ AnswerHolds(t)
      BY <1>1 DEF ToldInv, HouseTypeOK
    <2>2. t.used \in Nat
      BY <2>1, AnswerTypes
    <2>3. t.used <= used
      BY <2>1 DEF AnswerHolds
    <2>4. t.used <= used'
      BY <1>2, <2>2, <2>3
    <2>5. t.note = NoteOf(t.decided[1], Budget(t.decided[1], t.decided[2], config'.extra), t.used)
      BY <1>1, <2>1 DEF AnswerHolds
    <2> QED
      BY <2>1, <2>4, <2>5 DEF AnswerHolds
  <1> QED
    BY <1>3 DEF ToldInv

LEMMA ToldStep ==
    ASSUME HouseTypeOK, ToldInv, [HouseNext]_houseVars
    PROVE  ToldInv'
  <1>1. CASE SetsCurfew \/ UndoesExtension \/ SetsLanguage \/ SavesRoutine \/ AppliesRoutine
             \/ DeletesRoutine \/ Restores \/ Gives
    <2>1. told' = {}
      BY <1>1 DEF SetsCurfew, UndoesExtension, SetsLanguage, SavesRoutine, AppliesRoutine,
                  DeletesRoutine, Restores, Gives, Stores
    <2> QED
      BY <2>1 DEF ToldInv
  <1>2. CASE UNCHANGED houseVars \/ Exports \/ Edits \/ BeginsApply
    <2>1. told' = told /\ UNCHANGED <<config, now, used, checking>>
      BY <1>2 DEF houseVars, Exports, Edits, BeginsApply, Stores, Rest
    <2> QED
      BY <2>1, ToldStands
  <1> QED
    BY <1>1, <1>2, SaveIsToldTruly, PreviewIsToldTruly, NoteIsToldTruly, NotesStand DEF HouseNext

LEMMA PreviewsAreRight == ToldInv => PreviewsComeTrue
  BY DEF ToldInv, AnswerHolds, PreviewsComeTrue

\* What is left of a limit, in minutes begun, lasts no longer and less than a minute shorter.
LEMMA LeftLasts ==
    ASSUME NEW budget \in Nat, NEW u \in Nat, NEW after \in Nat, u <= after,
           NEW left, left = LeftOf(budget, u)
    PROVE  /\ after - u >= left * Minute => after >= budget * Minute
           /\ after >= budget * Minute => after - u > (left - 1) * Minute
           /\ left \in Nat
  <1> DEFINE q == u \div Minute
  <1>1. /\ q \in Nat /\ q * Minute <= u /\ u < (q + 1) * Minute
        /\ u < budget * Minute <=> q < budget
        /\ budget * Minute \in Nat
    BY WholeMinutes
  <1>2. left = IF q < budget THEN budget - q ELSE 0
    BY DEF LeftOf
  <1>3. Minute \in Nat \ {0}
    BY SettingsBoundsAssumption
  <1> HIDE DEF q
  <1>4. CASE q < budget
    <2>1. left * Minute = budget * Minute - q * Minute
      BY <1>1, <1>2, <1>3, <1>4
    <2>2. (left - 1) * Minute = budget * Minute - (q + 1) * Minute
      BY <1>1, <1>2, <1>3, <1>4
    <2>3. q * Minute \in Nat /\ (q + 1) * Minute \in Nat
      BY <1>1, <1>3
    <2>4. left \in Nat
      BY <1>1, <1>2, <1>4
    <2> QED
      BY <1>1, <2>1, <2>2, <2>3, <2>4
  <1>5. CASE ~(q < budget)
    <2>1. left = 0 /\ left * Minute = 0 /\ (left - 1) * Minute = -Minute
      BY <1>2, <1>3, <1>5
    <2>2. u >= budget * Minute
      BY <1>1, <1>5
    <2> QED
      BY <1>1, <1>3, <2>1, <2>2
  <1> QED
    BY <1>4, <1>5

LEMMA LocksWhenSpent ==
    ASSUME NEW rules \in RulesType, NEW budget \in Nat, NEW u \in Nat
    PROVE  EnforcedOf(rules, budget, u) = "lock" <=> SpentOf(rules, budget, u) /\ rules.action = "lock"
  BY StopsWhenSpent

LEMMA NotesAreRight == HouseTypeOK /\ ToldInv => NotesHold
  <1> SUFFICES ASSUME HouseTypeOK, ToldInv, NEW t \in told, t.kind = "extended",
                      t.decided = <<RulesAt(config, now), GateCap(config)>>
               PROVE  LET since == used - t.used
                          stops == Enforced(config) = "lock"
                      IN  /\ \A left \in t.note : since >= left * Minute => stops
                          /\ stops => \E m \in (IF t.note = {} THEN {Grant} ELSE t.note) :
                                          since > (m - 1) * Minute
    BY DEF NotesHold
  <1> DEFINE rules  == RulesAt(config, now)
             budget == Effective(rules, config)
             since  == used - t.used
             left   == LeftOf(budget, t.used)
             stops  == Enforced(config) = "lock"
  <1>1. config \in Config /\ used \in Nat /\ t \in Answer /\ t.used \in Nat /\ t.used <= used
    <2>1. t \in Answer /\ AnswerHolds(t)
      BY DEF HouseTypeOK, ToldInv
    <2>2. t.used \in Nat
      BY <2>1, AnswerTypes
    <2>3. t.used <= used
      BY <2>1 DEF AnswerHolds
    <2> QED
      BY <2>1, <2>2, <2>3, BoundsTypes DEF HouseTypeOK, Instants
  <1>2. rules \in RulesType /\ budget \in Nat
    BY <1>1, RulesInForceTypes, BudgetTypes
  <1>3. t.decided[1] = rules /\ t.decided[2] = GateCap(config)
    OBVIOUS
  <1>4. t.note = NoteOf(rules, budget, t.used)
    <2>1. t.note = NoteOf(t.decided[1], Budget(t.decided[1], t.decided[2], config.extra), t.used)
      BY DEF ToldInv, AnswerHolds
    <2>2. budget = Budget(rules, GateCap(config), config.extra)
      BY Reads
    <2> QED
      BY <1>3, <2>1, <2>2
  <1>5. Enforced(config) = EnforcedOf(rules, budget, used)
    BY Reads
  <1> HIDE DEF rules, budget
  <1>6. stops <=> SpentOf(rules, budget, used) /\ rules.action = "lock"
    <2>1. EnforcedOf(rules, budget, used) = "lock" <=> SpentOf(rules, budget, used) /\ rules.action = "lock"
      BY <1>1, <1>2, LocksWhenSpent
    <2> QED
      BY <1>5, <2>1
  <1>7. rules.action \in Stopping
    BY <1>2 DEF RulesType
  <1>8. budget * Minute \in Nat
    BY <1>2, BoundsTypes
  <1>9. CASE ~rules.enabled \/ rules.action = "warn" \/ budget = 0
    <2>1. t.note = {}
      BY <1>4, <1>9 DEF NoteOf
    <2>2. ~stops
      BY <1>2, <1>6, <1>9 DEF SpentOf
    <2> QED
      BY <2>1, <2>2
  <1>10. CASE ~(~rules.enabled \/ rules.action = "warn" \/ budget = 0)
    <2>1. stops <=> used >= budget * Minute
      <3>1. rules.action = "lock"
        BY <1>7, <1>10 DEF Stopping
      <3>2. budget > 0
        BY <1>2, <1>10
      <3> QED
        BY <1>6, <1>10, <3>1, <3>2 DEF SpentOf
    <2>2. t.note = {m \in {left} : m < Grant}
      BY <1>4, <1>10 DEF NoteOf
    <2>3. /\ since >= left * Minute => stops
          /\ stops => since > (left - 1) * Minute
          /\ left \in Nat
      BY <1>1, <1>2, <2>1, LeftLasts
    <2>4. \A m \in t.note : m = left
      BY <2>2
    <2> HIDE DEF stops, since, left
    <2>5. CASE left < Grant
      <3>1. t.note = {left}
        BY <2>2, <2>5
      <3> QED
        BY <2>3, <2>4, <3>1 DEF stops, since
    <2>6. CASE ~(left < Grant)
      <3>1. t.note = {}
        BY <2>2, <2>6
      <3>2. stops => since > (Grant - 1) * Minute
        <4>1. PICK d \in Nat : left = Grant + d
          <5>1. left - Grant \in Nat /\ left = Grant + (left - Grant)
            BY <2>3, <2>6, BoundsTypes
          <5> QED
            BY <5>1
        <4>2. (left - 1) * Minute = (Grant - 1) * Minute + d * Minute
          BY <4>1, BoundsTypes
        <4>3. d * Minute \in Nat /\ (Grant - 1) * Minute \in Int /\ since \in Int
          BY <1>1, BoundsTypes DEF since
        <4> QED
          BY <2>3, <4>2, <4>3
      <3> QED
        BY <3>1, <3>2 DEF stops, since
    <2> QED
      BY <2>5, <2>6
  <1> QED
    BY <1>9, <1>10

LEMMA InitIsTold == HouseInit => ToldInv
  BY DEF HouseInit, ToldInv

(* The card, the child's page, the badges, a preview and the note on an       *)
(* extension are right of what the enforcer does, for every length of a       *)
(* minute, limit, gate and schedule (rules.rs effective_budget_mins,          *)
(* spent_today, remaining_mins, budget_cuts_extension_short).                 *)
THEOREM WhatIsToldIsAlwaysEnforced == HouseSpec => []ToldWhatIsEnforced
  <1>1. HouseSpec => [](HouseTypeOK /\ ConfigInv /\ FileInv /\ ToldInv)
    BY HouseInitTypes, HouseStepTypes, InitIsGood, ConfigStep, FileStep, InitIsTold, ToldStep, PTL DEF HouseSpec
  <1>2. HouseTypeOK /\ ConfigInv /\ FileInv /\ ToldInv => ToldWhatIsEnforced
    BY CardsAreRight, PreviewsAreRight, NotesAreRight DEF ToldWhatIsEnforced
  <1> QED
    BY <1>1, <1>2, PTL

=============================================================================
