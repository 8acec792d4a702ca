---------------------------- MODULE ConfigStore ----------------------------
(***************************************************************************)
(* try_update_config, the one place where the config is changed and saved, *)
(* with the save it leaves to the blocking pool, the handlers that wait    *)
(* for config_save_lock, and the enforcer loops that read the config       *)
(* whenever they like and are woken when it has changed.                   *)
(***************************************************************************)
EXTENDS Options

CONSTANTS
    Callers,      \* handlers, each with one request at a time
    Configs, FirstConfig,
    Jobs,         \* the closures passed as `mutate`: what each makes of a config, or none for Err
    SavesFail,    \* whether Config::save may fail
    Restarts,     \* whether the service may be restarted
    Drops         \* where a handler's future may be dropped because its client is gone:
                  \* "queued" while it waits for the lock, "saving" while it waits for the save

ASSUME FirstAssumption == FirstConfig \in Configs
ASSUME JobsAssumption == Jobs \subseteq [Configs -> Option(Configs)]
ASSUME FailuresAssumption == /\ {SavesFail, Restarts} \subseteq BOOLEAN
                             /\ Drops \subseteq {"queued", "saving"}

VARIABLES
    memory,        \* AppState::config
    disk,          \* config.json
    lock,          \* who holds config_save_lock
    previous,      \* the config its holder would put back
    step, job,     \* how far each handler is, and what it was asked for
    saves,         \* the snapshot each handler has given to the blocking pool
    woken, seen,   \* enforcement_wake, and the config an enforcer loop has last read
    undone         \* history: whether a change was taken back since then

handlerVars == <<step, job>>
loopVars == <<woken, seen, undone>>
vars == <<memory, disk, lock, previous, handlerVars, saves, loopVars>>

Holding == {"saving", "saved", "unsaved"}
Answered == {"ok", "failed"}
Steps == {"idle", "queued"} \union Holding \union Answered

TypeOK ==
    /\ memory \in Configs /\ disk \in Configs
    /\ lock \in Option(Callers) /\ previous \in Option(Configs)
    /\ step \in [Callers -> Steps] /\ job \in [Callers -> Jobs]
    /\ saves \in [Callers -> Option(Configs)]
    /\ \A c \in Callers : saves[c] # {} => step[c] \in {"saving", "idle"}
    /\ woken \in BOOLEAN /\ seen \in Option(Configs) /\ undone \in BOOLEAN

Init ==
    /\ memory = FirstConfig /\ disk = FirstConfig
    /\ lock = {} /\ previous = {}
    /\ step = [c \in Callers |-> "idle"] /\ job \in [Callers -> Jobs]
    /\ saves = [c \in Callers |-> {}]
    /\ woken = FALSE /\ seen = {} /\ undone = FALSE

-----------------------------------------------------------------------------
(* The handlers. *)

Moves(c, from, to) == step[c] = from /\ step' = [step EXCEPT ![c] = to]

\* A client that is gone sends nothing more until the save it left behind has ended: a bound.
Asks(c) ==
    /\ step[c] \in {"idle"} \union Answered /\ saves[c] = {}
    /\ step' = [step EXCEPT ![c] = "queued"]
    /\ \E j \in Jobs : job' = [job EXCEPT ![c] = j]
    /\ UNCHANGED <<memory, disk, lock, previous, saves, loopVars>>

\* The closure rejects the request, and has changed nothing.
Refuses(c) ==
    /\ lock = {} /\ Moves(c, "queued", "failed")
    /\ job[c][memory] = {}
    /\ UNCHANGED <<memory, disk, lock, previous, job, saves, loopVars>>

\* Nothing changed: no save, and nobody is woken.
Skips(c) ==
    /\ lock = {} /\ Moves(c, "queued", "ok")
    /\ job[c][memory] = {memory}
    /\ UNCHANGED <<memory, disk, lock, previous, job, saves, loopVars>>

\* Wrong on purpose: the mutex is let go with the write guard.
ChangesUnlocked(c) ==
    /\ lock = {} /\ Moves(c, "queued", "saving")
    /\ \E new \in job[c][memory] \ {memory} :
         memory' = new /\ saves' = [saves EXCEPT ![c] = {new}]
    /\ previous' = {memory}
    /\ UNCHANGED <<disk, lock, job, loopVars>>

\* Changed in memory, and the snapshot given to the blocking pool.
Changes(c) ==
    /\ lock = {} /\ Moves(c, "queued", "saving")
    /\ \E new \in job[c][memory] \ {memory} :
         memory' = new /\ saves' = [saves EXCEPT ![c] = {new}]
    /\ lock' = {c} /\ previous' = {memory}
    /\ UNCHANGED <<disk, job, loopVars>>

\* Config::save on the blocking pool, whoever still waits for it.
SaveEnds(c, outcome) ==
    /\ saves' = [saves EXCEPT ![c] = {}]
    /\ step' = IF step[c] = "saving" THEN [step EXCEPT ![c] = outcome] ELSE step
    /\ UNCHANGED <<memory, lock, previous, job, loopVars>>

SaveLands(c) ==
    /\ \E snapshot \in saves[c] : disk' = snapshot
    /\ SaveEnds(c, "saved")

SaveFails(c) ==
    /\ SavesFail /\ saves[c] # {}
    /\ SaveEnds(c, "unsaved")
    /\ UNCHANGED disk

Confirms(c) ==
    /\ Moves(c, "saved", "ok")
    /\ lock' = {} /\ previous' = {}
    /\ woken' = TRUE
    /\ UNCHANGED <<memory, disk, job, saves, seen, undone>>

\* Wrong on purpose: the change that could not be saved stays.
KeepsUnsaved(c) ==
    /\ Moves(c, "unsaved", "failed")
    /\ lock' = {} /\ previous' = {}
    /\ UNCHANGED <<memory, disk, job, saves, loopVars>>

\* Wrong on purpose: the early return of the error forgets the lock.
TakesBackLocked(c) ==
    /\ Moves(c, "unsaved", "failed")
    /\ \E config \in previous : memory' = config
    /\ previous' = {} /\ undone' = TRUE
    /\ UNCHANGED <<disk, lock, job, saves, woken, seen>>

TakesBack(c) ==
    /\ Moves(c, "unsaved", "failed")
    /\ \E config \in previous : memory' = config
    /\ lock' = {} /\ previous' = {}
    /\ undone' = TRUE
    /\ UNCHANGED <<disk, job, saves, woken, seen>>

\* The future of the handler is dropped at its await, and its guard with it; the save goes on.
Dropped(c) ==
    /\ \/ "queued" \in Drops /\ step[c] = "queued" /\ UNCHANGED <<lock, previous>>
       \/ "saving" \in Drops /\ step[c] \in Holding /\ lock' = {} /\ previous' = {}
    /\ step' = [step EXCEPT ![c] = "idle"]
    /\ UNCHANGED <<memory, disk, job, saves, loopVars>>

-----------------------------------------------------------------------------
(* The enforcer loops read the config on their timer and when they are woken. *)
EnforcerReads ==
    /\ seen' = {memory} /\ woken' = FALSE /\ undone' = FALSE
    /\ UNCHANGED <<memory, disk, lock, previous, handlerVars, saves>>

Restart ==
    /\ Restarts
    /\ memory' = disk
    /\ lock' = {} /\ previous' = {}
    /\ step' = [c \in Callers |-> "idle"] /\ saves' = [c \in Callers |-> {}]
    /\ woken' = FALSE /\ seen' = {} /\ undone' = FALSE
    /\ UNCHANGED <<disk, job>>

Mutates(c) == Refuses(c) \/ Skips(c) \/ Changes(c)
SaveReturns(c) == SaveLands(c) \/ SaveFails(c)
Resumes(c) == Confirms(c) \/ TakesBack(c)

Next ==
    \/ \E c \in Callers : Asks(c) \/ Mutates(c) \/ SaveReturns(c) \/ Resumes(c) \/ Dropped(c)
    \/ EnforcerReads \/ Restart

Spec == Init /\ [][Next]_vars

\* The mutex of tokio is given to those who wait in the order they came.
Fairness == \A c \in Callers : /\ SF_vars(Mutates(c))
                               /\ WF_vars(SaveReturns(c)) /\ WF_vars(Resumes(c))

FairSpec == Spec /\ Fairness

-----------------------------------------------------------------------------
(* "A change that could not be saved is taken back out of memory" (api.rs    *)
(* try_update_config), and no earlier snapshot is written last (state.rs     *)
(* config_save_lock): when nothing is under way, a restart would find the    *)
(* config that is in force.                                                  *)
MemoryIsOnDisk ==
    lock = {} /\ (\A c \in Callers : saves[c] = {}) => memory = disk

(* "A missed notification here is a shutdown that proceeds after it was      *)
(* cancelled" (heartbeat.rs): with nobody in the middle of a change, a loop  *)
(* that has not read the config in force is about to be woken, unless what   *)
(* it read has been taken back; a change skipped is one it has seen.         *)
EnforcersAreTold ==
    lock = {} => woken \/ undone \/ seen \in {{}, {memory}}

\* A request has reached the policy of PolicyStore when its save has reached the disk.
Stage(s) == CASE s \in {"queued", "saving", "unsaved"} -> "asked"
              [] s = "saved" -> "stored"
              [] OTHER -> s

Stages == [c \in Callers |-> Stage(step[c])]

Store == INSTANCE PolicyStore WITH policy <- disk, stage <- Stages

(* Every request is applied to config.json once, whole and on top of all     *)
(* requests before it, or answered with an error and not applied; and        *)
(* nothing is answered 200 that config.json does not hold.  (api.rs          *)
(* try_update_config; tests/config_concurrency.rs, config_save_failure.rs.)  *)
StoresPolicy == Store!Spec

(* Whoever waits for the lock gets an answer, whether the saves before it    *)
(* succeed or not.  (api.rs try_update_config, its early returns.)           *)
EveryoneIsAnswered ==
    \A c \in Callers : step[c] = "queued" ~> step[c] \in {"idle"} \union Answered

=============================================================================
