------------------------------ MODULE Install ------------------------------
(***************************************************************************)
(* Setting the service up, updating it and taking it away: the commands    *)
(* `install` and `uninstall` as their steps, beside the service they work  *)
(* on, the helpers it leaves in the child's session, the service manager,  *)
(* and a machine that may go off between any two steps.                    *)
(*                                                                         *)
(* The service keeps its config and its sessions in memory and writes      *)
(* either whole when it changes; the installer writes the same files.      *)
(***************************************************************************)
EXTENDS Naturals, FiniteSets, Options

CONSTANTS
    Versions,      \* builds there are
    Passwords,     \* what a parent may set
    Tokens,        \* sessions there may be
    MaxRuns,       \* bound: commands run
    MaxChanges,    \* bound: changes the service saves
    MaxHelpers     \* bound: helpers that outlive their service

ASSUME BoundsAssumption == {MaxRuns, MaxChanges, MaxHelpers} \subseteq Nat

VARIABLES
    registration,  \* with the service manager: "no", "yes" or "doomed" (marked for deletion)
    console,       \* whether something else holds a handle to it
    running, stopping,   \* the service; and whether it was told to stop and has not yet
    policy, signedIn,    \* its config and its sessions, in memory
    helper, orphans,     \* whether it has a helper in the session; helpers of services that ended
    exe, stamp,    \* the installed binary; installed.json
    firewall,      \* whether there is a rule
    config, readable,    \* config.json, and whether it parses
    sessions,      \* sessions.json
    at, run,       \* how far the command is, and what it was asked for
    base, found,   \* install: the config it has loaded; whether it found a service
    leftovers,     \* uninstall: what it could not remove
    runs, changes, \* counters for the bounds
    wanted,        \* history: what the parent had set when the command began
    meddled,       \* history: whether the service has saved its config since
    revoked,       \* history: sessions an install has ended
    off,           \* history: why the service may be off
    gone           \* history: whether the last command was an uninstall that said so

serviceVars == <<running, stopping, policy, signedIn, helper, orphans>>
diskVars == <<exe, stamp, config, readable, sessions>>
commandVars == <<at, run, base, found, leftovers, runs>>
pastVars == <<wanted, meddled, revoked, off, gone>>
vars == <<registration, console, serviceVars, diskVars, firewall, commandVars, changes, pastVars>>

Configs == [password : Passwords \union {0}, settings : 0 .. MaxChanges + 1]
Default == [password |-> 0, settings |-> 0]      \* no password opens it
Asked == [kind : {"install"}, version : Versions, password : Passwords, revoke : BOOLEAN,
          reset : BOOLEAN]
         \union [kind : {"uninstall"}, purge : BOOLEAN]

Installing == {"asked", "saved", "stopped", "killed", "settled", "copied", "hardened", "open",
               "registered", "started"}
Removing == {"stopping", "deleting", "verifying", "killing", "closing", "removing", "purging",
             "reporting"}
Things == {"service", "registration", "firewall", "program", "data", "stamp"}

TypeOK ==
    /\ registration \in {"no", "yes", "doomed"} /\ firewall \in BOOLEAN /\ console \in BOOLEAN
    /\ running \in BOOLEAN /\ stopping \in BOOLEAN /\ helper \in BOOLEAN /\ orphans \in Nat
    /\ policy \in Configs /\ config \in Option(Configs) /\ readable \in BOOLEAN
    /\ signedIn \subseteq Tokens /\ sessions \subseteq Tokens /\ revoked \subseteq Tokens
    /\ exe \in Option(Versions) /\ stamp \in Option(Versions)
    /\ at \in {"idle"} \union Installing \union Removing /\ run \in Option(Asked)
    /\ base \in Configs /\ found \in BOOLEAN /\ leftovers \subseteq Things
    /\ runs \in Nat /\ changes \in Nat /\ wanted \in Configs
    /\ meddled \in BOOLEAN /\ gone \in BOOLEAN
    /\ off \in Option({"slow", "netsh", "refused", "uninstall"})

\* A machine as a finished install leaves it, on which config.json may since have been spoilt by hand.
Init ==
    \E v \in Versions, p \in Passwords, legible \in BOOLEAN :
        LET c == [password |-> p, settings |-> 1] IN
            /\ registration = "yes" /\ firewall = TRUE /\ console = FALSE
            /\ running = TRUE /\ stopping = FALSE /\ helper = FALSE /\ orphans = 0
            /\ policy = c /\ config = {c} /\ readable = legible
            /\ signedIn = {} /\ sessions = {}
            /\ exe = {v} /\ stamp = {v}
            /\ at = "idle" /\ run = {} /\ base = Default /\ found = FALSE /\ leftovers = {}
            /\ runs = 0 /\ changes = 0
            /\ wanted = c /\ meddled = FALSE /\ revoked = {} /\ off = {}
            /\ gone = FALSE

-----------------------------------------------------------------------------
(* The service, the service manager and the machine.                       *)

CanBoot == registration = "yes" /\ exe # {} /\ config # {} /\ readable

\* service-run: the config and the sessions are loaded.
Boots ==
    /\ CanBoot
    /\ running' = TRUE /\ stopping' = FALSE /\ policy' \in config /\ signedIn' = sessions
    /\ off' = {}

\* The supervisor's thread goes with the service, and its helper does not.
Halts ==
    /\ running' = FALSE /\ stopping' = FALSE /\ helper' = FALSE
    /\ orphans' = orphans + (IF helper THEN 1 ELSE 0)
    /\ UNCHANGED <<policy, signedIn>>

IsUp == running /\ ~stopping

SavesChange ==
    /\ IsUp /\ changes < MaxChanges
    /\ changes' = changes + 1
    /\ policy' = [policy EXCEPT !.settings = changes + 2]
    /\ config' = {policy'} /\ readable' = TRUE
    /\ meddled' = TRUE
    /\ UNCHANGED <<registration, console, running, stopping, signedIn, helper, orphans, exe, stamp,
                   sessions, firewall, commandVars, wanted, revoked, off, gone>>

SignsIn(t) ==
    /\ IsUp /\ t \notin signedIn \union revoked \union sessions
    /\ signedIn' = signedIn \union {t} /\ sessions' = signedIn'
    /\ UNCHANGED <<registration, console, running, stopping, policy, helper, orphans, exe, stamp,
                   config, readable, firewall, commandVars, changes, pastVars>>

Spawns ==
    /\ IsUp /\ ~helper /\ exe # {}
    /\ helper' = TRUE
    /\ UNCHANGED <<registration, console, running, stopping, policy, signedIn, orphans, diskVars,
                   firewall, commandVars, changes, pastVars>>

\* A write to a pipe nobody reads ends it.
OrphanEnds ==
    /\ orphans > 0 /\ orphans' = orphans - 1
    /\ UNCHANGED <<registration, console, running, stopping, policy, signedIn, helper, diskVars,
                   firewall, commandVars, changes, pastVars>>

StopsLate ==
    /\ stopping /\ Halts
    /\ UNCHANGED <<registration, console, diskVars, firewall, commandVars, changes, pastVars>>

\* It dies, and the recovery actions start it again.
Crashes ==
    /\ IsUp /\ (helper => orphans < MaxHelpers) /\ Boots
    /\ helper' = FALSE /\ orphans' = orphans + (IF helper THEN 1 ELSE 0)
    /\ UNCHANGED <<registration, console, diskVars, firewall, commandVars, changes, wanted,
                   meddled, revoked, gone>>

ConsoleOpensOrCloses ==
    /\ console' = ~console
    /\ UNCHANGED <<registration, serviceVars, diskVars, firewall, commandVars, changes, pastVars>>

\* A record marked for deletion goes with the last handle to it.
Drops ==
    /\ registration = "doomed" /\ ~running /\ ~console
    /\ registration' = "no"
    /\ UNCHANGED <<console, serviceVars, diskVars, firewall, commandVars, changes, pastVars>>

PowerCycle ==
    /\ at # "idle" /\ at' = "idle" /\ run' = {} /\ console' = FALSE
    /\ registration' = (IF registration = "doomed" THEN "no" ELSE registration)
    /\ helper' = FALSE /\ orphans' = 0
    /\ IF CanBoot THEN Boots
       ELSE running' = FALSE /\ stopping' = FALSE /\ UNCHANGED <<policy, signedIn, off>>
    /\ UNCHANGED <<diskVars, firewall, base, found, leftovers, runs, changes, wanted, meddled,
                   revoked, gone>>

-----------------------------------------------------------------------------
(* install.                                                                *)

Goes(from, to) == at = from /\ at' = to /\ UNCHANGED <<run, base, found, leftovers, runs>>
Ends == at' = "idle" /\ run' = {} /\ UNCHANGED <<base, found, leftovers, runs>>

asked == CHOOSE r \in run : TRUE

\* Wrong on purpose: a file that does not parse is taken for none.
LoadsAny(r) == base' = IF config # {} /\ readable THEN CHOOSE c \in config : TRUE ELSE Default

Loads(r) ==
    \/ config = {} /\ base' = Default
    \/ config # {} /\ readable /\ base' \in config
    \/ config # {} /\ ~readable /\ r.reset /\ base' = Default

Installs(r) ==
    /\ at = "idle" /\ r.kind = "install" /\ runs < MaxRuns
    /\ at' = "asked" /\ run' = {r} /\ Loads(r)
    /\ found' = FALSE /\ leftovers' = {} /\ runs' = runs + 1
    /\ wanted' = (IF config = {} \/ (r.reset /\ ~readable) THEN Default
                  ELSE CHOOSE c \in config : TRUE)
    /\ meddled' = FALSE /\ gone' = FALSE
    /\ UNCHANGED <<registration, console, serviceVars, diskVars, firewall, changes, revoked, off>>

\* A blocked check, a bad password, or the data directory or the file cannot be written.
GivesUp ==
    /\ at = "asked" /\ Ends
    /\ UNCHANGED <<registration, console, serviceVars, diskVars, firewall, changes, pastVars>>

SavesConfig ==
    /\ Goes("asked", "saved")
    /\ config' = {[base EXCEPT !.password = asked.password]} /\ readable' = TRUE
    /\ UNCHANGED <<registration, console, serviceVars, exe, stamp, sessions, firewall, changes,
                   pastVars>>

\* Wrong on purpose: a service that was told to stop is taken for one that has.
TellsServiceToStop ==
    /\ at = "saved" /\ at' = "stopped" /\ found' = (registration # "no")
    /\ stopping' = (registration # "no" /\ running)
    /\ UNCHANGED <<registration, console, running, policy, signedIn, helper, orphans, diskVars,
                   firewall, run, base, leftovers, runs, changes, pastVars>>

StopsService ==
    /\ at = "saved" /\ at' = "stopped" /\ found' = (registration # "no")
    /\ IF registration # "no" /\ running
       THEN Halts ELSE UNCHANGED serviceVars
    /\ UNCHANGED <<registration, console, diskVars, firewall, run, base, leftovers, runs, changes,
                   pastVars>>

\* It was told to, and ten seconds were not enough; the command ends there.
StopTimesOut ==
    /\ at = "saved" /\ registration # "no" /\ running /\ Ends
    /\ stopping' = TRUE /\ off' = {"slow"}
    /\ UNCHANGED <<registration, console, running, policy, signedIn, helper, orphans, diskVars,
                   firewall, changes, wanted, meddled, revoked, gone>>

KillsHelpers ==
    /\ Goes("stopped", "killed")
    /\ orphans' \in 0 .. orphans
    /\ UNCHANGED <<registration, console, running, stopping, policy, signedIn, helper, diskVars,
                   firewall, changes, pastVars>>

SettlesSessions ==
    /\ Goes("killed", "settled")
    /\ sessions' = (IF asked.revoke THEN {} ELSE sessions)
    /\ revoked' = (IF asked.revoke THEN revoked \union sessions ELSE revoked)
    /\ UNCHANGED <<registration, console, serviceVars, exe, stamp, config, readable, firewall,
                   changes, wanted, meddled, off, gone>>

\* Windows holds the image of what runs from it open.
CopiesBinary ==
    /\ Goes("settled", "copied")
    /\ orphans = 0 /\ ~helper /\ ~running
    /\ exe' = {asked.version}
    /\ UNCHANGED <<registration, console, serviceVars, stamp, config, readable, sessions, firewall,
                   changes, wanted, meddled, revoked, off, gone>>

Hardens ==
    /\ Goes("copied", "hardened")
    /\ UNCHANGED <<registration, console, serviceVars, diskVars, firewall, changes, pastVars>>

\* Wrong on purpose: what was stopped for the update stays stopped.
StagingLeaves ==
    /\ at \in {"settled", "copied"} /\ Ends
    /\ UNCHANGED <<registration, console, serviceVars, diskVars, firewall, changes, pastVars>>

\* The copy or the lock-down failed: the service found is started again, if it will.
StagingFails ==
    /\ at \in {"settled", "copied"} /\ Ends
    /\ \/ found /\ Boots /\ UNCHANGED <<helper, orphans>>
       \/ found /\ off' = {"refused"} /\ UNCHANGED serviceVars
       \/ ~found /\ UNCHANGED <<serviceVars, off>>
    /\ UNCHANGED <<registration, console, diskVars, firewall, changes, wanted, meddled, revoked, gone>>

OpensFirewall ==
    /\ Goes("hardened", "open")
    /\ firewall' \in BOOLEAN
    /\ UNCHANGED <<registration, console, serviceVars, diskVars, changes, pastVars>>

\* netsh cannot be run at all.
FirewallFails ==
    /\ at = "hardened" /\ Ends
    /\ off' = {"netsh"}
    /\ UNCHANGED <<registration, console, serviceVars, diskVars, firewall, changes, wanted,
                   meddled, revoked, gone>>

Registers ==
    /\ Goes("open", "registered") /\ ~found /\ registration = "no"
    /\ registration' = "yes"
    /\ UNCHANGED <<console, serviceVars, diskVars, firewall, changes, pastVars>>

RegistrationFails ==
    /\ at = "open" /\ ~found /\ Ends
    /\ UNCHANGED <<registration, console, serviceVars, diskVars, firewall, changes, pastVars>>

Starts ==
    /\ at = (IF found THEN "open" ELSE "registered")
    /\ at' = "started" /\ UNCHANGED <<run, base, found, leftovers, runs>>
    /\ Boots /\ UNCHANGED <<helper, orphans>>
    /\ UNCHANGED <<registration, console, diskVars, firewall, changes, wanted, meddled, revoked, gone>>

\* Refused, or up and down again; a service just made is taken away, or not even that.
StartFails ==
    /\ at = (IF found THEN "open" ELSE "registered") /\ Ends
    /\ registration' \in (IF found THEN {registration} ELSE {"yes", IF console THEN "doomed" ELSE "no"})
    /\ off' = {"refused"}
    /\ UNCHANGED <<console, serviceVars, diskVars, firewall, changes, wanted, meddled, revoked, gone>>

\* A stamp that cannot be written is not worth failing for.
WritesStamp ==
    /\ at = "started" /\ Ends
    /\ \/ stamp' = {asked.version}
       \/ UNCHANGED stamp
    /\ UNCHANGED <<registration, console, serviceVars, exe, config, readable, sessions, firewall,
                   changes, wanted, meddled, revoked, off, gone>>

-----------------------------------------------------------------------------
(* uninstall.                                                              *)

Leaves(thing) == leftovers' = leftovers \union {thing}
Proceeds(from, to) == at = from /\ at' = to /\ UNCHANGED <<run, base, found, runs>>

Uninstalls(r) ==
    /\ at = "idle" /\ r.kind = "uninstall" /\ runs < MaxRuns
    /\ at' = (IF registration = "no" THEN "verifying" ELSE "stopping")
    /\ run' = {r} /\ leftovers' = {} /\ runs' = runs + 1 /\ gone' = FALSE
    /\ UNCHANGED <<registration, console, serviceVars, diskVars, firewall, base, found, changes,
                   wanted, meddled, revoked, off>>

\* Whether it has stopped in time is not looked at.
TellsToStop ==
    /\ Proceeds("stopping", "deleting") /\ UNCHANGED leftovers
    /\ \/ running /\ Halts
       \/ running /\ stopping' = TRUE
          /\ UNCHANGED <<running, policy, signedIn, helper, orphans>>
       \/ ~running /\ UNCHANGED serviceVars
    /\ off' = {"uninstall"}
    /\ UNCHANGED <<registration, console, diskVars, firewall, changes, wanted, meddled, revoked, gone>>

DeletesService ==
    /\ at = "deleting" /\ UNCHANGED <<run, base, found, runs>>
    /\ \/ at' = "verifying" /\ UNCHANGED leftovers
          /\ registration' = (IF running \/ console THEN "doomed" ELSE "no")
       \/ at' = "killing" /\ Leaves("service") /\ UNCHANGED registration
    /\ UNCHANGED <<console, serviceVars, diskVars, firewall, changes, pastVars>>

\* Wrong on purpose: a delete that was accepted is taken for one that was done.
TrustsDelete ==
    /\ Proceeds("verifying", "killing") /\ UNCHANGED leftovers
    /\ UNCHANGED <<registration, console, serviceVars, diskVars, firewall, changes, pastVars>>

VerifiesDelete ==
    /\ Proceeds("verifying", "killing")
    /\ IF registration = "no" THEN UNCHANGED leftovers ELSE Leaves("registration")
    /\ UNCHANGED <<registration, console, serviceVars, diskVars, firewall, changes, pastVars>>

KillsLastHelpers ==
    /\ Proceeds("killing", "closing") /\ UNCHANGED leftovers
    /\ orphans' \in 0 .. orphans /\ helper' \in {helper, FALSE}
    /\ UNCHANGED <<registration, console, running, stopping, policy, signedIn, diskVars, firewall,
                   changes, pastVars>>

ClosesFirewall ==
    /\ Proceeds("closing", "removing")
    /\ firewall' \in {firewall, FALSE}
    /\ IF firewall' THEN Leaves("firewall") ELSE UNCHANGED leftovers
    /\ UNCHANGED <<registration, console, serviceVars, diskVars, changes, pastVars>>

RemovesProgram ==
    /\ Proceeds("removing", "purging")
    /\ \/ orphans = 0 /\ ~helper /\ ~running /\ exe' = {} /\ UNCHANGED leftovers
       \/ exe # {} /\ UNCHANGED exe /\ Leaves("program")
    /\ UNCHANGED <<registration, console, serviceVars, stamp, config, readable, sessions, firewall,
                   changes, pastVars>>

Purges ==
    /\ Proceeds("purging", "reporting") /\ asked.purge
    /\ \/ config' = {} /\ sessions' = {} /\ stamp' = {} /\ UNCHANGED leftovers
       \/ config' \in {config, {}} /\ sessions' \in {sessions, {}} /\ stamp' \in {stamp, {}}
          /\ Leaves("data")
    /\ UNCHANGED <<registration, console, serviceVars, exe, readable, firewall, changes, pastVars>>

RemovesStamp ==
    /\ Proceeds("purging", "reporting") /\ ~asked.purge
    /\ \/ stamp' = {} /\ UNCHANGED leftovers
       \/ stamp # {} /\ UNCHANGED stamp /\ Leaves("stamp")
    /\ UNCHANGED <<registration, console, serviceVars, exe, config, readable, sessions, firewall,
                   changes, pastVars>>

Reports ==
    /\ at = "reporting" /\ Ends
    /\ gone' = (leftovers = {})
    /\ UNCHANGED <<registration, console, serviceVars, diskVars, firewall, changes, wanted,
                   meddled, revoked, off>>

-----------------------------------------------------------------------------

InstallSteps ==
    \/ \E r \in Asked : Installs(r)
    \/ GivesUp \/ SavesConfig \/ StopsService \/ StopTimesOut \/ KillsHelpers \/ SettlesSessions
    \/ CopiesBinary \/ Hardens \/ StagingFails \/ OpensFirewall \/ FirewallFails
    \/ Registers \/ RegistrationFails \/ Starts \/ StartFails \/ WritesStamp

UninstallSteps ==
    \/ \E r \in Asked : Uninstalls(r)
    \/ TellsToStop \/ DeletesService \/ VerifiesDelete \/ KillsLastHelpers \/ ClosesFirewall
    \/ RemovesProgram \/ Purges \/ RemovesStamp \/ Reports

Next ==
    \/ SavesChange \/ (\E t \in Tokens : SignsIn(t)) \/ Spawns \/ OrphanEnds \/ StopsLate \/ Crashes
    \/ ConsoleOpensOrCloses \/ Drops \/ PowerCycle
    \/ InstallSteps \/ UninstallSteps

Spec == Init /\ [][Next]_vars

-----------------------------------------------------------------------------

(* Uninstall fails if anything survives: when it has said that it is done,  *)
(* no service is running or registered, no helper holds the program, and    *)
(* program, rule and record are gone.  (install.rs uninstall, remove_service.) *)
UninstallIsHonest ==
    gone => /\ ~running /\ registration = "no" /\ orphans = 0 /\ ~helper
            /\ exe = {} /\ ~firewall /\ stamp = {}

(* A device signed out by --revoke-sessions does not come back, whatever    *)
(* the service that held its session in memory has written since.           *)
(* (install.rs settle_sessions, deploy.)                                    *)
RevokedStaysOut == revoked \intersect (sessions \union (IF running THEN signedIn ELSE {})) = {}

(* An install that fails leaves a machine enforced as it was, unless the    *)
(* service would not stop or start, or netsh not run; so does one the power *)
(* cut short, from the next boot on.  (install.rs deploy.)                  *)
EnforcementReturns == at = "idle" /\ registration = "yes" /\ exe # {} /\ CanBoot => running \/ off # {}

(* The service an install starts has the password that was asked for and    *)
(* the settings it found, unless the service it replaced has saved its own  *)
(* config meanwhile; a file that does not parse is not taken for none.      *)
(* (install.rs install.)                                                    *)
InstalledAsAsked ==
    [][ (at' = "started" /\ at # "started" /\ ~meddled)
            => policy' = [wanted EXCEPT !.password = asked.password] ]_vars

=============================================================================
