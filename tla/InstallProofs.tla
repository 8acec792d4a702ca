--------------------------- MODULE InstallProofs ---------------------------
(***************************************************************************)
(* Proofs about Install, for any builds, passwords, sessions and number of *)
(* commands: its types, that a device signed out stays out, that a machine *)
(* that could be enforced is, that an uninstall is honest, and that what   *)
(* an install starts is what was asked for.  And about Diagnosis, for any  *)
(* ports, zones and builds: that doctor and the pre-flight are right.      *)
(***************************************************************************)
EXTENDS Install, Diagnosis, SequenceTheorems, TLAPS

\* TypeOK, of what is so or not, and of the rest: the provers do better with either alone.
FlagTypes ==
    /\ firewall \in BOOLEAN /\ console \in BOOLEAN /\ running \in BOOLEAN /\ stopping \in BOOLEAN
    /\ helper \in BOOLEAN /\ readable \in BOOLEAN /\ found \in BOOLEAN
    /\ meddled \in BOOLEAN /\ gone \in BOOLEAN

RestTypes ==
    /\ registration \in {"no", "yes", "doomed"} /\ orphans \in Nat
    /\ policy \in Configs /\ config \in Option(Configs)
    /\ signedIn \subseteq Tokens /\ sessions \subseteq Tokens /\ revoked \subseteq Tokens
    /\ exe \in Option(Versions) /\ stamp \in Option(Versions)
    /\ at \in {"idle"} \union Installing \union Removing /\ run \in Option(Asked)
    /\ base \in Configs /\ leftovers \subseteq Things
    /\ runs \in Nat /\ changes \in Nat /\ wanted \in Configs
    /\ off \in Option({"slow", "netsh", "refused", "uninstall"})

LEMMA TypeParts == TypeOK <=> FlagTypes /\ RestTypes
  BY DEF TypeOK, FlagTypes, RestTypes

\* There is a command while one is under way, and of the kind its step belongs to.
CommandAgrees ==
    /\ at = "idle" <=> run = {}
    /\ \A r \in run : r.kind = (IF at \in Installing THEN "install" ELSE "uninstall")

LEMMA AskedIs == ASSUME NEW r, run = {r} PROVE asked = r
  BY DEF asked

\* Whoever goes on with a command has one.
LEMMA AskedTypes ==
    ASSUME RestTypes, CommandAgrees, at # "idle"
    PROVE  /\ run = {asked} /\ asked \in Asked
           /\ at \in Installing => asked.kind = "install" /\ asked.password \in Passwords
                                   /\ asked.version \in Versions
  <1>1. PICK r \in Asked : run = {r}
    BY DEF RestTypes, CommandAgrees, Option
  <1>2. asked = r
    BY <1>1, AskedIs
  <1> QED
    BY <1>1, <1>2 DEF CommandAgrees, Asked

-----------------------------------------------------------------------------
(* Types. *)

LEMMA ServiceFlags ==
    ASSUME FlagTypes,
           \/ SavesChange \/ (\E t \in Tokens : SignsIn(t)) \/ Spawns \/ OrphanEnds \/ StopsLate
           \/ Crashes \/ ConsoleOpensOrCloses \/ Drops \/ PowerCycle
    PROVE  FlagTypes'
  <1> USE DEF FlagTypes, serviceVars, diskVars, commandVars, pastVars, Halts, Boots
  <1>1. CASE SavesChange \/ Crashes
    BY <1>1 DEF SavesChange, Crashes
  <1>2. CASE \E t \in Tokens : SignsIn(t)
    BY <1>2 DEF SignsIn
  <1>3. CASE Spawns \/ OrphanEnds
    BY <1>3 DEF Spawns, OrphanEnds
  <1>4. CASE StopsLate
    BY <1>4 DEF StopsLate
  <1>5. CASE ConsoleOpensOrCloses \/ Drops \/ PowerCycle
    BY <1>5 DEF ConsoleOpensOrCloses, Drops, PowerCycle
  <1> QED
    BY <1>1, <1>2, <1>3, <1>4, <1>5

LEMMA InstallFlags ==
    ASSUME FlagTypes, InstallSteps
    PROVE  FlagTypes'
  <1> USE DEF FlagTypes, serviceVars, diskVars, commandVars, pastVars, Halts, Boots, Goes, Ends
  <1>1. CASE (\E r \in Asked : Installs(r)) \/ GivesUp \/ SavesConfig
    BY <1>1 DEF Installs, GivesUp, SavesConfig
  <1>2. CASE StopsService \/ StopTimesOut \/ KillsHelpers \/ SettlesSessions
    BY <1>2 DEF StopsService, StopTimesOut, KillsHelpers, SettlesSessions
  <1>3. CASE CopiesBinary \/ Hardens \/ OpensFirewall \/ FirewallFails
    BY <1>3 DEF CopiesBinary, Hardens, OpensFirewall, FirewallFails
  <1>5. CASE StagingFails
    BY <1>5 DEF StagingFails
  <1>4. CASE Registers \/ RegistrationFails \/ WritesStamp
    BY <1>4 DEF Registers, RegistrationFails, WritesStamp
  <1>6. CASE Starts \/ StartFails
    BY <1>6 DEF Starts, StartFails
  <1> QED
    BY <1>1, <1>2, <1>3, <1>4, <1>5, <1>6 DEF InstallSteps

LEMMA UninstallFlags ==
    ASSUME FlagTypes, UninstallSteps
    PROVE  FlagTypes'
  <1> USE DEF FlagTypes, serviceVars, diskVars, commandVars, pastVars, Halts, Ends, Proceeds
  <1>1. CASE \E r \in Asked : Uninstalls(r)
    BY <1>1 DEF Uninstalls
  <1>5. CASE DeletesService \/ VerifiesDelete
    BY <1>5 DEF DeletesService, VerifiesDelete
  <1>4. CASE TellsToStop
    BY <1>4 DEF TellsToStop
  <1>2. CASE KillsLastHelpers \/ ClosesFirewall \/ RemovesProgram
    BY <1>2 DEF KillsLastHelpers, ClosesFirewall, RemovesProgram
  <1>3. CASE Purges \/ RemovesStamp \/ Reports
    BY <1>3 DEF Purges, RemovesStamp, Reports
  <1> QED
    BY <1>1, <1>2, <1>3, <1>4, <1>5 DEF UninstallSteps

LEMMA InitTypes == Init => TypeOK /\ CommandAgrees
  <1> SUFFICES ASSUME Init PROVE FlagTypes /\ RestTypes /\ CommandAgrees
    BY TypeParts
  <1>1. PICK v \in Versions, p \in Passwords, legible \in BOOLEAN :
            LET c == [password |-> p, settings |-> 1] IN
            /\ policy = c /\ config = {c} /\ wanted = c /\ readable = legible
            /\ exe = {v} /\ stamp = {v}
    BY DEF Init
  <1>2. FlagTypes
    BY <1>1 DEF Init, FlagTypes
  <1>3. [password |-> p, settings |-> 1] \in Configs /\ Default \in Configs
    BY BoundsAssumption DEF Configs, Default
  <1>4. policy \in Configs /\ config \in Option(Configs) /\ wanted \in Configs /\ base \in Configs
    BY <1>1, <1>3 DEF Init, Option
  <1>5. exe \in Option(Versions) /\ stamp \in Option(Versions)
    BY <1>1 DEF Option
  <1>6. run \in Option(Asked) /\ off \in Option({"slow", "netsh", "refused", "uninstall"})
    BY DEF Init, Option
  <1>7. RestTypes /\ CommandAgrees
    BY <1>4, <1>5, <1>6 DEF Init, RestTypes, CommandAgrees
  <1> QED
    BY <1>2, <1>7

\* What a boot loads is a config, and it leaves nothing to explain.
LEMMA BootTypes ==
    ASSUME RestTypes, Boots
    PROVE  /\ policy' \in Configs /\ signedIn' \subseteq Tokens
           /\ off' \in Option({"slow", "netsh", "refused", "uninstall"})
  <1>1. policy' \in Configs
    BY DEF Boots, RestTypes, Option
  <1> QED
    BY <1>1 DEF Boots, RestTypes, Option

\* A service that ends may leave a helper behind.
LEMMA HaltTypes ==
    ASSUME RestTypes, Halts
    PROVE  orphans' \in Nat /\ policy' \in Configs /\ signedIn' \subseteq Tokens
  BY DEF Halts, RestTypes

LEMMA ServiceTypes ==
    ASSUME RestTypes, CommandAgrees,
           SavesChange \/ (\E t \in Tokens : SignsIn(t)) \/ Spawns \/ OrphanEnds \/ StopsLate \/ Crashes
    PROVE  RestTypes' /\ CommandAgrees'
  <1> USE DEF serviceVars, diskVars, commandVars, pastVars
  <1>1. CASE SavesChange
    <2>1. policy' \in Configs
      BY <1>1, BoundsAssumption DEF SavesChange, RestTypes, Configs
    <2>2. config' \in Option(Configs)
      BY <1>1, <2>1 DEF SavesChange, Option
    <2> QED
      BY <1>1, <2>1, <2>2 DEF SavesChange, RestTypes, CommandAgrees
  <1>2. CASE \E t \in Tokens : SignsIn(t)
    BY <1>2 DEF SignsIn, RestTypes, CommandAgrees
  <1>3. CASE Spawns \/ OrphanEnds
    BY <1>3 DEF Spawns, OrphanEnds, RestTypes, CommandAgrees
  <1>4. CASE StopsLate
    BY <1>4, HaltTypes DEF StopsLate, RestTypes, CommandAgrees
  <1>5. CASE Crashes
    <2>1. orphans' \in Nat
      BY <1>5 DEF Crashes, RestTypes
    <2> QED
      BY <1>5, <2>1, BootTypes DEF Crashes, RestTypes, CommandAgrees
  <1> QED
    BY <1>1, <1>2, <1>3, <1>4, <1>5

LEMMA MachineTypes ==
    ASSUME RestTypes, CommandAgrees, ConsoleOpensOrCloses \/ Drops \/ PowerCycle
    PROVE  RestTypes' /\ CommandAgrees'
  <1> USE DEF serviceVars, diskVars, commandVars, pastVars
  <1>1. CASE ConsoleOpensOrCloses \/ Drops
    BY <1>1 DEF ConsoleOpensOrCloses, Drops, RestTypes, CommandAgrees
  <1>2. CASE PowerCycle /\ CanBoot
    BY <1>2, BootTypes DEF PowerCycle, RestTypes, CommandAgrees, Option
  <1>3. CASE PowerCycle /\ ~CanBoot
    BY <1>3 DEF PowerCycle, RestTypes, CommandAgrees, Option
  <1> QED
    BY <1>1, <1>2, <1>3

LEMMA BeginTypes ==
    ASSUME RestTypes, CommandAgrees, NEW r \in Asked, Installs(r) \/ Uninstalls(r)
    PROVE  RestTypes' /\ CommandAgrees'
  <1> USE DEF serviceVars, diskVars, pastVars
  <1>1. run' = {r} /\ run' \in Option(Asked) /\ leftovers' = {}
    BY DEF Installs, Uninstalls, Option
  <1>2. CASE Installs(r)
    <2>1. Default \in Configs
      BY BoundsAssumption DEF Default, Configs
    <2>2. base' \in Configs
      BY <1>2, <2>1 DEF Installs, Loads, RestTypes, Option
    <2>3. wanted' \in Configs
      <3>1. CASE config = {}
        BY <1>2, <2>1, <3>1 DEF Installs
      <3>2. CASE config # {}
        BY <1>2, <2>1, <3>2 DEF Installs, RestTypes, Option
      <3> QED
        BY <3>1, <3>2
    <2> QED
      BY <1>1, <1>2, <2>2, <2>3 DEF Installs, RestTypes, CommandAgrees, Installing
  <1>3. CASE Uninstalls(r)
    BY <1>1, <1>3 DEF Uninstalls, RestTypes, CommandAgrees, Installing, Removing
  <1> QED
    BY <1>2, <1>3

LEMMA InstallTypes ==
    ASSUME RestTypes, CommandAgrees, InstallSteps
    PROVE  RestTypes' /\ CommandAgrees'
  <1> USE DEF serviceVars, diskVars, commandVars, pastVars, Ends, Goes, Installing
  <1>1. CASE \E r \in Asked : Installs(r)
    BY <1>1, BeginTypes
  <1>2. CASE GivesUp \/ RegistrationFails
    BY <1>2 DEF GivesUp, RegistrationFails, RestTypes, CommandAgrees, Option
  <1>3. CASE SavesConfig
    <2>1. [base EXCEPT !.password = asked.password] \in Configs
      BY <1>3, AskedTypes DEF SavesConfig, RestTypes, Configs
    <2>2. config' \in Option(Configs)
      BY <1>3, <2>1 DEF SavesConfig, Option
    <2> QED
      BY <1>3, <2>2 DEF SavesConfig, RestTypes, CommandAgrees
  <1>4. CASE StopsService
    <2>1. CASE registration # "no" /\ running
      BY <1>4, <2>1, HaltTypes DEF StopsService, RestTypes, CommandAgrees
    <2>2. CASE ~(registration # "no" /\ running)
      BY <1>4, <2>2 DEF StopsService, RestTypes, CommandAgrees
    <2> QED
      BY <2>1, <2>2
  <1>5. CASE StopTimesOut \/ FirewallFails
    BY <1>5 DEF StopTimesOut, FirewallFails, RestTypes, CommandAgrees, Option
  <1>6. CASE KillsHelpers \/ Hardens \/ OpensFirewall
    BY <1>6 DEF KillsHelpers, Hardens, OpensFirewall, RestTypes, CommandAgrees
  <1>7. CASE SettlesSessions
    BY <1>7 DEF SettlesSessions, RestTypes, CommandAgrees
  <1>8. CASE CopiesBinary
    <2>1. exe' \in Option(Versions)
      BY <1>8, AskedTypes DEF CopiesBinary, Option
    <2> QED
      BY <1>8, <2>1 DEF CopiesBinary, RestTypes, CommandAgrees
  <1>9. CASE StagingFails
    <2>1. run' = {} /\ run' \in Option(Asked)
      BY <1>9 DEF StagingFails, Option
    <2>2. {"refused"} \in Option({"slow", "netsh", "refused", "uninstall"})
      BY DEF Option
    <2> QED
      BY <1>9, <2>1, <2>2, BootTypes DEF StagingFails, RestTypes, CommandAgrees
  <1>10. CASE Registers
    BY <1>10 DEF Registers, RestTypes, CommandAgrees
  <1>11. CASE Starts
    BY <1>11, BootTypes DEF Starts, RestTypes, CommandAgrees
  <1>12. CASE StartFails
    <2>1. run' \in Option(Asked) /\ off' \in Option({"slow", "netsh", "refused", "uninstall"})
      BY <1>12 DEF StartFails, Option
    <2> QED
      BY <1>12, <2>1 DEF StartFails, RestTypes, CommandAgrees
  <1>13. CASE WritesStamp
    <2>1. stamp' \in Option(Versions)
      BY <1>13, AskedTypes DEF WritesStamp, RestTypes, Option
    <2> QED
      BY <1>13, <2>1 DEF WritesStamp, RestTypes, CommandAgrees, Option
  <1> QED
    BY <1>1, <1>2, <1>3, <1>4, <1>5, <1>6, <1>7, <1>8, <1>9, <1>10, <1>11, <1>12, <1>13
    DEF InstallSteps

LEMMA UninstallTypes ==
    ASSUME RestTypes, CommandAgrees, UninstallSteps
    PROVE  RestTypes' /\ CommandAgrees'
  <1> USE DEF serviceVars, diskVars, pastVars, Ends, Proceeds, Leaves, Installing, Removing, Things
  <1>1. CASE \E r \in Asked : Uninstalls(r)
    BY <1>1, BeginTypes
  <1>2. CASE TellsToStop
    <2>1. off' \in Option({"slow", "netsh", "refused", "uninstall"})
      BY <1>2 DEF TellsToStop, Option
    <2>2. orphans' \in Nat /\ policy' \in Configs /\ signedIn' \subseteq Tokens
      BY <1>2, HaltTypes DEF TellsToStop, RestTypes
    <2> QED
      BY <1>2, <2>1, <2>2 DEF TellsToStop, RestTypes, CommandAgrees
  <1>3. CASE DeletesService \/ VerifiesDelete
    BY <1>3 DEF DeletesService, VerifiesDelete, RestTypes, CommandAgrees
  <1>4. CASE KillsLastHelpers
    BY <1>4 DEF KillsLastHelpers, RestTypes, CommandAgrees
  <1>8. CASE ClosesFirewall
    BY <1>8 DEF ClosesFirewall, RestTypes, CommandAgrees
  <1>5. CASE RemovesProgram \/ RemovesStamp
    BY <1>5 DEF RemovesProgram, RemovesStamp, RestTypes, CommandAgrees, Option
  <1>6. CASE Purges
    <2>1. config' \in Option(Configs) /\ stamp' \in Option(Versions) /\ sessions' \subseteq Tokens
      BY <1>6 DEF Purges, RestTypes, Option
    <2> QED
      BY <1>6, <2>1 DEF Purges, RestTypes, CommandAgrees
  <1>7. CASE Reports
    BY <1>7 DEF Reports, RestTypes, CommandAgrees, Option
  <1> QED
    BY <1>1, <1>2, <1>3, <1>4, <1>5, <1>6, <1>7, <1>8 DEF UninstallSteps

LEMMA StepTypes ==
    ASSUME TypeOK, CommandAgrees, [Next]_vars
    PROVE  TypeOK' /\ CommandAgrees'
  <1>1. FlagTypes /\ RestTypes
    BY TypeParts
  <1>2. CASE UNCHANGED vars
    BY <1>2 DEF vars, serviceVars, diskVars, commandVars, pastVars, TypeOK, CommandAgrees
  <1>3. CASE Next
    <2>1. FlagTypes'
      BY <1>1, <1>3, ServiceFlags, InstallFlags, UninstallFlags DEF Next
    <2>2. RestTypes' /\ CommandAgrees'
      BY <1>1, <1>3, ServiceTypes, MachineTypes, InstallTypes, UninstallTypes DEF Next
    <2> QED
      BY <2>1, <2>2 DEF TypeOK, FlagTypes, RestTypes
  <1> QED
    BY <1>2, <1>3

(* The service, the files, the command under way and what it was asked for   *)
(* have the declared types, for any builds, passwords and sessions.          *)
THEOREM TypeCorrect == Spec => []TypeOK
  BY InitTypes, StepTypes, PTL DEF Spec

-----------------------------------------------------------------------------
(* What is so of the service, step by step. *)

\* The old service is off, and the new one not yet started.
Deploying == {"stopped", "killed", "settled", "copied", "hardened", "open", "registered"}

\* What is not registered does not run, nor does anything while files are put in place; where no
\* service was found there is none until one is made; and who told it to stop has said why.
ServiceAgrees ==
    /\ registration = "no" => ~running
    /\ stopping => running /\ off # {}
    /\ at \in Deploying => ~running
    /\ at \in Deploying \ {"registered"} /\ ~found => registration = "no"

\* EnforcementReturns, before a command is done and while it has not stopped anything.
EnforcementAgrees ==
    at \notin Deploying \union {"saved"} /\ CanBoot => running \/ off # {}

\* RevokedStaysOut, of either place a session is kept.
RevokedAgrees ==
    /\ revoked \intersect sessions = {}
    /\ running => revoked \intersect signedIn = {}

\* UninstallIsHonest, as far as an uninstall has come that has left nothing so far.
RemovalAgrees ==
    /\ gone => /\ at = "idle"
               /\ ~running /\ registration = "no" /\ orphans = 0 /\ ~helper
               /\ exe = {} /\ ~firewall /\ stamp = {}
    /\ leftovers = {} =>
         /\ at \in {"killing", "closing", "removing", "purging", "reporting"} => registration = "no"
         /\ at \in {"removing", "purging", "reporting"} => ~firewall
         /\ at \in {"purging", "reporting"} => exe = {} /\ orphans = 0 /\ ~helper
         /\ at = "reporting" => stamp = {}

\* What an install has loaded is what was set, and what it has saved is that with the new password.
SettingsAgree ==
    /\ at = "asked" => base = wanted
    /\ at \in Deploying \union {"saved"} /\ ~meddled =>
           config = {[wanted EXCEPT !.password = asked.password]}

LEMMA InitAgrees ==
    Init => ServiceAgrees /\ EnforcementAgrees /\ RevokedAgrees /\ RemovalAgrees /\ SettingsAgree
  BY DEF Init, ServiceAgrees, EnforcementAgrees, RevokedAgrees, RemovalAgrees, SettingsAgree, Deploying

LEMMA ServiceStep ==
    ASSUME ServiceAgrees, Next
    PROVE  ServiceAgrees'
  <1> USE DEF ServiceAgrees, Deploying, serviceVars, diskVars, commandVars, pastVars
  <1>1. CASE \/ SavesChange \/ (\E t \in Tokens : SignsIn(t)) \/ Spawns \/ OrphanEnds \/ StopsLate
             \/ Crashes \/ ConsoleOpensOrCloses \/ Drops \/ PowerCycle
    <2>1. CASE SavesChange \/ (\E t \in Tokens : SignsIn(t)) \/ Spawns \/ OrphanEnds
      BY <2>1 DEF SavesChange, SignsIn, Spawns, OrphanEnds
    <2>2. CASE StopsLate \/ ConsoleOpensOrCloses \/ Drops
      BY <2>2 DEF StopsLate, ConsoleOpensOrCloses, Drops, Halts
    <2>3. CASE Crashes \/ PowerCycle
      BY <2>3 DEF Crashes, PowerCycle, Boots, CanBoot, IsUp
    <2> QED
      BY <1>1, <2>1, <2>2, <2>3
  <1>2. CASE InstallSteps
    <2> USE DEF Goes, Ends
    <2>1. CASE (\E r \in Asked : Installs(r)) \/ GivesUp \/ SavesConfig
      BY <2>1 DEF Installs, GivesUp, SavesConfig
    <2>2. CASE StopsService \/ StopTimesOut
      BY <2>2 DEF StopsService, StopTimesOut, Halts
    <2>3. CASE KillsHelpers \/ SettlesSessions \/ CopiesBinary \/ Hardens
      BY <2>3 DEF KillsHelpers, SettlesSessions, CopiesBinary, Hardens
    <2>4. CASE StagingFails \/ Starts
      BY <2>4 DEF StagingFails, Starts, Boots, CanBoot
    <2>5. CASE OpensFirewall \/ FirewallFails \/ Registers \/ RegistrationFails
      BY <2>5 DEF OpensFirewall, FirewallFails, Registers, RegistrationFails
    <2>6. CASE StartFails \/ WritesStamp
      BY <2>6 DEF StartFails, WritesStamp
    <2> QED
      BY <1>2, <2>1, <2>2, <2>3, <2>4, <2>5, <2>6 DEF InstallSteps
  <1>3. CASE UninstallSteps
    <2> USE DEF Proceeds, Ends
    <2>1. CASE \E r \in Asked : Uninstalls(r)
      BY <2>1 DEF Uninstalls
    <2>2. CASE TellsToStop
      BY <2>2 DEF TellsToStop, Halts
    <2>3. CASE DeletesService
      BY <2>3 DEF DeletesService
    <2>4. CASE VerifiesDelete
      BY <2>4 DEF VerifiesDelete
    <2>8. CASE KillsLastHelpers
      BY <2>8 DEF KillsLastHelpers
    <2>5. CASE ClosesFirewall
      BY <2>5 DEF ClosesFirewall
    <2>6. CASE RemovesProgram \/ Purges
      BY <2>6 DEF RemovesProgram, Purges
    <2>7. CASE RemovesStamp \/ Reports
      BY <2>7 DEF RemovesStamp, Reports
    <2> QED
      BY <1>3, <2>1, <2>2, <2>3, <2>4, <2>5, <2>6, <2>7, <2>8 DEF UninstallSteps
  <1> QED
    BY <1>1, <1>2, <1>3 DEF Next

LEMMA EnforcementStep ==
    ASSUME ServiceAgrees, EnforcementAgrees, Next
    PROVE  EnforcementAgrees'
  <1> USE DEF ServiceAgrees, EnforcementAgrees, CanBoot, Deploying, serviceVars, diskVars, commandVars, pastVars
  <1>1. CASE \/ SavesChange \/ (\E t \in Tokens : SignsIn(t)) \/ Spawns \/ OrphanEnds \/ StopsLate
             \/ Crashes \/ ConsoleOpensOrCloses \/ Drops \/ PowerCycle
    <2>1. CASE SavesChange \/ (\E t \in Tokens : SignsIn(t)) \/ Spawns \/ OrphanEnds
      BY <2>1 DEF SavesChange, SignsIn, Spawns, OrphanEnds, IsUp
    <2>2. CASE StopsLate \/ ConsoleOpensOrCloses \/ Drops
      BY <2>2 DEF StopsLate, ConsoleOpensOrCloses, Drops, Halts
    <2>3. CASE Crashes \/ PowerCycle
      BY <2>3 DEF Crashes, PowerCycle, Boots
    <2> QED
      BY <1>1, <2>1, <2>2, <2>3
  <1>2. CASE InstallSteps
    <2> USE DEF Goes, Ends
    <2>1. CASE (\E r \in Asked : Installs(r)) \/ GivesUp \/ SavesConfig
      BY <2>1 DEF Installs, GivesUp, SavesConfig
    <2>2. CASE StopsService \/ StopTimesOut
      BY <2>2 DEF StopsService, StopTimesOut, Halts
    <2>3. CASE KillsHelpers \/ SettlesSessions \/ CopiesBinary \/ Hardens
      BY <2>3 DEF KillsHelpers, SettlesSessions, CopiesBinary, Hardens
    <2>4. CASE StagingFails \/ Starts
      BY <2>4 DEF StagingFails, Starts, Boots
    <2>5. CASE OpensFirewall \/ FirewallFails \/ Registers \/ RegistrationFails
      BY <2>5 DEF OpensFirewall, FirewallFails, Registers, RegistrationFails
    <2>6. CASE StartFails \/ WritesStamp
      BY <2>6 DEF StartFails, WritesStamp
    <2> QED
      BY <1>2, <2>1, <2>2, <2>3, <2>4, <2>5, <2>6 DEF InstallSteps
  <1>3. CASE UninstallSteps
    <2> USE DEF Proceeds, Ends
    <2>1. CASE \E r \in Asked : Uninstalls(r)
      BY <2>1 DEF Uninstalls
    <2>2. CASE TellsToStop
      BY <2>2 DEF TellsToStop
    <2>3. CASE DeletesService
      BY <2>3 DEF DeletesService
    <2>4. CASE VerifiesDelete
      BY <2>4 DEF VerifiesDelete
    <2>8. CASE KillsLastHelpers
      BY <2>8 DEF KillsLastHelpers
    <2>5. CASE ClosesFirewall
      BY <2>5 DEF ClosesFirewall
    <2>6. CASE RemovesProgram \/ Purges
      BY <2>6 DEF RemovesProgram, Purges
    <2>7. CASE RemovesStamp \/ Reports
      BY <2>7 DEF RemovesStamp, Reports
    <2> QED
      BY <1>3, <2>1, <2>2, <2>3, <2>4, <2>5, <2>6, <2>7, <2>8 DEF UninstallSteps
  <1> QED
    BY <1>1, <1>2, <1>3 DEF Next

LEMMA RevokedStep ==
    ASSUME ServiceAgrees, RevokedAgrees, Next
    PROVE  RevokedAgrees'
  <1> USE DEF ServiceAgrees, RevokedAgrees, Deploying, serviceVars, diskVars, commandVars, pastVars
  <1>1. CASE \/ SavesChange \/ (\E t \in Tokens : SignsIn(t)) \/ Spawns \/ OrphanEnds \/ StopsLate
             \/ Crashes \/ ConsoleOpensOrCloses \/ Drops \/ PowerCycle
    <2>1. CASE SavesChange \/ (\E t \in Tokens : SignsIn(t)) \/ Spawns \/ OrphanEnds
      BY <2>1 DEF SavesChange, SignsIn, Spawns, OrphanEnds, IsUp
    <2>2. CASE StopsLate \/ ConsoleOpensOrCloses \/ Drops
      BY <2>2 DEF StopsLate, ConsoleOpensOrCloses, Drops, Halts
    <2>3. CASE Crashes \/ PowerCycle
      BY <2>3 DEF Crashes, PowerCycle, Boots
    <2> QED
      BY <1>1, <2>1, <2>2, <2>3
  <1>2. CASE InstallSteps
    <2> USE DEF Goes, Ends
    <2>1. CASE (\E r \in Asked : Installs(r)) \/ GivesUp \/ SavesConfig
      BY <2>1 DEF Installs, GivesUp, SavesConfig
    <2>2. CASE StopsService \/ StopTimesOut
      BY <2>2 DEF StopsService, StopTimesOut, Halts
    <2>3. CASE KillsHelpers \/ CopiesBinary \/ Hardens
      BY <2>3 DEF KillsHelpers, CopiesBinary, Hardens
    <2>4. CASE SettlesSessions
      BY <2>4 DEF SettlesSessions
    <2>5. CASE StagingFails \/ Starts
      BY <2>5 DEF StagingFails, Starts, Boots
    <2>6. CASE OpensFirewall \/ FirewallFails \/ Registers \/ RegistrationFails
      BY <2>6 DEF OpensFirewall, FirewallFails, Registers, RegistrationFails
    <2>7. CASE StartFails \/ WritesStamp
      BY <2>7 DEF StartFails, WritesStamp
    <2> QED
      BY <1>2, <2>1, <2>2, <2>3, <2>4, <2>5, <2>6, <2>7 DEF InstallSteps
  <1>3. CASE UninstallSteps
    <2> USE DEF Proceeds, Ends
    <2>1. CASE \E r \in Asked : Uninstalls(r)
      BY <2>1 DEF Uninstalls
    <2>2. CASE TellsToStop
      BY <2>2 DEF TellsToStop, Halts
    <2>3. CASE DeletesService
      BY <2>3 DEF DeletesService
    <2>4. CASE VerifiesDelete
      BY <2>4 DEF VerifiesDelete
    <2>8. CASE KillsLastHelpers
      BY <2>8 DEF KillsLastHelpers
    <2>5. CASE ClosesFirewall
      BY <2>5 DEF ClosesFirewall
    <2>6. CASE RemovesProgram \/ Purges
      BY <2>6 DEF RemovesProgram, Purges
    <2>7. CASE RemovesStamp \/ Reports
      BY <2>7 DEF RemovesStamp, Reports
    <2> QED
      BY <1>3, <2>1, <2>2, <2>3, <2>4, <2>5, <2>6, <2>7, <2>8 DEF UninstallSteps
  <1> QED
    BY <1>1, <1>2, <1>3 DEF Next

LEMMA RemovalStep ==
    ASSUME RestTypes, ServiceAgrees, RemovalAgrees, Next
    PROVE  RemovalAgrees'
  <1> USE DEF RemovalAgrees, serviceVars, diskVars, commandVars, pastVars
  <1>1. CASE \/ SavesChange \/ (\E t \in Tokens : SignsIn(t)) \/ Spawns \/ OrphanEnds \/ StopsLate
             \/ Crashes \/ ConsoleOpensOrCloses \/ Drops \/ PowerCycle
    <2> USE DEF ServiceAgrees
    <2>1. CASE SavesChange \/ (\E t \in Tokens : SignsIn(t))
      BY <2>1 DEF SavesChange, SignsIn
    <2>2. CASE Spawns
      BY <2>2 DEF Spawns, IsUp
    <2>3. CASE OrphanEnds
      BY <2>3 DEF OrphanEnds
    <2>4. CASE StopsLate
      BY <2>4 DEF StopsLate, Halts
    <2>5. CASE ConsoleOpensOrCloses \/ Drops
      BY <2>5 DEF ConsoleOpensOrCloses, Drops
    <2>6. CASE Crashes
      BY <2>6 DEF Crashes, Boots, IsUp
    <2>7. CASE PowerCycle
      BY <2>7 DEF PowerCycle
    <2> QED
      BY <1>1, <2>1, <2>2, <2>3, <2>4, <2>5, <2>6, <2>7
  <1>2. CASE InstallSteps
    <2>1. ~gone' /\ at' \in Installing \union {"idle"}
      BY <1>2 DEF InstallSteps, Installing, Goes, Ends, Installs, GivesUp, SavesConfig, StopsService,
                  StopTimesOut, KillsHelpers, SettlesSessions, CopiesBinary, Hardens, StagingFails,
                  OpensFirewall, FirewallFails, Registers, RegistrationFails, Starts, StartFails,
                  WritesStamp
    <2> QED
      BY <2>1 DEF Installing
  <1>3. CASE UninstallSteps
    <2> USE DEF Proceeds, Ends, Leaves
    <2>1. CASE \E r \in Asked : Uninstalls(r)
      BY <2>1 DEF Uninstalls
    <2>2. CASE TellsToStop
      BY <2>2 DEF TellsToStop
    <2>3. CASE DeletesService
      BY <2>3 DEF DeletesService
    <2>4. CASE VerifiesDelete
      BY <2>4 DEF VerifiesDelete
    <2>5. CASE KillsLastHelpers
      BY <2>5 DEF KillsLastHelpers
    <2>6. CASE ClosesFirewall
      BY <2>6 DEF ClosesFirewall
    <2>7. CASE RemovesProgram
      BY <2>7 DEF RemovesProgram
    <2>8. CASE Purges
      BY <2>8 DEF Purges
    <2>9. CASE RemovesStamp
      BY <2>9 DEF RemovesStamp
    <2>10. CASE Reports
      BY <2>10 DEF Reports, ServiceAgrees
    <2> QED
      BY <1>3, <2>1, <2>2, <2>3, <2>4, <2>5, <2>6, <2>7, <2>8, <2>9, <2>10 DEF UninstallSteps
  <1> QED
    BY <1>1, <1>2, <1>3 DEF Next

\* What is asked stays what was asked.
LEMMA AskedStays == run' = run => asked' = asked
  BY DEF asked

LEMMA SettingsStep ==
    ASSUME RestTypes, CommandAgrees, ServiceAgrees, SettingsAgree, Next
    PROVE  SettingsAgree'
  <1> USE DEF SettingsAgree, Deploying, serviceVars, diskVars, commandVars, pastVars
  <1>1. CASE \/ SavesChange \/ (\E t \in Tokens : SignsIn(t)) \/ Spawns \/ OrphanEnds \/ StopsLate
             \/ Crashes \/ ConsoleOpensOrCloses \/ Drops \/ PowerCycle
    <2> USE AskedStays
    <2>1. CASE SavesChange
      BY <2>1 DEF SavesChange
    <2>2. CASE (\E t \in Tokens : SignsIn(t)) \/ Spawns \/ OrphanEnds \/ StopsLate
      BY <2>2 DEF SignsIn, Spawns, OrphanEnds, StopsLate
    <2>3. CASE Crashes \/ ConsoleOpensOrCloses \/ Drops \/ PowerCycle
      BY <2>3 DEF Crashes, ConsoleOpensOrCloses, Drops, PowerCycle
    <2> QED
      BY <1>1, <2>1, <2>2, <2>3
  <1>2. CASE \E r \in Asked : Installs(r)
    <2>1. PICK r \in Asked : Installs(r)
      BY <1>2
    <2>2. CASE config = {}
      BY <2>1, <2>2 DEF Installs, Loads
    <2>3. CASE config # {}
      <3>1. PICK c : config = {c}
        BY <2>3 DEF RestTypes, Option
      <3>2. (CHOOSE d \in config : TRUE) = c
        BY <3>1
      <3> QED
        BY <2>1, <2>3, <3>1, <3>2 DEF Installs, Loads
    <2> QED
      BY <2>2, <2>3
  <1>3. CASE InstallSteps /\ ~(\E r \in Asked : Installs(r))
    <2> USE AskedStays DEF Goes, Ends
    <2>1. CASE GivesUp
      BY <2>1 DEF GivesUp
    <2>2. CASE SavesConfig
      BY <2>2 DEF SavesConfig
    <2>3. CASE StopsService \/ StopTimesOut \/ KillsHelpers \/ SettlesSessions \/ CopiesBinary
      BY <2>3 DEF StopsService, StopTimesOut, KillsHelpers, SettlesSessions, CopiesBinary
    <2>4. CASE Hardens \/ StagingFails \/ OpensFirewall \/ FirewallFails
      BY <2>4 DEF Hardens, StagingFails, OpensFirewall, FirewallFails
    <2>5. CASE Registers \/ RegistrationFails \/ Starts \/ StartFails \/ WritesStamp
      BY <2>5 DEF Registers, RegistrationFails, Starts, StartFails, WritesStamp
    <2> QED
      BY <1>3, <2>1, <2>2, <2>3, <2>4, <2>5 DEF InstallSteps
  <1>4. CASE UninstallSteps
    <2>1. at' \in Removing \union {"idle"}
      BY <1>4 DEF UninstallSteps, Removing, Proceeds, Ends, Uninstalls, TellsToStop, DeletesService,
                  VerifiesDelete, KillsLastHelpers, ClosesFirewall, RemovesProgram, Purges,
                  RemovesStamp, Reports
    <2> QED
      BY <2>1 DEF Removing
  <1> QED
    BY <1>1, <1>2, <1>3, <1>4 DEF Next, InstallSteps

-----------------------------------------------------------------------------

IInv ==
    /\ TypeOK /\ CommandAgrees /\ ServiceAgrees
    /\ EnforcementAgrees /\ RevokedAgrees /\ RemovalAgrees /\ SettingsAgree

LEMMA Inductive == Spec => []IInv
  <1>1. Init => IInv
    BY InitTypes, InitAgrees DEF IInv
  <1>2. ASSUME IInv, UNCHANGED vars
        PROVE  IInv'
    <2>1. TypeOK' /\ CommandAgrees'
      BY <1>2, StepTypes DEF IInv
    <2>2. /\ registration' = registration /\ running' = running /\ stopping' = stopping /\ off' = off
          /\ helper' = helper /\ orphans' = orphans /\ exe' = exe /\ stamp' = stamp
          /\ firewall' = firewall /\ config' = config /\ readable' = readable
          /\ sessions' = sessions /\ signedIn' = signedIn /\ at' = at /\ run' = run /\ base' = base
          /\ found' = found /\ leftovers' = leftovers /\ wanted' = wanted
          /\ meddled' = meddled /\ revoked' = revoked /\ gone' = gone
      BY <1>2 DEF vars, serviceVars, diskVars, commandVars, pastVars
    <2>3. ServiceAgrees' /\ EnforcementAgrees' /\ RevokedAgrees'
      BY <1>2, <2>2 DEF IInv, ServiceAgrees, EnforcementAgrees, RevokedAgrees, CanBoot
    <2>4. RemovalAgrees' /\ SettingsAgree'
      BY <1>2, <2>2, AskedStays DEF IInv, RemovalAgrees, SettingsAgree
    <2> QED
      BY <2>1, <2>3, <2>4 DEF IInv
  <1>3. ASSUME IInv, Next
        PROVE  IInv'
    <2>1. RestTypes /\ TypeOK' /\ CommandAgrees'
      BY <1>3, StepTypes, TypeParts DEF IInv
    <2> QED
      BY <1>3, <2>1, ServiceStep, EnforcementStep, RevokedStep, RemovalStep, SettingsStep DEF IInv
  <1> QED
    BY <1>1, <1>2, <1>3, PTL DEF Spec

(* A device signed out by --revoke-sessions does not come back, whatever the *)
(* service that held its session writes or loads, whichever step fails and   *)
(* whenever the power goes.  (install.rs settle_sessions, deploy.)           *)
THEOREM RevokedAlwaysStaysOut == Spec => []RevokedStaysOut
  <1>1. IInv => RevokedStaysOut
    BY DEF IInv, RevokedAgrees, RevokedStaysOut
  <1> QED
    BY <1>1, Inductive, PTL

(* Whatever an install or an uninstall has come to, a machine between        *)
(* commands that could be enforced is, unless a step that names itself is    *)
(* why not.  (install.rs deploy.)                                            *)
THEOREM EnforcementAlwaysReturns == Spec => []EnforcementReturns
  <1>1. IInv => EnforcementReturns
    BY DEF IInv, EnforcementAgrees, EnforcementReturns, Deploying
  <1> QED
    BY <1>1, Inductive, PTL

(* When uninstall has said that it is done, nothing of the service is left   *)
(* nor comes back.  (install.rs uninstall, remove_service.)                  *)
THEOREM UninstallIsAlwaysHonest == Spec => []UninstallIsHonest
  <1>1. IInv => UninstallIsHonest
    BY DEF IInv, RemovalAgrees, UninstallIsHonest
  <1> QED
    BY <1>1, Inductive, PTL

(* The service an install starts has the password that was asked for, on the *)
(* settings that were found, unless the one it replaces has saved its own    *)
(* meanwhile.  (install.rs install.)                                         *)
THEOREM AlwaysInstalledAsAsked == Spec => InstalledAsAsked
  <1>1. ASSUME IInv, [Next]_vars, at' = "started", at # "started", ~meddled
        PROVE  policy' = [wanted EXCEPT !.password = asked.password]
    <2>1. Starts
      <3>1. at' # at
        BY <1>1
      <3>2. Next
        BY <1>1, <3>1 DEF vars, commandVars
      <3>3. CASE InstallSteps
        BY <1>1, <3>3 DEF InstallSteps, Goes, Ends, Installs, GivesUp, SavesConfig, StopsService,
             StopTimesOut, KillsHelpers, SettlesSessions, CopiesBinary, Hardens, StagingFails,
             OpensFirewall, FirewallFails, Registers, RegistrationFails, StartFails, WritesStamp
      <3>4. CASE UninstallSteps
        BY <1>1, <3>4 DEF UninstallSteps, Proceeds, Ends, Uninstalls, TellsToStop, DeletesService,
             VerifiesDelete, KillsLastHelpers, ClosesFirewall, RemovesProgram, Purges,
             RemovesStamp, Reports
      <3>5. CASE ~InstallSteps /\ ~UninstallSteps
        BY <1>1, <3>1, <3>2, <3>5 DEF Next, commandVars, SavesChange, SignsIn, Spawns, OrphanEnds,
             StopsLate, Crashes, ConsoleOpensOrCloses, Drops, PowerCycle
      <3> QED
        BY <3>3, <3>4, <3>5
    <2>2. at \in Deploying
      BY <2>1 DEF Starts, Deploying
    <2> QED
      BY <1>1, <2>1, <2>2 DEF IInv, SettingsAgree, Starts, Boots
  <1>2. IInv /\ [Next]_vars =>
            [ (at' = "started" /\ at # "started" /\ ~meddled)
                  => policy' = [wanted EXCEPT !.password = asked.password] ]_vars
    BY <1>1
  <1> QED
    BY <1>2, Inductive, PTL DEF Spec, InstalledAsAsked

-----------------------------------------------------------------------------
(* Diagnosis: what doctor says, line by line and section by section.       *)

\* What doctor's lines fail, and what they would have an install for.
FailsIn(lines) == {l.about : l \in {k \in lines : k.level = "fail"}}
AdvisesIn(lines) == {l.about : l \in {k \in lines : k.fix = "install"}}

\* Line by line.
LEMMA LinesSay ==
    /\ FailsIn({}) = {} /\ AdvisesIn({}) = {}
    /\ \A about : FailsIn(Ok(about)) = {} /\ AdvisesIn(Ok(about)) = {}
    /\ \A about, fix : /\ FailsIn(Warn(about, fix)) = {} /\ FailsIn(Fail(about, fix)) = {about}
                       /\ AdvisesIn(Warn(about, fix)) = (IF fix = "install" THEN {about} ELSE {})
                       /\ AdvisesIn(Fail(about, fix)) = (IF fix = "install" THEN {about} ELSE {})
<1>1. FailsIn({}) = {} /\ AdvisesIn({}) = {}
  BY DEF FailsIn, AdvisesIn
<1>2. \A about : FailsIn(Ok(about)) = {} /\ AdvisesIn(Ok(about)) = {}
  BY DEF FailsIn, AdvisesIn, Ok, Line
<1>3. ASSUME NEW l
      PROVE  /\ FailsIn({l}) = (IF l.level = "fail" THEN {l.about} ELSE {})
             /\ AdvisesIn({l}) = (IF l.fix = "install" THEN {l.about} ELSE {})
  <2>1. \A x : /\ x \in FailsIn({l}) <=> l.level = "fail" /\ x = l.about
               /\ x \in AdvisesIn({l}) <=> l.fix = "install" /\ x = l.about
    BY DEF FailsIn, AdvisesIn
  <2> QED BY <2>1
<1>4. ASSUME NEW about, NEW fix
      PROVE  /\ FailsIn(Warn(about, fix)) = {} /\ FailsIn(Fail(about, fix)) = {about}
             /\ AdvisesIn(Warn(about, fix)) = (IF fix = "install" THEN {about} ELSE {})
             /\ AdvisesIn(Fail(about, fix)) = (IF fix = "install" THEN {about} ELSE {})
  <2> DEFINE l == [level |-> "warn", about |-> about, fix |-> fix]
             k == [level |-> "fail", about |-> about, fix |-> fix]
  <2>1. Warn(about, fix) = {l} /\ Fail(about, fix) = {k}
    BY DEF Warn, Fail, Line
  <2>2. l.level = "warn" /\ l.about = about /\ l.fix = fix /\ k.level = "fail" /\ k.about = about /\ k.fix = fix
    OBVIOUS
  <2> HIDE DEF l, k
  <2> QED BY <1>3, <2>1, <2>2
<1> QED BY <1>1, <1>2, <1>4

\* Of several lots of lines, each says its own.
LEMMA TwoLotsSay ==
    \A a, b : /\ FailsIn(UNION {a, b}) = FailsIn(a) \union FailsIn(b)
              /\ AdvisesIn(UNION {a, b}) = AdvisesIn(a) \union AdvisesIn(b)
  BY DEF FailsIn, AdvisesIn

\* The same of three.
LEMMA ThreeLotsSay ==
    \A a, b, c : /\ FailsIn(UNION {a, b, c}) = FailsIn(a) \union FailsIn(b) \union FailsIn(c)
                 /\ AdvisesIn(UNION {a, b, c}) = AdvisesIn(a) \union AdvisesIn(b) \union AdvisesIn(c)
<1> TAKE a, b, c
<1>1. UNION {a, b, c} = UNION {UNION {a, b}, c}
  OBVIOUS
<1>2. /\ FailsIn(UNION {UNION {a, b}, c}) = FailsIn(UNION {a, b}) \union FailsIn(c)
      /\ AdvisesIn(UNION {UNION {a, b}, c}) = AdvisesIn(UNION {a, b}) \union AdvisesIn(c)
      /\ FailsIn(UNION {a, b}) = FailsIn(a) \union FailsIn(b)
      /\ AdvisesIn(UNION {a, b}) = AdvisesIn(a) \union AdvisesIn(b)
  BY TwoLotsSay
<1> QED BY <1>1, <1>2

\* The same of four.
LEMMA FourLotsSay ==
    \A a, b, c, d :
        /\ FailsIn(UNION {a, b, c, d}) = FailsIn(a) \union FailsIn(b) \union FailsIn(c) \union FailsIn(d)
        /\ AdvisesIn(UNION {a, b, c, d}) =
              AdvisesIn(a) \union AdvisesIn(b) \union AdvisesIn(c) \union AdvisesIn(d)
<1> TAKE a, b, c, d
<1>1. UNION {a, b, c, d} = UNION {UNION {a, b, c}, d}
  OBVIOUS
<1>2. /\ FailsIn(UNION {UNION {a, b, c}, d}) = FailsIn(UNION {a, b, c}) \union FailsIn(d)
      /\ AdvisesIn(UNION {UNION {a, b, c}, d}) = AdvisesIn(UNION {a, b, c}) \union AdvisesIn(d)
  BY TwoLotsSay
<1>3. /\ FailsIn(UNION {a, b, c}) = FailsIn(a) \union FailsIn(b) \union FailsIn(c)
      /\ AdvisesIn(UNION {a, b, c}) = AdvisesIn(a) \union AdvisesIn(b) \union AdvisesIn(c)
  BY ThreeLotsSay
<1> QED BY <1>1, <1>2, <1>3

\* The version of the service is never failed, and of this build nothing is asked.
LEMMA VersionLines ==
    \A m : /\ FailsIn(VersionCheck(m)) = {} 
           /\ m.stamp = {ThisBuild} => AdvisesIn(VersionCheck(m)) = {}
<1> TAKE m
<1>0. \A previous : ClassifyInstall(previous) \in {"Fresh", "Unknown", "Reinstall", "Upgrade", "Downgrade"}
  BY DEF ClassifyInstall
<1>1. FailsIn(VersionCheck(m)) = {}
  BY <1>0, LinesSay DEF VersionCheck
<1>2. ASSUME m.stamp = {ThisBuild} PROVE AdvisesIn(VersionCheck(m)) = {}
  <2>1. ThisBuild # 0 
    BY FiguresAssumption
  <2>2. ClassifyInstall(m.stamp) = "Reinstall"
    BY <1>2, <2>1 DEF ClassifyInstall
  <2> QED BY <2>2, LinesSay DEF VersionCheck
<1> QED BY <1>1, <1>2

\* Who wrote the settings is never failed, nor a reason to install.
LEMMA WrittenByLines == \A m : FailsIn(WrittenByCheck(m)) = {} /\ AdvisesIn(WrittenByCheck(m)) = {}
  BY LinesSay DEF WrittenByCheck

\* The config is failed when it may be seen and cannot be read, or is not there.
LEMMA ConfigurationLines ==
    ASSUME NEW m, m.config \in {"fine", "corrupt", "none"}
    PROVE  /\ ~m.elevated => FailsIn(ConfigurationSection(m)) = {} /\ AdvisesIn(ConfigurationSection(m)) = {}
           /\ m.elevated => (FailsIn(ConfigurationSection(m)) = {} <=> m.config = "fine")
           /\ m.elevated /\ m.config = "fine" /\ m.stamp = {ThisBuild} => AdvisesIn(ConfigurationSection(m)) = {}
<1> DEFINE loaded == CASE LoadsConfig(m) -> Ok("config")
                      [] ~m.elevated -> Warn("config not visible", "none")
                      [] m.elevated /\ m.config = "corrupt" -> Fail("config unreadable", "install")
                      [] m.elevated /\ m.config = "none" -> Fail("not installed", "install")
           versioned == IF m.elevated THEN VersionCheck(m) ELSE {}
           written == IF LoadsConfig(m) THEN WrittenByCheck(m) ELSE {}
<1>1. ConfigurationSection(m) = UNION {loaded, versioned, written}
  BY DEF ConfigurationSection
<1>2. /\ ~m.elevated => FailsIn(loaded) = {} /\ AdvisesIn(loaded) = {}
      /\ m.elevated => (FailsIn(loaded) = {} <=> m.config = "fine")
      /\ m.elevated /\ m.config = "fine" => AdvisesIn(loaded) = {}
  <2>1. CASE ~m.elevated
    <3>1. loaded = Warn("config not visible", "none")
      BY <2>1 DEF LoadsConfig
    <3> QED BY <2>1, <3>1, LinesSay
  <2>2. CASE m.elevated /\ m.config = "fine"
    <3>1. loaded = Ok("config")
      BY <2>2 DEF LoadsConfig
    <3> QED BY <2>2, <3>1, LinesSay
  <2>3. CASE m.elevated /\ m.config = "corrupt"
    <3>1. loaded = Fail("config unreadable", "install")
      BY <2>3 DEF LoadsConfig
    <3>2. FailsIn(loaded) = {"config unreadable"}
      BY <3>1, LinesSay
    <3> QED BY <2>3, <3>2
  <2>4. CASE m.elevated /\ m.config = "none"
    <3>1. loaded = Fail("not installed", "install")
      BY <2>4 DEF LoadsConfig
    <3>2. FailsIn(loaded) = {"not installed"}
      BY <3>1, LinesSay
    <3> QED BY <2>4, <3>2
  <2> QED BY <2>1, <2>2, <2>3, <2>4
<1>3. /\ FailsIn(versioned) = {} /\ (~m.elevated => AdvisesIn(versioned) = {})
      /\ m.stamp = {ThisBuild} => AdvisesIn(versioned) = {}
  BY LinesSay, VersionLines
<1>4. FailsIn(written) = {} /\ AdvisesIn(written) = {}
  BY LinesSay, WrittenByLines
<1> HIDE DEF loaded, versioned, written
<1>5. /\ FailsIn(ConfigurationSection(m)) = FailsIn(loaded)
      /\ AdvisesIn(ConfigurationSection(m)) = AdvisesIn(loaded) \union AdvisesIn(versioned)
  <2>1. /\ FailsIn(UNION {loaded, versioned, written}) = FailsIn(loaded) \union FailsIn(versioned) \union FailsIn(written)
        /\ AdvisesIn(UNION {loaded, versioned, written}) =
              AdvisesIn(loaded) \union AdvisesIn(versioned) \union AdvisesIn(written)
    BY ThreeLotsSay
  <2> QED BY <1>1, <1>3, <1>4, <2>1
<1> QED BY <1>2, <1>3, <1>5

\* The clock is failed when its zone is known and is not the one that was recorded.
LEMMA ClockLines ==
    \A m :
        /\ ~LoadsConfig(m) => FailsIn(ClockCheck(m)) = {} /\ AdvisesIn(ClockCheck(m)) = {"not anchored"}
        /\ LoadsConfig(m) => (FailsIn(ClockCheck(m)) = {} <=>
                                  ~(m.anchored /\ m.recorded # {} /\ m.zone # {} /\ m.recorded # m.zone))
        /\ LoadsConfig(m) /\ m.anchored /\ m.recorded = m.zone => AdvisesIn(ClockCheck(m)) = {}
<1> TAKE m
<1>1. CASE ~LoadsConfig(m) \/ ~m.anchored
  <2>1. ClockCheck(m) = Warn("not anchored", "install")
    BY <1>1 DEF ClockCheck
  <2> QED BY <1>1, <2>1, LinesSay
<1>2. CASE LoadsConfig(m) /\ m.anchored
  <2>1. CASE m.recorded # {} /\ (m.recorded = m.zone \/ m.zone = {})
    <3>1. ClockCheck(m) = Ok("clock")
      BY <1>2, <2>1 DEF ClockCheck
    <3> QED BY <1>2, <2>1, <3>1, LinesSay
  <2>2. CASE m.recorded # {} /\ m.zone # {} /\ m.recorded # m.zone
    <3>1. ClockCheck(m) = Fail("zone changed", "install")
      BY <1>2, <2>2 DEF ClockCheck
    <3>2. FailsIn(ClockCheck(m)) = {"zone changed"}
      BY <3>1, LinesSay
    <3> QED BY <1>2, <2>2, <3>2
  <2>3. CASE m.recorded = {}
    <3>1. ClockCheck(m) = IF m.zone = {} THEN Warn("no zone known", "none") ELSE Warn("no zone recorded", "install")
      BY <1>2, <2>3 DEF ClockCheck
    <3>2. FailsIn(ClockCheck(m)) = {} /\ (m.zone = {} => AdvisesIn(ClockCheck(m)) = {})
      <4>1. CASE m.zone = {}
        <5>1. ClockCheck(m) = Warn("no zone known", "none")
          BY <3>1, <4>1
        <5>2. FailsIn(ClockCheck(m)) = {}
          BY <5>1, LinesSay
        <5>3. AdvisesIn(ClockCheck(m)) = {}
          BY <5>1, LinesSay
        <5> QED BY <5>2, <5>3
      <4>2. CASE m.zone # {}
        BY <3>1, <4>2, LinesSay
      <4> QED BY <4>1, <4>2
    <3> QED BY <1>2, <2>3, <3>2
  <2> QED BY <2>1, <2>2, <2>3
<1> QED BY <1>1, <1>2

\* Of the network, only plaintext remoting and a port nobody listens on are failed.
LEMMA NetworkLines ==
    \A m :
        /\ FailsIn(NetworkSection(m)) =
               (IF m.plaintext THEN {"plaintext remoting"} ELSE {})
               \union (IF PortAsked(m) \in Serves(m) \union m.held THEN {} ELSE {"nothing listens"})
        /\ AdvisesIn(NetworkSection(m)) = IF ScopedRule(m) THEN {} ELSE {"firewall rule"}
<1> TAKE m
<1> DEFINE remote == IF m.plaintext THEN Fail("plaintext remoting", "none") ELSE {}
           remoting == IF m.remoting THEN Warn("remoting", "none") ELSE {}
           profile == IF m.networks = {} THEN Warn("networks unreadable", "none")
                      ELSE IF AllPublic(m) THEN Warn("network is public", "none") ELSE Ok("network")
           rule == IF ScopedRule(m) THEN Ok("firewall") ELSE Warn("firewall rule", "install")
           address == IF m.hosts # {} THEN Ok("address") ELSE Warn("offline", "none")
           listens == IF PortAsked(m) \in Serves(m) \union m.held THEN Ok("listening")
                    ELSE Fail("nothing listens", "none")
           router == IF m.elevated /\ MasqueradingRouter(m.signIns) THEN Warn("router masquerades", "none") ELSE {}
<1>1. PlatformNetworkChecks(m) = UNION {remote, remoting, profile, rule}
  BY DEF PlatformNetworkChecks
<1>2. NetworkSection(m) = UNION {address, listens, router, PlatformNetworkChecks(m)}
  BY DEF NetworkSection
<1>3. /\ FailsIn(remote) = (IF m.plaintext THEN {"plaintext remoting"} ELSE {}) /\ AdvisesIn(remote) = {}
      /\ FailsIn(remoting) = {} /\ AdvisesIn(remoting) = {}
      /\ FailsIn(profile) = {} /\ AdvisesIn(profile) = {}
      /\ FailsIn(rule) = {} /\ AdvisesIn(rule) = IF ScopedRule(m) THEN {} ELSE {"firewall rule"}
  BY LinesSay
<1>4. /\ FailsIn(address) = {} /\ AdvisesIn(address) = {}
      /\ FailsIn(listens) = (IF PortAsked(m) \in Serves(m) \union m.held THEN {} ELSE {"nothing listens"})
      /\ AdvisesIn(listens) = {}
      /\ FailsIn(router) = {} /\ AdvisesIn(router) = {}
  BY LinesSay
<1> HIDE DEF remote, remoting, profile, rule, address, listens, router
<1>5. /\ FailsIn(PlatformNetworkChecks(m)) = FailsIn(remote)
      /\ AdvisesIn(PlatformNetworkChecks(m)) = AdvisesIn(rule)
  <2>1. /\ FailsIn(UNION {remote, remoting, profile, rule}) =
              FailsIn(remote) \union FailsIn(remoting) \union FailsIn(profile) \union FailsIn(rule)
        /\ AdvisesIn(UNION {remote, remoting, profile, rule}) =
              AdvisesIn(remote) \union AdvisesIn(remoting) \union AdvisesIn(profile) \union AdvisesIn(rule)
    BY FourLotsSay
  <2> QED BY <1>1, <1>3, <2>1
<1>6. /\ FailsIn(NetworkSection(m)) = FailsIn(remote) \union FailsIn(listens)
      /\ AdvisesIn(NetworkSection(m)) = AdvisesIn(rule)
  <2>1. /\ FailsIn(UNION {address, listens, router, PlatformNetworkChecks(m)}) =
              FailsIn(address) \union FailsIn(listens) \union FailsIn(router) \union FailsIn(PlatformNetworkChecks(m))
        /\ AdvisesIn(UNION {address, listens, router, PlatformNetworkChecks(m)}) =
              AdvisesIn(address) \union AdvisesIn(listens) \union AdvisesIn(router) \union AdvisesIn(PlatformNetworkChecks(m))
    BY FourLotsSay
  <2> QED BY <1>2, <1>4, <1>5, <2>1
<1> QED BY <1>3, <1>4, <1>6

\* How the rules stand is never failed, nor a reason to install.
LEMMA EnforcementLines == \A m : FailsIn(EnforcementSection(m)) = {} /\ AdvisesIn(EnforcementSection(m)) = {}
<1> TAKE m
<1> DEFINE rules == IF ~m.targets THEN {} ELSE IF m.enforcing THEN Ok("rules") ELSE Warn("paused", "none")
           night == IF m.curfew THEN Ok("curfew") ELSE Warn("no curfew", "none")
           state == IF ~m.curfew /\ ~m.targets
                    THEN IF TickMode(m) = "Measure" THEN Warn("only counting", "none")
                         ELSE Warn("not even counting", "none")
                    ELSE UNION {rules, night}
           warned == IF m.targets /\ ~m.warns THEN Warn("no warning", "none") ELSE {}
           seen == Warn("no check-in seen", "none")
<1>1. EnforcementChecks(m) = UNION {state, seen, EarnedTimeCheck(m), warned}
  BY DEF EnforcementChecks
<1>2. FailsIn(rules) = {} /\ AdvisesIn(rules) = {} /\ FailsIn(night) = {} /\ AdvisesIn(night) = {}
  BY LinesSay
<1>3. FailsIn(UNION {rules, night}) = {} /\ AdvisesIn(UNION {rules, night}) = {}
  <2> HIDE DEF rules, night
  <2> QED BY <1>2, TwoLotsSay
<1>4. FailsIn(state) = {} /\ AdvisesIn(state) = {}
  <2> HIDE DEF rules, night
  <2> QED BY <1>3, LinesSay
<1>5. /\ FailsIn(warned) = {} /\ AdvisesIn(warned) = {} /\ FailsIn(seen) = {} /\ AdvisesIn(seen) = {}
      /\ FailsIn(EarnedTimeCheck(m)) = {} /\ AdvisesIn(EarnedTimeCheck(m)) = {}
  BY LinesSay DEF EarnedTimeCheck
<1> HIDE DEF rules, night, state, warned, seen
<1>6. FailsIn(EnforcementChecks(m)) = {} /\ AdvisesIn(EnforcementChecks(m)) = {}
  <2>1. /\ FailsIn(UNION {state, seen, EarnedTimeCheck(m), warned}) =
              FailsIn(state) \union FailsIn(seen) \union FailsIn(EarnedTimeCheck(m)) \union FailsIn(warned)
        /\ AdvisesIn(UNION {state, seen, EarnedTimeCheck(m), warned}) =
              AdvisesIn(state) \union AdvisesIn(seen) \union AdvisesIn(EarnedTimeCheck(m)) \union AdvisesIn(warned)
    BY FourLotsSay
  <2> QED BY <1>1, <1>4, <1>5, <2>1
<1> QED BY <1>6, LinesSay DEF EnforcementSection

\* Of Windows itself, only a service that is not there or does not run is failed.
LEMMA PlatformLines ==
    \A m :
        /\ FailsIn(PlatformChecks(m)) = (IF m.service = "running" THEN {}
               ELSE IF m.service = "none" THEN {"no service"} ELSE {"service not running"})
        /\ AdvisesIn(PlatformChecks(m)) = (IF m.service = "none" THEN {"no service"} ELSE {})
<1> TAKE m
<1> DEFINE service == IF m.service = "running" THEN Ok("service")
                      ELSE IF m.service = "none" THEN Fail("no service", "install")
                      ELSE Fail("service not running", "none")
           admins == IF m.admins THEN Ok("administrators") ELSE Warn("administrators unknown", "none")
           disk == IF m.elevated THEN DiskEncryptionCheck(m) ELSE {}
<1>1. PlatformChecks(m) = UNION {CaptureCheck(m), service, admins, disk}
  BY DEF PlatformChecks
<1>2. /\ FailsIn(CaptureCheck(m)) = {} /\ AdvisesIn(CaptureCheck(m)) = {}
      /\ FailsIn(admins) = {} /\ AdvisesIn(admins) = {}
      /\ FailsIn(disk) = {} /\ AdvisesIn(disk) = {}
  BY LinesSay DEF CaptureCheck, DiskEncryptionCheck
<1>3. /\ FailsIn(service) = (IF m.service = "running" THEN {}
               ELSE IF m.service = "none" THEN {"no service"} ELSE {"service not running"})
      /\ AdvisesIn(service) = (IF m.service = "none" THEN {"no service"} ELSE {})
  BY LinesSay
<1> HIDE DEF service, admins, disk
<1>4. FailsIn(PlatformChecks(m)) = FailsIn(service) /\ AdvisesIn(PlatformChecks(m)) = AdvisesIn(service)
  <2>1. /\ FailsIn(UNION {CaptureCheck(m), service, admins, disk}) =
              FailsIn(CaptureCheck(m)) \union FailsIn(service) \union FailsIn(admins) \union FailsIn(disk)
        /\ AdvisesIn(UNION {CaptureCheck(m), service, admins, disk}) =
              AdvisesIn(CaptureCheck(m)) \union AdvisesIn(service) \union AdvisesIn(admins) \union AdvisesIn(disk)
    BY FourLotsSay
  <2> QED BY <1>1, <1>2, <2>1
<1> QED BY <1>3, <1>4

\* A certificate fails when it has expired, and one whose age and print can be read is at worst old.
LEMMA CertificateSays ==
    ASSUME NEW cert \in Certificates
    PROVE  /\ FailsIn(CertificateLines(cert)) = {} <=> \A age \in cert.age : age < Validity
           /\ cert.legible => AdvisesIn(CertificateLines(cert)) \subseteq {"expired", "expires soon"}
<1> DEFINE left == DaysUntilExpiry(cert)
           ageing == IF left = {} THEN Warn("age unreadable", "none")
                     ELSE IF left = {0} THEN Fail("expired", "install")
                     ELSE IF \E d \in left : RenewalDue(d) THEN Warn("expires soon", "install")
                     ELSE Ok("certificate")
           printed == IF cert.legible THEN Ok("fingerprint") ELSE Warn("fingerprint unreadable", "install")
<1>1. left = {0} <=> ~ \A age \in cert.age : age < Validity
  <2>1. CASE cert.age = {}
    BY <2>1 DEF DaysUntilExpiry
  <2>2. ASSUME NEW a \in {0, Validity - RenewWarn, Validity}, cert.age = {a}
        PROVE  left = {0} <=> ~ \A age \in cert.age : age < Validity
    <3>1. left = {DaysLeft(a)}
      BY <2>2 DEF DaysUntilExpiry
    <3>2. DaysLeft(a) = 0 <=> ~(a < Validity)
      BY FiguresAssumption DEF DaysLeft
    <3> QED BY <2>2, <3>1, <3>2
  <2> QED BY <2>1, <2>2 DEF Certificates, Option
<1>2. CertificateLines(cert) = UNION {ageing, printed}
  BY DEF CertificateLines
<1>3. (FailsIn(ageing) = {} <=> left # {0}) /\ AdvisesIn(ageing) \subseteq {"expired", "expires soon"}
  <2> HIDE DEF left
  <2>1. CASE left = {0}
    <3>1. ageing = Fail("expired", "install")
      BY <2>1
    <3>2. FailsIn(ageing) = {"expired"} /\ AdvisesIn(ageing) = {"expired"}
      BY <3>1, LinesSay
    <3> QED BY <2>1, <3>2
  <2>2. CASE left = {} \/ (left # {0} /\ ~ \E d \in left : RenewalDue(d))
    <3>1. ageing = Warn("age unreadable", "none") \/ ageing = Ok("certificate")
      BY <2>2
    <3>2. FailsIn(ageing) = {} /\ AdvisesIn(ageing) = {}
      BY <3>1, LinesSay
    <3> QED BY <2>2, <3>2
  <2>3. CASE left # {} /\ left # {0} /\ \E d \in left : RenewalDue(d)
    <3>1. ageing = Warn("expires soon", "install")
      BY <2>3
    <3>2. FailsIn(ageing) = {} /\ AdvisesIn(ageing) = {"expires soon"}
      BY <3>1, LinesSay
    <3> QED BY <2>3, <3>2
  <2> QED BY <2>1, <2>2, <2>3
<1>4. FailsIn(printed) = {} /\ (cert.legible => AdvisesIn(printed) = {})
  BY LinesSay
<1> HIDE DEF left, ageing, printed
<1>5. /\ FailsIn(UNION {ageing, printed}) = FailsIn(ageing) \union FailsIn(printed)
      /\ AdvisesIn(UNION {ageing, printed}) = AdvisesIn(ageing) \union AdvisesIn(printed)
  BY TwoLotsSay
<1> QED BY <1>1, <1>2, <1>3, <1>4, <1>5

\* What doctor says of the certificate of a machine.
LEMMA CertificateSectionSays ==
    ASSUME NEW m, m.cert \in Option(Certificates)
    PROVE  /\ ~m.elevated => FailsIn(CertificateSection(m)) = {} /\ AdvisesIn(CertificateSection(m)) = {}
           /\ m.elevated => (FailsIn(CertificateSection(m)) = {} <=>
                  m.cert # {} /\ \A c \in m.cert : \A age \in c.age : age < Validity)
           /\ m.elevated /\ m.cert # {} /\ (\A c \in m.cert : c.legible) =>
                  AdvisesIn(CertificateSection(m)) \subseteq {"expired", "expires soon"}
<1>1. CASE ~m.elevated
  <2>1. CertificateSection(m) = Warn("certificate not visible", "none")
    BY <1>1 DEF CertificateSection
  <2> QED BY <1>1, <2>1, LinesSay
<1>2. CASE m.elevated /\ m.cert = {}
  <2>1. CertificateSection(m) = Fail("no certificate", "install")
    BY <1>2 DEF CertificateSection
  <2>2. FailsIn(CertificateSection(m)) = {"no certificate"}
    BY <2>1, LinesSay
  <2> QED BY <1>2, <2>2
<1>3. ASSUME NEW c \in Certificates, m.elevated, m.cert = {c}
      PROVE  /\ FailsIn(CertificateSection(m)) = {} <=> \A age \in c.age : age < Validity
             /\ c.legible => AdvisesIn(CertificateSection(m)) \subseteq {"expired", "expires soon"}
  <2>1. (CHOOSE d \in m.cert : TRUE) = c
    BY <1>3
  <2>2. CertificateSection(m) = CertificateLines(c)
    BY <1>3, <2>1 DEF CertificateSection
  <2> QED BY <2>2, CertificateSays
<1>4. CASE m.elevated /\ m.cert # {}
  <2>1. PICK c \in Certificates : m.cert = {c}
    BY <1>4 DEF Option
  <2> QED BY <1>3, <1>4, <2>1
<1> QED BY <1>1, <1>2, <1>4

\* doctor, section by section.
LEMMA DoctorSays ==
    ASSUME NEW m
    PROVE  /\ Failures(m) = FailsIn(ConfigurationSection(m)) \union FailsIn(ClockCheck(m))
               \union FailsIn(NetworkSection(m)) \union FailsIn(CertificateSection(m))
               \union FailsIn(PlatformChecks(m))
           /\ Advised(m) = AdvisesIn(ConfigurationSection(m)) \union AdvisesIn(ClockCheck(m))
               \union AdvisesIn(NetworkSection(m)) \union AdvisesIn(CertificateSection(m))
               \union AdvisesIn(PlatformChecks(m))
<1> DEFINE a == ConfigurationSection(m)
           b == ClockCheck(m)
           c == NetworkSection(m)
           d == CertificateSection(m)
           e == EnforcementSection(m)
           f == PlatformChecks(m)
<1>1. Doctor(m) = UNION {a, b, c, d, e, f}
  BY DEF Doctor
<1>2. FailsIn(e) = {} /\ AdvisesIn(e) = {}
  BY EnforcementLines
<1>3. Failures(m) = FailsIn(Doctor(m)) /\ Advised(m) = AdvisesIn(Doctor(m))
  BY DEF Failures, Advised, FailsIn, AdvisesIn
<1> HIDE DEF a, b, c, d, e, f
<1>4. UNION {a, b, c, d, e, f} = UNION {UNION {a, b, c}, UNION {d, e, f}}
  OBVIOUS
<1>5. /\ FailsIn(UNION {UNION {a, b, c}, UNION {d, e, f}}) = FailsIn(UNION {a, b, c}) \union FailsIn(UNION {d, e, f})
      /\ AdvisesIn(UNION {UNION {a, b, c}, UNION {d, e, f}}) =
            AdvisesIn(UNION {a, b, c}) \union AdvisesIn(UNION {d, e, f})
  BY TwoLotsSay
<1>6. /\ FailsIn(UNION {a, b, c}) = FailsIn(a) \union FailsIn(b) \union FailsIn(c)
      /\ AdvisesIn(UNION {a, b, c}) = AdvisesIn(a) \union AdvisesIn(b) \union AdvisesIn(c)
  BY ThreeLotsSay
<1>7. /\ FailsIn(UNION {d, e, f}) = FailsIn(d) \union FailsIn(e) \union FailsIn(f)
      /\ AdvisesIn(UNION {d, e, f}) = AdvisesIn(d) \union AdvisesIn(e) \union AdvisesIn(f)
  BY ThreeLotsSay
<1>8. /\ Failures(m) = FailsIn(a) \union FailsIn(b) \union FailsIn(c) \union FailsIn(d) \union FailsIn(f)
      /\ Advised(m) = AdvisesIn(a) \union AdvisesIn(b) \union AdvisesIn(c) \union AdvisesIn(d) \union AdvisesIn(f)
  BY <1>1, <1>2, <1>3, <1>4, <1>5, <1>6, <1>7
<1> QED BY <1>8 DEF a, b, c, d, e, f

\* The same machine, seen with elevation, differs in nothing else.
LEMMA SeenInFull ==
    ASSUME NEW m, Typed(m)
    PROVE  LET full == [m EXCEPT !.elevated = TRUE] IN
           /\ full.elevated = TRUE
           /\ full.config = m.config /\ full.port = m.port /\ full.anchored = m.anchored
           /\ full.recorded = m.recorded /\ full.zone = m.zone /\ full.cert = m.cert
           /\ full.service = m.service /\ full.served = m.served /\ full.held = m.held
           /\ full.plaintext = m.plaintext /\ full.rule = m.rule
  BY DEF Typed

\* doctor fails what does not work, and nothing else: of a machine seen with elevation.
LEMMA FailsWhatDoesNotWork ==
    ASSUME NEW m, m.config \in {"fine", "corrupt", "none"}, m.cert \in Option(Certificates), m.elevated,
           ~Impostor(m)
    PROVE  ExitsWell(m) <=> Works(m)
<1>1. ExitsWell(m) <=> /\ FailsIn(ConfigurationSection(m)) = {} /\ FailsIn(ClockCheck(m)) = {}
                       /\ FailsIn(NetworkSection(m)) = {} /\ FailsIn(CertificateSection(m)) = {}
                       /\ FailsIn(PlatformChecks(m)) = {}
  BY DoctorSays DEF ExitsWell
<1>2. FailsIn(ConfigurationSection(m)) = {} <=> m.config = "fine"
  BY ConfigurationLines
<1>3. FailsIn(PlatformChecks(m)) = {} <=> m.service = "running"
  BY PlatformLines
<1>4. FailsIn(CertificateSection(m)) = {} <=> (m.cert # {} /\ \A c \in m.cert : \A age \in c.age : age < Validity)
  BY CertificateSectionSays
<1>5. ASSUME m.config = "fine", m.service = "running"
      PROVE  /\ FailsIn(ClockCheck(m)) = {} <=> (m.anchored /\ m.zone # {} /\ m.recorded # {} => m.recorded = m.zone)
             /\ FailsIn(NetworkSection(m)) = {} <=> (~m.plaintext /\ m.served = m.port)
  <2>1. LoadsConfig(m) /\ PortAsked(m) = m.port /\ Serves(m) = {m.served}
    BY <1>5 DEF LoadsConfig, PortAsked, Serves
  <2>2. m.port \in Serves(m) \union m.held <=> m.served = m.port
    BY <2>1 DEF Impostor
  <2>3. FailsIn(ClockCheck(m)) = {} <=> ~(m.anchored /\ m.recorded # {} /\ m.zone # {} /\ m.recorded # m.zone)
    BY <2>1, ClockLines
  <2>4. FailsIn(NetworkSection(m)) = {} <=> ~m.plaintext /\ m.port \in Serves(m) \union m.held
    BY <2>1, NetworkLines
  <2> QED BY <2>2, <2>3, <2>4
<1> QED BY <1>1, <1>2, <1>3, <1>4, <1>5 DEF Works

\* Without elevation doctor says no more than with it, but for the port and the clock of a
\* config it cannot see.
LEMMA SaysNoMoreUnelevated ==
    ASSUME NEW m, Typed(m), ~m.elevated, NEW full, full = [m EXCEPT !.elevated = TRUE]
    PROVE  /\ Failures(m) \subseteq
                  Failures(full) \union (IF m.port # DefaultPort THEN {"nothing listens"} ELSE {})
           /\ Advised(m) \subseteq Advised(full) \union {"not anchored"}
<1>1. m.config \in {"fine", "corrupt", "none"} /\ m.cert \in Option(Certificates) /\ ~LoadsConfig(m)
  BY DEF Typed, LoadsConfig
<1>2. /\ full.port = m.port /\ full.service = m.service /\ full.served = m.served /\ full.held = m.held
      /\ full.plaintext = m.plaintext /\ full.rule = m.rule
  BY SeenInFull
<1>3. /\ FailsIn(ConfigurationSection(m)) = {} /\ FailsIn(ClockCheck(m)) = {} /\ FailsIn(CertificateSection(m)) = {}
      /\ AdvisesIn(ConfigurationSection(m)) = {} /\ AdvisesIn(CertificateSection(m)) = {}
      /\ AdvisesIn(ClockCheck(m)) = {"not anchored"}
  <2>1. FailsIn(ConfigurationSection(m)) = {} /\ AdvisesIn(ConfigurationSection(m)) = {}
    BY <1>1, ConfigurationLines
  <2>2. FailsIn(ClockCheck(m)) = {} /\ AdvisesIn(ClockCheck(m)) = {"not anchored"}
    BY <1>1, ClockLines
  <2>3. FailsIn(CertificateSection(m)) = {} /\ AdvisesIn(CertificateSection(m)) = {}
    BY <1>1, CertificateSectionSays
  <2> QED BY <2>1, <2>2, <2>3
<1>4. /\ FailsIn(PlatformChecks(m)) = FailsIn(PlatformChecks(full))
      /\ AdvisesIn(PlatformChecks(m)) = AdvisesIn(PlatformChecks(full))
  BY <1>2, PlatformLines
<1>5. AdvisesIn(NetworkSection(m)) = AdvisesIn(NetworkSection(full))
  BY <1>2, NetworkLines DEF ScopedRule
<1>6. FailsIn(NetworkSection(m)) \subseteq
          FailsIn(NetworkSection(full)) \union (IF m.port # DefaultPort THEN {"nothing listens"} ELSE {})
  <2>1. Serves(full) = Serves(m) /\ PortAsked(m) = DefaultPort
    BY <1>1, <1>2 DEF Serves, PortAsked
  <2>2. PortAsked(full) = m.port \/ PortAsked(full) = DefaultPort
    BY <1>2 DEF PortAsked
  <2> DEFINE remote == IF m.plaintext THEN {"plaintext remoting"} ELSE {}
             mine == IF DefaultPort \in Serves(m) \union m.held THEN {} ELSE {"nothing listens"}
             theirs == IF PortAsked(full) \in Serves(m) \union m.held THEN {} ELSE {"nothing listens"}
  <2>3. FailsIn(NetworkSection(m)) = remote \union mine
    BY <2>1, NetworkLines
  <2>4. FailsIn(NetworkSection(full)) = remote \union theirs
    BY <1>2, <2>1, NetworkLines
  <2>5. m.port = DefaultPort => mine = theirs
    BY <2>2
  <2>6. mine \subseteq {"nothing listens"}
    OBVIOUS
  <2> HIDE DEF remote, mine, theirs
  <2> QED BY <2>3, <2>4, <2>5, <2>6
<1>7. /\ Failures(m) = FailsIn(NetworkSection(m)) \union FailsIn(PlatformChecks(m))
      /\ Advised(m) = {"not anchored"} \union AdvisesIn(NetworkSection(m)) \union AdvisesIn(PlatformChecks(m))
  <2>1. Failures(m) = FailsIn(ConfigurationSection(m)) \union FailsIn(ClockCheck(m))
            \union FailsIn(NetworkSection(m)) \union FailsIn(CertificateSection(m))
            \union FailsIn(PlatformChecks(m))
    BY DoctorSays
  <2>2. Advised(m) = AdvisesIn(ConfigurationSection(m)) \union AdvisesIn(ClockCheck(m))
            \union AdvisesIn(NetworkSection(m)) \union AdvisesIn(CertificateSection(m))
            \union AdvisesIn(PlatformChecks(m))
    BY DoctorSays
  <2> QED BY <1>3, <2>1, <2>2
<1>8. /\ FailsIn(NetworkSection(full)) \subseteq Failures(full)
      /\ FailsIn(PlatformChecks(full)) \subseteq Failures(full)
  BY DoctorSays
<1>9. /\ AdvisesIn(NetworkSection(full)) \subseteq Advised(full)
      /\ AdvisesIn(PlatformChecks(full)) \subseteq Advised(full)
  BY DoctorSays
<1>10. Failures(m) \subseteq Failures(full) \union (IF m.port # DefaultPort THEN {"nothing listens"} ELSE {})
  <2> DEFINE unseen == IF m.port # DefaultPort THEN {"nothing listens"} ELSE {}
  <2>1. FailsIn(NetworkSection(m)) \subseteq FailsIn(NetworkSection(full)) \union unseen
    BY <1>6
  <2> HIDE DEF unseen
  <2>2. Failures(m) \subseteq Failures(full) \union unseen
    BY <1>4, <1>7, <1>8, <2>1
  <2> QED BY <2>2 DEF unseen
<1>11. Advised(m) \subseteq Advised(full) \union {"not anchored"}
  BY <1>4, <1>5, <1>7, <1>9
<1> QED BY <1>10, <1>11

\* A machine an install has finished on asks for no other, a certificate that is kept apart.
LEMMA NothingLeftToAdvise ==
    ASSUME NEW m, m.elevated, m.config = "fine", m.stamp = {ThisBuild}, m.anchored, m.recorded = m.zone,
           m.rule = "scoped", m.service = "running", m.cert \in Option(Certificates), m.cert # {},
           \A c \in m.cert : c.legible
    PROVE  Advised(m) \subseteq {"expired", "expires soon"}
<1>1. LoadsConfig(m) /\ ScopedRule(m)
  BY DEF LoadsConfig, ScopedRule
<1>2. AdvisesIn(ConfigurationSection(m)) = {}
  BY ConfigurationLines
<1>3. AdvisesIn(ClockCheck(m)) = {}
  BY <1>1, ClockLines
<1>4. AdvisesIn(NetworkSection(m)) = {} /\ AdvisesIn(PlatformChecks(m)) = {}
  BY <1>1, NetworkLines, PlatformLines
<1>5. AdvisesIn(CertificateSection(m)) \subseteq {"expired", "expires soon"}
  BY CertificateSectionSays
<1> QED BY <1>2, <1>3, <1>4, <1>5, DoctorSays

-----------------------------------------------------------------------------
(* Diagnosis: what the pre-flight blocks for.                              *)

\* What blocks, finding by finding.
LEMMA FindingsSay ==
    /\ Blockers({}) = {}
    /\ \A what, remedy : Blockers(Blocker(what, remedy)) = {what} /\ Blockers(Caution(what, remedy)) = {}
<1>1. Blockers({}) = {}
  BY DEF Blockers
<1>2. ASSUME NEW f PROVE Blockers({f}) = IF f.severity = "Blocker" THEN {f.what} ELSE {}
  <2>1. \A x : x \in Blockers({f}) <=> f.severity = "Blocker" /\ x = f.what
    BY DEF Blockers
  <2> QED BY <2>1
<1>3. ASSUME NEW what, NEW remedy
      PROVE  Blockers(Blocker(what, remedy)) = {what} /\ Blockers(Caution(what, remedy)) = {}
  <2> DEFINE f == [severity |-> "Blocker", what |-> what, remedy |-> remedy]
             g == [severity |-> "Caution", what |-> what, remedy |-> remedy]
  <2>1. Blocker(what, remedy) = {f} /\ Caution(what, remedy) = {g}
    BY DEF Blocker, Caution, Finding
  <2>2. f.severity = "Blocker" /\ f.what = what /\ g.severity = "Caution"
    OBVIOUS
  <2> HIDE DEF f, g
  <2> QED BY <1>2, <2>1, <2>2
<1> QED BY <1>1, <1>3

\* Of several checks, each blocks for its own.
LEMMA ChecksBlock ==
    /\ \A a, b : Blockers(UNION {a, b}) = Blockers(a) \union Blockers(b)
    /\ \A a, b, c : Blockers(UNION {a, b, c}) = Blockers(a) \union Blockers(b) \union Blockers(c)
<1>1. \A a, b : Blockers(UNION {a, b}) = Blockers(a) \union Blockers(b)
  BY DEF Blockers
<1>2. ASSUME NEW a, NEW b, NEW c
      PROVE  Blockers(UNION {a, b, c}) = Blockers(a) \union Blockers(b) \union Blockers(c)
  <2>1. UNION {a, b, c} = UNION {UNION {a, b}, c}
    OBVIOUS
  <2>2. /\ Blockers(UNION {UNION {a, b}, c}) = Blockers(UNION {a, b}) \union Blockers(c)
        /\ Blockers(UNION {a, b}) = Blockers(a) \union Blockers(b)
    BY <1>1
  <2> QED BY <2>1, <2>2
<1> QED BY <1>1, <1>2

\* The port blocks unless the service that runs is the one that is to have it.
LEMMA PortBlocks ==
    \A m, p : Blockers(CheckPort(m, p)) =
        IF RunningServicePort(m) = {p} THEN {}
        ELSE IF p \in m.held \union Serves(m) THEN {"port in use"}
        ELSE IF p \in m.reserved THEN {"port refused"} ELSE {}
  BY FindingsSay DEF CheckPort, BindFinding

\* The pre-flight, check by check.
LEMMA GatherBlocks ==
    ASSUME NEW m, NEW p
    PROVE  Blockers(Gather(m, p)) = Blockers(CheckPort(m, p))
               \union (IF m.tools THEN {} ELSE {"tools missing"})
               \union (IF m.disabled /\ m.service # "none" THEN {"disabled"} ELSE {})
<1> DEFINE tools == IF m.tools THEN {} ELSE Blocker("tools missing", "none")
           bedtime == IF m.bedtimeTools THEN {} ELSE Caution("bedtime tools missing", "none")
           disabled == IF m.disabled THEN Blocker("disabled", "EnableService") ELSE {}
           ending == IF m.service = "stopping" THEN Caution("stopping", "none") ELSE {}
           a == CheckPort(m, p)
           b == CheckSystemTools(m)
           c == CheckExistingService(m)
           d == CheckMarkOfTheWeb(m)
           e == CheckNetworkProfile(m)
           f == CheckWindowsBuild(m)
<1>1. Blockers(b) = IF m.tools THEN {} ELSE {"tools missing"}
  <2>1. b = UNION {tools, bedtime}
    BY DEF CheckSystemTools
  <2>2. Blockers(tools) = (IF m.tools THEN {} ELSE {"tools missing"}) /\ Blockers(bedtime) = {}
    BY FindingsSay
  <2> HIDE DEF tools, bedtime
  <2>3. Blockers(UNION {tools, bedtime}) = Blockers(tools) \union Blockers(bedtime)
    BY ChecksBlock
  <2> QED BY <2>1, <2>2, <2>3
<1>2. Blockers(c) = IF m.disabled /\ m.service # "none" THEN {"disabled"} ELSE {}
  <2>1. CASE m.service = "none"
    BY <2>1, FindingsSay DEF CheckExistingService
  <2>2. CASE m.service # "none"
    <3>1. c = UNION {disabled, ending}
      BY <2>2 DEF CheckExistingService
    <3>2. Blockers(disabled) = (IF m.disabled THEN {"disabled"} ELSE {}) /\ Blockers(ending) = {}
      BY FindingsSay
    <3> HIDE DEF disabled, ending
    <3>3. Blockers(UNION {disabled, ending}) = Blockers(disabled) \union Blockers(ending)
      BY ChecksBlock
    <3> QED BY <2>2, <3>1, <3>2, <3>3
  <2> QED BY <2>1, <2>2
<1>3. Blockers(d) = {} /\ Blockers(e) = {} /\ Blockers(f) = {}
  BY FindingsSay DEF CheckMarkOfTheWeb, CheckNetworkProfile, CheckWindowsBuild
<1>4. Gather(m, p) = UNION {a, b, c, d, e, f}
  BY DEF Gather
<1> HIDE DEF a, b, c, d, e, f
<1>5. UNION {a, b, c, d, e, f} = UNION {UNION {a, b, c}, UNION {d, e, f}}
  OBVIOUS
<1>6. Blockers(UNION {UNION {a, b, c}, UNION {d, e, f}}) = Blockers(UNION {a, b, c}) \union Blockers(UNION {d, e, f})
  BY ChecksBlock
<1>7. /\ Blockers(UNION {a, b, c}) = Blockers(a) \union Blockers(b) \union Blockers(c)
      /\ Blockers(UNION {d, e, f}) = Blockers(d) \union Blockers(e) \union Blockers(f)
  BY ChecksBlock
<1>8. Blockers(Gather(m, p)) = Blockers(a) \union Blockers(b) \union Blockers(c)
  BY <1>3, <1>4, <1>5, <1>6, <1>7
<1> QED BY <1>1, <1>2, <1>8 DEF a

\* Machines that do not differ in the port, the tools or the service are blocked alike.
LEMMA BlockedAlike ==
    ASSUME NEW m, NEW n, NEW p,
           n.held = m.held, n.reserved = m.reserved, n.served = m.served, n.service = m.service,
           n.config = m.config, n.port = m.port, n.tools = m.tools, n.disabled = m.disabled
    PROVE  Blockers(Gather(n, p)) = Blockers(Gather(m, p))
<1>1. Serves(n) = Serves(m) /\ RunningServicePort(n) = RunningServicePort(m)
  BY DEF Serves, RunningServicePort
<1>2. Blockers(CheckPort(n, p)) = Blockers(CheckPort(m, p))
  BY <1>1, PortBlocks
<1>3. Blockers(Gather(n, p)) = Blockers(CheckPort(n, p))
          \union (IF n.tools THEN {} ELSE {"tools missing"})
          \union (IF n.disabled /\ n.service # "none" THEN {"disabled"} ELSE {})
  BY GatherBlocks
<1>4. Blockers(Gather(m, p)) = Blockers(CheckPort(m, p))
          \union (IF m.tools THEN {} ELSE {"tools missing"})
          \union (IF m.disabled /\ m.service # "none" THEN {"disabled"} ELSE {})
  BY GatherBlocks
<1> QED BY <1>2, <1>3, <1>4

\* What blocks is what would keep the service from running, but for a port that is its own.
LEMMA BlocksForWhatObstructs ==
    ASSUME NEW m, Possible(m)
    PROVE  /\ Untried(m) \/ Obstacles(m, port) \subseteq Blockers(Gather(m, port))
           /\ Blockers(Gather(m, port)) \subseteq
                  Obstacles(m, port) \union (IF Unrecognised(m) THEN {"port in use"} ELSE {})
<1> DEFINE portSays == Blockers(CheckPort(m, port))
           inUse == IF port \in m.held THEN {"port in use"} ELSE {}
           refused == IF port \in m.reserved \ m.held THEN {"port refused"} ELSE {}
           tools == IF m.tools THEN {} ELSE {"tools missing"}
           disabled == IF m.disabled /\ m.service # "none" THEN {"disabled"} ELSE {}
           unknown == IF Unrecognised(m) THEN {"port in use"} ELSE {}
<1>1. Obstacles(m, port) = inUse \union refused \union tools \union disabled
  <2>1. Obstacles(m, port) = UNION {inUse, refused, tools, disabled}
    BY DEF Obstacles
  <2> HIDE DEF inUse, refused, tools, disabled
  <2> QED BY <2>1
<1>2. Blockers(Gather(m, port)) = portSays \union tools \union disabled
  BY GatherBlocks
<1>3. portSays = IF RunningServicePort(m) = {port} THEN {}
               ELSE IF port \in m.held \union Serves(m) THEN {"port in use"}
               ELSE IF port \in m.reserved THEN {"port refused"} ELSE {}
  BY PortBlocks
<1>4. port \in Serves(m) => port \notin m.held /\ port \notin m.reserved
  BY DEF Possible
<1>5. RunningServicePort(m) = {port} => Untried(m) \/ port \in Serves(m)
  BY DEF RunningServicePort, Untried, Serves
<1>6. Untried(m) \/ inUse \union refused \subseteq portSays
  BY <1>3, <1>4, <1>5
<1>7. portSays \subseteq inUse \union refused \union unknown
  BY <1>3 DEF Unrecognised
<1> HIDE DEF portSays, inUse, refused, tools, disabled, unknown
<1>8. Untried(m) \/ Obstacles(m, port) \subseteq Blockers(Gather(m, port))
  BY <1>1, <1>2, <1>6
<1>9. Blockers(Gather(m, port)) \subseteq Obstacles(m, port) \union unknown
  BY <1>1, <1>2, <1>7
<1> QED BY <1>8, <1>9 DEF unknown

-----------------------------------------------------------------------------
(* Diagnosis: what an install makes of a machine, step by step.            *)

\* A healthy machine is a machine.
LEMMA HealthyIsTyped == \A p, zone : Typed(Healthy(p, zone))
  BY DEF Typed, Healthy, Certificates, Option

\* So is one with something else about it.
LEMMA NearIsTyped ==
    ASSUME NEW m, Typed(m), NEW n \in Near(m) \union Harmless(m)
    PROVE  Typed(n)
<1> DEFINE Alike(k) == DOMAIN k = DOMAIN m /\ k.config = m.config /\ k.cert = m.cert
           configs == {m} \union {[m EXCEPT !.config = c] : c \in {"corrupt", "none"}}
           marks == {[m EXCEPT !.anchored = FALSE], [m EXCEPT !.recorded = {}], [m EXCEPT !.key = FALSE]}
           zones == {[m EXCEPT !.zone = z] : z \in Option(Zones)}
           stamps == {[m EXCEPT !.stamp = b] : b \in Option(Builds)}
           certs == {[m EXCEPT !.cert = c] : c \in Option(Certificates)}
           named == {[m EXCEPT !.sans = h] : h \in {{}, {"name"}}}
           called == {[m EXCEPT !.hosts = h] : h \in {{}, {"name"}, {"address"}}}
           states == {[m EXCEPT !.service = s] : s \in {"none", "stopped", "starting", "stopping"}}
           barred == {[m EXCEPT !.disabled = TRUE], [m EXCEPT !.disabled = TRUE, !.service = "stopped"]}
           serving == {[m EXCEPT !.served = p] : p \in Ports}
           holding == {[m EXCEPT !.held = {p}] : p \in Ports}
           reserving == {[m EXCEPT !.reserved = {p}] : p \in Ports}
           hooking == {[m EXCEPT !.hooked = {p}] : p \in Ports}
           remotes == {[m EXCEPT !.plaintext = TRUE], [m EXCEPT !.remoting = TRUE]}
           joined == {[m EXCEPT !.networks = k] : k \in SUBSET {"Public", "Private"}}
           others == {[m EXCEPT !.rule = "none"], [m EXCEPT !.marked = TRUE], [m EXCEPT !.tools = FALSE]}
           rules == {[m EXCEPT !.curfew = r.curfew, !.enforcing = r.enforcing, !.targets = r.targets,
                               !.warns = r.warns] : r \in [{"curfew", "enforcing", "targets", "warns"} -> BOOLEAN]}
           writers == {[m EXCEPT !.writer = b] : b \in Option(Builds)}
           walls == {[m EXCEPT !.rule = r] : r \in {"wide", "disabled"}}
           rows == {[m EXCEPT !.signIns = s] :
                       s \in {[address : {"router"}, agent : 1 .. MinDevices], [address : Addresses, agent : {1}]}}
           builds == {[m EXCEPT !.build = b] : b \in {0, MinCapture - 1}}
           disks == {[m EXCEPT !.disk = d] : d \in Option(0 .. 2)}
           rest == {[m EXCEPT !.probing = TRUE], [m EXCEPT !.admins = FALSE], [m EXCEPT !.bedtimeTools = FALSE]}
<1>0. /\ {"anchored", "recorded", "curfew", "enforcing", "targets", "warns", "probing", "sans", "stamp", "zone", "key",
          "hosts", "service", "disabled", "served", "held", "reserved", "hooked", "plaintext", "remoting", "networks",
          "rule", "signIns", "build", "admins", "disk", "tools", "bedtimeTools", "marked", "writer"} \subseteq DOMAIN m
      /\ {"config", "cert"} \subseteq DOMAIN m
  BY DEF Typed
<1>1. Near(m) = UNION {configs, marks, zones, stamps, certs, named, called, states, barred, serving, holding,
                      reserving, hooking, remotes, joined, others}
  BY Zenon DEF Near
<1>2. \A k \in configs : Typed(k)
  BY DEF Typed
<1>3. \A k \in certs : Typed(k)
  BY DEF Typed
<1>4. \A k : Alike(k) => Typed(k)
  BY DEF Typed
<1>5. /\ \A k \in marks : Alike(k)
      /\ \A k \in zones : Alike(k)
      /\ \A k \in stamps : Alike(k)
      /\ \A k \in named : Alike(k)
      /\ \A k \in called : Alike(k)
      /\ \A k \in states : Alike(k)
      /\ \A k \in barred : Alike(k)
      /\ \A k \in serving : Alike(k)
      /\ \A k \in holding : Alike(k)
      /\ \A k \in reserving : Alike(k)
      /\ \A k \in hooking : Alike(k)
      /\ \A k \in remotes : Alike(k)
      /\ \A k \in joined : Alike(k)
      /\ \A k \in others : Alike(k)
  <2>1. \A k \in marks : Alike(k)
    BY <1>0
  <2>2. \A k \in zones : Alike(k)
    BY <1>0
  <2>3. \A k \in stamps : Alike(k)
    BY <1>0
  <2>4. \A k \in named : Alike(k)
    BY <1>0
  <2>5. \A k \in called : Alike(k)
    BY <1>0
  <2>6. \A k \in states : Alike(k)
    BY <1>0
  <2>7. \A k \in barred : Alike(k)
    BY <1>0
  <2>8. \A k \in serving : Alike(k)
    BY <1>0
  <2>9. \A k \in holding : Alike(k)
    BY <1>0
  <2>10. \A k \in reserving : Alike(k)
    BY <1>0
  <2>11. \A k \in hooking : Alike(k)
    BY <1>0
  <2>12. \A k \in remotes : Alike(k)
    BY <1>0
  <2>13. \A k \in joined : Alike(k)
    BY <1>0
  <2>14. \A k \in others : Alike(k)
    BY <1>0
  <2> QED BY <2>1, <2>2, <2>3, <2>4, <2>5, <2>6, <2>7, <2>8, <2>9, <2>10, <2>11, <2>12, <2>13, <2>14
<1>6. /\ \A k \in rules : Alike(k)
      /\ \A k \in writers : Alike(k)
      /\ \A k \in walls : Alike(k)
      /\ \A k \in rows : Alike(k)
      /\ \A k \in builds : Alike(k)
      /\ \A k \in disks : Alike(k)
      /\ \A k \in rest : Alike(k)
  <2>1. \A k \in rules : Alike(k)
    BY <1>0
  <2>2. \A k \in writers : Alike(k)
    BY <1>0
  <2>3. \A k \in walls : Alike(k)
    BY <1>0
  <2>4. \A k \in rows : Alike(k)
    BY <1>0
  <2>5. \A k \in builds : Alike(k)
    BY <1>0
  <2>6. \A k \in disks : Alike(k)
    BY <1>0
  <2>7. \A k \in rest : Alike(k)
    BY <1>0
  <2> QED BY <2>1, <2>2, <2>3, <2>4, <2>5, <2>6, <2>7
<1>7. Harmless(m) = UNION {rules, writers, walls, rows, builds, disks, rest}
  BY Zenon DEF Harmless
<1> HIDE DEF Alike, configs, marks, zones, stamps, certs, named, called, states, barred, serving, holding,
             reserving, hooking, remotes, joined, others, rules, writers, walls, rows, builds, disks, rest
<1>9. \A k \in Near(m) : Typed(k)
  BY <1>1, <1>2, <1>3, <1>4, <1>5
<1>10. \A k \in Harmless(m) : Typed(k)
  BY <1>4, <1>6, <1>7
<1> QED BY <1>9, <1>10

\* The config an install writes, on a machine that is otherwise as it was.
LEMMA SavedIs ==
    ASSUME NEW m, Typed(m), NEW p
    PROVE  LET n == Saved(m, p) IN
           /\ Typed(n) /\ n.config = "fine" /\ n.anchored = TRUE /\ n.recorded = m.zone
           /\ n.zone = m.zone /\ n.cert = m.cert /\ n.elevated = m.elevated
           /\ n.service = m.service /\ n.served = m.served
           /\ n.held = m.held /\ n.reserved = m.reserved /\ n.hooked = m.hooked
<1> DEFINE b == IF m.config = "fine" THEN m
                ELSE [m EXCEPT !.curfew = FALSE, !.enforcing = TRUE, !.targets = FALSE, !.warns = TRUE,
                               !.probing = FALSE, !.sans = {}]
<1>1. /\ DOMAIN b = DOMAIN m
      /\ b.zone = m.zone /\ b.cert = m.cert /\ b.elevated = m.elevated
      /\ b.service = m.service /\ b.served = m.served
      /\ b.held = m.held /\ b.reserved = m.reserved /\ b.hooked = m.hooked
  BY DEF Typed
<1>2. Saved(m, p) = [b EXCEPT !.config = "fine", !.port = p, !.anchored = TRUE, !.recorded = m.zone,
                              !.writer = {ThisBuild}]
  BY DEF Saved
<1> HIDE DEF b
<1> QED BY <1>1, <1>2 DEF Typed

\* The certificate it leaves: the one there is, or a fresh one.
LEMMA CertifiedIs ==
    ASSUME NEW m, Typed(m)
    PROVE  LET n == Certified(m) IN
           /\ Typed(n) /\ n.config = m.config /\ n.anchored = m.anchored /\ n.recorded = m.recorded
           /\ n.zone = m.zone /\ n.elevated = m.elevated
           /\ n.service = m.service /\ n.served = m.served
           /\ n.held = m.held /\ n.reserved = m.reserved /\ n.hooked = m.hooked
           /\ n.cert # {} /\ (Keeps(m) => n.cert = m.cert) /\ (~Keeps(m) => \A c \in n.cert : c.legible)
<1>1. CASE Keeps(m)
  BY <1>1 DEF Certified, Keeps
<1>2. CASE ~Keeps(m)
  <2> DEFINE c == [age |-> {0}, legible |-> TRUE]
  <2>1. c \in Certificates /\ c.legible
    BY DEF Certificates, Option
  <2>2. {c} \in Option(Certificates)
    BY <2>1 DEF Option
  <2>3. Certified(m) = [m EXCEPT !.cert = {c}, !.key = TRUE, !.sans = m.hosts]
    BY <1>2 DEF Certified
  <2> HIDE DEF c
  <2> QED BY <1>2, <2>1, <2>2, <2>3 DEF Typed
<1> QED BY <1>1, <1>2

\* What a fix leaves is the same machine but for what it fixes.
LEMMA FixedIs ==
    ASSUME NEW m, Typed(m), NEW remedy \in Remedies
    PROVE  LET n == Fixed(m, remedy) IN
           /\ Typed(n) /\ n.elevated = m.elevated /\ n.service = m.service /\ n.served = m.served
           /\ n.held = m.held /\ n.reserved = m.reserved /\ n.hooked = m.hooked
<1>1. CASE remedy = "EnableService"
  BY <1>1 DEF Fixed, Typed
<1>2. CASE remedy = "UnblockFile"
  BY <1>2 DEF Fixed, Typed
<1>3. CASE remedy = "MakeNetworkPrivate"
  <2> DEFINE all == {IF n = "Public" THEN "Private" ELSE n : n \in m.networks}
  <2>1. Fixed(m, remedy) = [m EXCEPT !.networks = all]
    BY <1>3 DEF Fixed
  <2> HIDE DEF all
  <2> QED BY <2>1 DEF Typed
<1> QED BY <1>1, <1>2, <1>3 DEF Remedies

\* What holds of the ports of one machine holds of another that serves and is held alike.
LEMMA StaysPossible ==
    ASSUME NEW m, Possible(m), NEW n, n.service = m.service, n.served = m.served,
           n.held = m.held, n.reserved = m.reserved, n.hooked = m.hooked
    PROVE  Possible(n)
  BY DEF Possible, Serves

\* The fixes on offer are fixes.
LEMMA OffersAreRemedies == \A seen : Fixable(seen) \in Seq(Remedies)
<1> TAKE seen
<1> DEFINE offered(remedy) == IF \E f \in seen : f.remedy = remedy THEN <<remedy>> ELSE <<>>
           a == offered("EnableService")
           b == offered("UnblockFile")
           c == offered("MakeNetworkPrivate")
<1>1. Fixable(seen) = a \o b \o c
  BY DEF Fixable
<1>2. ASSUME NEW remedy \in Remedies PROVE offered(remedy) \in Seq(Remedies)
  <2>1. <<remedy>> \in Seq(Remedies) /\ <<>> \in Seq(Remedies)
    OBVIOUS
  <2>2. offered(remedy) = <<remedy>> \/ offered(remedy) = <<>>
    OBVIOUS
  <2> HIDE DEF offered
  <2> QED BY <2>1, <2>2
<1>3. {"EnableService", "UnblockFile", "MakeNetworkPrivate"} \subseteq Remedies
  BY DEF Remedies
<1> HIDE DEF offered
<1>4. a \in Seq(Remedies) /\ b \in Seq(Remedies) /\ c \in Seq(Remedies)
  BY <1>2, <1>3
<1> HIDE DEF a, b, c
<1>5. a \o b \in Seq(Remedies)
  BY <1>4, ConcatProperties
<1>6. (a \o b) \o c \in Seq(Remedies)
  BY <1>4, <1>5, ConcatProperties
<1> QED BY <1>1, <1>6

\* It holds to begin with.
LEMMA DiagnosisStarts == DiagnosisInit => DiagnosisIInv
<1> SUFFICES ASSUME DiagnosisInit PROVE DiagnosisIInv
  OBVIOUS
<1>1. Typed(machine)
  <2>1. PICK p \in Ports, z \in Zones :
            \/ \E m \in Near(Healthy(p, z)) : machine \in Near(m)
            \/ machine \in Harmless(Healthy(p, z))
    BY DEF DiagnosisInit
  <2>2. Typed(Healthy(p, z))
    BY HealthyIsTyped
  <2>3. CASE machine \in Harmless(Healthy(p, z))
    BY <2>2, <2>3, NearIsTyped
  <2>4. ASSUME NEW m \in Near(Healthy(p, z)), machine \in Near(m) PROVE Typed(machine)
    <3>1. Typed(m)
      BY <2>2, <2>4, NearIsTyped
    <3> QED BY <2>4, <3>1, NearIsTyped
  <2> QED BY <2>1, <2>3, <2>4
<1>2. Possible(machine)
  BY DEF DiagnosisInit
<1>3. FindingsAgree /\ AdviceAgrees
  BY DEF DiagnosisInit, FindingsAgree, AdviceAgrees
<1> QED BY <1>1, <1>2, <1>3 DEF DiagnosisIInv

\* An install begins with what it finds, and claims to have changed nothing when it has not.
LEMMA BeginsKeeps ==
    ASSUME DiagnosisIInv, NEW flag, NEW reset, Begins(flag, reset)
    PROVE  DiagnosisIInv'
<1>1. machine' = machine /\ asking' = "offering" /\ machine.elevated /\ findings' = Gather(machine, port')
      /\ offers' = Fixable(findings') /\ lied' = FALSE
  BY DEF Begins, Claims
<1>2. Typed(machine)' /\ Possible(machine)'
  BY <1>1 DEF DiagnosisIInv
<1>3. FindingsAgree'
  BY <1>1, OffersAreRemedies DEF FindingsAgree
<1>4. AdviceAgrees'
  BY <1>1 DEF AdviceAgrees
<1> QED BY <1>2, <1>3, <1>4 DEF DiagnosisIInv

\* A fix that is not wanted changes nothing.
LEMMA SkipsKeeps == ASSUME DiagnosisIInv, Skips PROVE DiagnosisIInv'
<1>1. UNCHANGED <<machine, asking, port, findings, changed, lied, fresh>> /\ offers' = Tail(offers) /\ offers # <<>>
  BY DEF Skips, lookingVars
<1>2. offers' \in Seq(Remedies)
  BY <1>1, HeadTailProperties DEF DiagnosisIInv, FindingsAgree
<1> QED BY <1>1, <1>2 DEF DiagnosisIInv, FindingsAgree, AdviceAgrees

\* One that is applied has what it was asked of looked at again.
LEMMA AppliesKeeps == ASSUME DiagnosisIInv, Applies PROVE DiagnosisIInv'
<1>1. /\ machine' = Fixed(machine, Head(offers)) /\ changed' = TRUE /\ asking = "offering" /\ asking' = asking
      /\ offers' = Tail(offers) /\ offers # <<>> /\ lied' = lied
  BY DEF Applies
<1>2. Head(offers) \in Remedies /\ offers' \in Seq(Remedies)
  BY <1>1, HeadTailProperties DEF DiagnosisIInv, FindingsAgree
<1>3. /\ Typed(machine') /\ machine'.elevated = machine.elevated
      /\ machine'.service = machine.service /\ machine'.served = machine.served
      /\ machine'.held = machine.held /\ machine'.reserved = machine.reserved /\ machine'.hooked = machine.hooked
  BY <1>1, <1>2, FixedIs DEF DiagnosisIInv
<1>4. Possible(machine')
  BY <1>3, StaysPossible DEF DiagnosisIInv
<1>5. FindingsAgree'
  BY <1>1, <1>2 DEF DiagnosisIInv, FindingsAgree
<1>6. AdviceAgrees'
  BY <1>1, <1>3 DEF DiagnosisIInv, AdviceAgrees
<1> QED BY <1>3, <1>4, <1>5, <1>6 DEF DiagnosisIInv

\* One that fails leaves what blocks as it was.
LEMMA FixFailsKeeps == ASSUME DiagnosisIInv, FixFails PROVE DiagnosisIInv'
<1>1. /\ asking = "offering" /\ UNCHANGED <<asking, port, findings, changed, lied, fresh>>
      /\ offers' = Tail(offers) /\ offers # <<>>
      /\ machine' = machine \/ machine' = [machine EXCEPT !.networks = {"Public", "Private"}]
  BY DEF FixFails
<1>2. offers' \in Seq(Remedies)
  BY <1>1, HeadTailProperties DEF DiagnosisIInv, FindingsAgree
<1>3. /\ Typed(machine') /\ machine'.elevated = machine.elevated
      /\ machine'.service = machine.service /\ machine'.served = machine.served
      /\ machine'.held = machine.held /\ machine'.reserved = machine.reserved /\ machine'.hooked = machine.hooked
      /\ machine'.config = machine.config /\ machine'.port = machine.port /\ machine'.tools = machine.tools
      /\ machine'.disabled = machine.disabled
  BY <1>1 DEF DiagnosisIInv, Typed
<1>4. Possible(machine')
  BY <1>3, StaysPossible DEF DiagnosisIInv
<1>5. Blockers(Gather(machine', port)) = Blockers(Gather(machine, port))
  BY <1>3, BlockedAlike
<1>6. FindingsAgree'
  BY <1>1, <1>2, <1>5 DEF DiagnosisIInv, FindingsAgree
<1>7. AdviceAgrees'
  BY <1>1, <1>3 DEF DiagnosisIInv, AdviceAgrees
<1> QED BY <1>3, <1>4, <1>6, <1>7 DEF DiagnosisIInv

\* With nothing fixed what was found decides, and still holds.
LEMMA NothingFixedKeeps == ASSUME DiagnosisIInv, NothingFixed PROVE DiagnosisIInv'
<1>1. /\ asking = "offering" /\ ~changed /\ asking' \in {"refused", "deploying"}
      /\ UNCHANGED <<machine, port, findings, offers, changed, lied, fresh>>
  BY DEF NothingFixed, Decides, lookingVars
<1>2. FindingsAgree'
  BY <1>1 DEF DiagnosisIInv, FindingsAgree
<1>3. AdviceAgrees'
  BY <1>1 DEF DiagnosisIInv, AdviceAgrees
<1> QED BY <1>1, <1>2, <1>3 DEF DiagnosisIInv

\* With something fixed it is found anew, and not claimed that nothing was.
LEMMA RechecksKeeps == ASSUME DiagnosisIInv, Rechecks PROVE DiagnosisIInv'
<1>1. /\ asking = "offering" /\ asking' \in {"refused", "deploying"}
      /\ findings' = Gather(machine, port) /\ lied' = (lied \/ FALSE)
      /\ UNCHANGED <<machine, port, offers>>
  BY DEF Rechecks, Decides, Claims
<1>2. FindingsAgree'
  BY <1>1 DEF DiagnosisIInv, FindingsAgree
<1>3. AdviceAgrees'
  BY <1>1 DEF DiagnosisIInv, AdviceAgrees
<1> QED BY <1>1, <1>2, <1>3 DEF DiagnosisIInv

\* A new password that does not do changes nothing.
LEMMA GivesUpKeeps == ASSUME DiagnosisIInv, GivesUpAsking PROVE DiagnosisIInv'
<1>1. asking' = "idle" /\ UNCHANGED <<machine, port, findings, offers, lied>>
  BY DEF GivesUpAsking, lookingVars
<1> QED BY <1>1 DEF DiagnosisIInv, FindingsAgree, AdviceAgrees

\* Nor does another console, but what may be seen.
LEMMA ElevatesKeeps == ASSUME DiagnosisIInv, Elevates PROVE DiagnosisIInv'
<1>1. /\ machine' = [machine EXCEPT !.elevated = ~@] /\ asking' = "idle"
      /\ UNCHANGED <<port, findings, offers, lied>>
  BY DEF Elevates, lookingVars
<1>2. /\ Typed(machine')
      /\ machine'.service = machine.service /\ machine'.served = machine.served
      /\ machine'.held = machine.held /\ machine'.reserved = machine.reserved /\ machine'.hooked = machine.hooked
  BY <1>1 DEF DiagnosisIInv, Typed
<1>3. Possible(machine')
  BY <1>2, StaysPossible DEF DiagnosisIInv
<1> QED BY <1>1, <1>2, <1>3 DEF DiagnosisIInv, FindingsAgree, AdviceAgrees

\* What somebody else does is of no account until the machine is looked at again.
LEMMA MovesKeeps == ASSUME DiagnosisIInv, Moves PROVE DiagnosisIInv'
<1>1. /\ Possible(machine') /\ fresh' = FALSE /\ UNCHANGED <<asking, port, findings, offers, changed, lied>>
      /\ \/ \E h \in SUBSET Ports : machine' = [machine EXCEPT !.held = h]
         \/ \E z \in Zones : machine' = [machine EXCEPT !.zone = {z}]
         \/ machine' = [machine EXCEPT !.networks = {"Public"}]
  BY DEF Moves, runVars
<1>2. Typed(machine') /\ machine'.elevated = machine.elevated
  BY <1>1 DEF DiagnosisIInv, Typed
<1>3. FindingsAgree'
  BY <1>1 DEF DiagnosisIInv, FindingsAgree
<1>4. AdviceAgrees'
  BY <1>1, <1>2 DEF DiagnosisIInv, AdviceAgrees
<1> QED BY <1>1, <1>2, <1>3, <1>4 DEF DiagnosisIInv

\* What keeps out of the way of an install that finishes leaves its port to the service alone.
LEMMA NothingInTheWay ==
    ASSUME NEW m, NEW p, Obstacles(m, p) = {}
    PROVE  p \notin m.held /\ p \notin m.reserved
<1> DEFINE inUse == IF p \in m.held THEN {"port in use"} ELSE {}
           refused == IF p \in m.reserved \ m.held THEN {"port refused"} ELSE {}
           tools == IF m.tools THEN {} ELSE {"tools missing"}
           disabled == IF m.disabled /\ m.service # "none" THEN {"disabled"} ELSE {}
<1>1. Obstacles(m, p) = UNION {inUse, refused, tools, disabled}
  BY DEF Obstacles
<1>2. inUse = {} /\ refused = {}
  <2> HIDE DEF inUse, refused, tools, disabled
  <2> QED BY <1>1
<1> QED BY <1>2

\* An install that finishes leaves a machine that asks for no other; one that fails, one that
\* serves nothing or is as it was but for its config.
LEMMA DeploysKeeps == ASSUME DiagnosisIInv, Deploys PROVE DiagnosisIInv'
<1> DEFINE saved == Saved(machine, port)
           ready == Certified(saved)
<1>1. asking = "deploying" /\ machine.elevated /\ UNCHANGED <<port, findings, offers, changed, fresh, lied>>
  BY DEF Deploys, DiagnosisIInv, AdviceAgrees
<1>2. /\ Typed(saved) /\ saved.config = "fine" /\ saved.anchored = TRUE /\ saved.recorded = machine.zone
      /\ saved.zone = machine.zone /\ saved.cert = machine.cert /\ saved.elevated = machine.elevated
      /\ saved.service = machine.service /\ saved.served = machine.served
      /\ saved.held = machine.held /\ saved.reserved = machine.reserved /\ saved.hooked = machine.hooked
  BY SavedIs DEF DiagnosisIInv
<1>3. /\ Typed(ready) /\ ready.config = "fine" /\ ready.anchored = TRUE /\ ready.recorded = machine.zone
      /\ ready.zone = machine.zone /\ ready.elevated = machine.elevated
      /\ ready.service = machine.service /\ ready.served = machine.served
      /\ ready.held = machine.held /\ ready.reserved = machine.reserved /\ ready.hooked = machine.hooked
      /\ ready.cert # {} /\ (Keeps(saved) => ready.cert = machine.cert)
      /\ (~Keeps(saved) => \A c \in ready.cert : c.legible)
  <2> HIDE DEF saved
  <2> QED BY <1>2, CertifiedIs
<1>4. \/ /\ Keeps(saved) => \A c \in machine.cert : c.legible
         /\ Obstacles(machine, port) = {} /\ port \notin machine.hooked
         /\ machine' = [ready EXCEPT !.service = "running", !.served = port, !.disabled = FALSE,
                                     !.rule = "scoped", !.stamp = {ThisBuild}]
         /\ asking' = "installed"
      \/ machine' = saved /\ asking' = "failed"
      \/ machine' = [ready EXCEPT !.service = IF @ = "none" THEN @ ELSE "stopped"] /\ asking' = "failed"
  BY DEF Deploys
<1> HIDE DEF saved, ready
<1>5. CASE machine' = saved /\ asking' = "failed"
  <2>1. Possible(machine')
    BY <1>2, <1>5, StaysPossible DEF DiagnosisIInv
  <2> QED BY <1>1, <1>2, <1>5, <2>1 DEF DiagnosisIInv, FindingsAgree, AdviceAgrees
<1>6. CASE machine' = [ready EXCEPT !.service = IF @ = "none" THEN @ ELSE "stopped"] /\ asking' = "failed"
  <2>1. Typed(machine') /\ machine'.service \in {"none", "stopped"}
    BY <1>3, <1>6 DEF Typed
  <2>2. Possible(machine')
    BY <2>1 DEF Possible, Serves
  <2> QED BY <1>1, <1>6, <2>1, <2>2 DEF DiagnosisIInv, FindingsAgree, AdviceAgrees
<1>7. CASE /\ Keeps(saved) => \A c \in machine.cert : c.legible
           /\ Obstacles(machine, port) = {} /\ port \notin machine.hooked
           /\ machine' = [ready EXCEPT !.service = "running", !.served = port, !.disabled = FALSE,
                                       !.rule = "scoped", !.stamp = {ThisBuild}]
           /\ asking' = "installed"
  <2>1. /\ Typed(machine') /\ machine'.config = "fine" /\ machine'.anchored = TRUE
        /\ machine'.recorded = machine'.zone /\ machine'.elevated = machine.elevated
        /\ machine'.service = "running" /\ machine'.served = port /\ machine'.rule = "scoped"
        /\ machine'.stamp = {ThisBuild} /\ machine'.cert = ready.cert
        /\ machine'.held = machine.held /\ machine'.reserved = machine.reserved
        /\ machine'.hooked = machine.hooked
    BY <1>3, <1>7 DEF Typed
  <2>2. Possible(machine')
    <3>1. Serves(machine') = {port}
      BY <2>1 DEF Serves
    <3>2. port \notin machine.held /\ port \notin machine.reserved /\ port \notin machine.hooked
      BY <1>7, NothingInTheWay
    <3> QED BY <2>1, <3>1, <3>2 DEF Possible
  <2>3. \A c \in machine'.cert : c.legible
    BY <1>3, <1>7, <2>1
  <2>4. machine'.cert \in Option(Certificates) /\ machine'.cert # {}
    BY <1>3, <2>1 DEF Typed
  <2>5. Advised(machine') \subseteq {"expired", "expires soon"}
    BY <1>1, <2>1, <2>3, <2>4, NothingLeftToAdvise
  <2> QED BY <1>1, <1>7, <2>1, <2>2, <2>5 DEF DiagnosisIInv, FindingsAgree, AdviceAgrees
<1> QED BY <1>4, <1>5, <1>6, <1>7

\* No step breaks it.
LEMMA DiagnosisStepKeeps == DiagnosisIInv /\ [DiagnosisNext]_diagnosisVars => DiagnosisIInv'
<1> SUFFICES ASSUME DiagnosisIInv, [DiagnosisNext]_diagnosisVars PROVE DiagnosisIInv'
  OBVIOUS
<1>1. CASE UNCHANGED diagnosisVars
  BY <1>1 DEF diagnosisVars, runVars, lookingVars, DiagnosisIInv, FindingsAgree, AdviceAgrees
<1>2. CASE \E flag \in Option(Ports), reset \in BOOLEAN : Begins(flag, reset)
  BY <1>2, BeginsKeeps
<1> QED BY <1>1, <1>2, SkipsKeeps, AppliesKeeps, FixFailsKeeps, NothingFixedKeeps, RechecksKeeps, DeploysKeeps,
           GivesUpKeeps, ElevatesKeeps, MovesKeeps DEF DiagnosisNext

\* What it says of doctor and of the pre-flight is what the two properties ask.
LEMMA DiagnosisIInvSuffices == DiagnosisIInv => DoctorIsRight /\ PreflightIsRight
<1> SUFFICES ASSUME DiagnosisIInv PROVE DoctorIsRight /\ PreflightIsRight
  OBVIOUS
<1> DEFINE full == [machine EXCEPT !.elevated = TRUE]
<1>1. Typed(machine) /\ Possible(machine) /\ FindingsAgree /\ AdviceAgrees
  BY DEF DiagnosisIInv
<1>2. /\ full.elevated = TRUE
      /\ full.config = machine.config /\ full.port = machine.port /\ full.anchored = machine.anchored
      /\ full.recorded = machine.recorded /\ full.zone = machine.zone /\ full.cert = machine.cert
      /\ full.service = machine.service /\ full.served = machine.served /\ full.held = machine.held
      /\ full.plaintext = machine.plaintext
  BY <1>1, SeenInFull
<1>3. ~machine.elevated =>
         /\ Failures(machine) \subseteq
                Failures(full) \union (IF machine.port # DefaultPort THEN {"nothing listens"} ELSE {})
         /\ Advised(machine) \subseteq Advised(full) \union {"not anchored"}
  BY <1>1, SaysNoMoreUnelevated
<1>4. full.config \in {"fine", "corrupt", "none"} /\ full.cert \in Option(Certificates)
  BY <1>1, <1>2 DEF Typed
<1> HIDE DEF full
<1>5. (Impostor(full) <=> Impostor(machine)) /\ (Works(full) <=> Works(machine))
  BY <1>2 DEF Impostor, Works
<1>6. ~Impostor(machine) => (ExitsWell(full) <=> Works(machine))
  BY <1>2, <1>4, <1>5, FailsWhatDoesNotWork
<1>7. AdviceHelps
  BY <1>1 DEF AdviceAgrees, AdviceHelps
<1>8. DoctorIsRight
  BY <1>3, <1>6, <1>7 DEF DoctorIsRight, full
<1>9. PreflightIsRight
  <2>1. ~lied
    BY <1>1 DEF FindingsAgree
  <2>2. ASSUME asking \in {"refused", "deploying"}, fresh
        PROVE  /\ Untried(machine) \/ Obstacles(machine, port) \subseteq Blockers(findings)
               /\ Blockers(findings) \subseteq
                      Obstacles(machine, port) \union (IF Unrecognised(machine) THEN {"port in use"} ELSE {})
    <3>1. Blockers(findings) = Blockers(Gather(machine, port))
      BY <1>1, <2>2 DEF FindingsAgree
    <3>2. /\ Untried(machine) \/ Obstacles(machine, port) \subseteq Blockers(Gather(machine, port))
          /\ Blockers(Gather(machine, port)) \subseteq
                 Obstacles(machine, port) \union (IF Unrecognised(machine) THEN {"port in use"} ELSE {})
      BY <1>1, BlocksForWhatObstructs
    <3> QED BY <3>1, <3>2
  <2> QED BY <2>1, <2>2 DEF PreflightIsRight
<1> QED BY <1>8, <1>9

\* doctor.rs run: on any machine, whatever an install or somebody else has made of it, what
\* doctor fails is what does not work, and what it would have an install for a finished
\* install has put right.
THEOREM DoctorIsAlwaysRight == DiagnosisSpec => []DoctorIsRight
<1> QED BY DiagnosisStarts, DiagnosisStepKeeps, DiagnosisIInvSuffices, PTL DEF DiagnosisSpec

\* preflight.rs: an install that goes ahead, or is refused, does so for what there is on the
\* machine, and says that nothing has been changed only when nothing has.
THEOREM PreflightIsAlwaysRight == DiagnosisSpec => []PreflightIsRight
<1> QED BY DiagnosisStarts, DiagnosisStepKeeps, DiagnosisIInvSuffices, PTL DEF DiagnosisSpec

=============================================================================
