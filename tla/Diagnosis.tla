----------------------------- MODULE Diagnosis -----------------------------
(***************************************************************************)
(* Looking before and after.  `doctor` reads a machine and says what is    *)
(* wrong with it and what to do; `preflight` is what `install` asks of it  *)
(* before anything is touched, with the fixes it offers.  Install has the  *)
(* steps of an installation and how each fails; here it is what it leaves. *)
(*                                                                         *)
(* The machine is healthy but for any two things that matter to it, or one *)
(* that does not, and whatever an install or somebody else makes of it.    *)
(***************************************************************************)
EXTENDS Naturals, Sequences, FiniteSets, Options

CONSTANTS
    Ports, DefaultPort,
    Zones,
    Builds, ThisBuild,   \* versions; 0 is a mark that is none
    Validity,            \* VALIDITY_DAYS
    RenewWarn,           \* RENEW_WARN_DAYS
    MinCapture,          \* MIN_CAPTURE_BUILD; 0 is a build that could not be read
    MinDevices,          \* MASQUERADE_MIN_DEVICES
    MaxMoves             \* bound: how often somebody else changes the machine

ASSUME PortsAssumption == DefaultPort \in Ports
ASSUME FiguresAssumption ==
    /\ {ThisBuild, Validity, RenewWarn, MinCapture, MinDevices, MaxMoves} \subseteq Nat
    /\ Builds \subseteq Nat /\ ThisBuild > 0 /\ RenewWarn < Validity

VARIABLES
    machine,   \* all that either looks at
    asking,        \* how far `install` is
    port,      \* the port it is for
    findings,  \* what the pre-flight has found
    offers,    \* the fixes not yet offered
    changed,   \* whether a fix was applied
    moves,     \* counter for the bound
    advised,   \* history: what doctor would have had an install for, when it began
    fresh,     \* history: whether nobody else has touched the machine since it was looked at
    altered,   \* history: whether this run has changed anything
    lied       \* history: whether it said it had not, and had

runVars == <<asking, port, findings, offers, changed>>
lookingVars == <<moves, advised, fresh, altered, lied>>
diagnosisVars == <<machine, runVars, lookingVars>>

Healthy(p, zone) ==
    [elevated |-> TRUE,
     \* config.json: whether it parses, and what it says
     config |-> "fine", port |-> p, anchored |-> TRUE, recorded |-> {zone}, writer |-> {ThisBuild},
     curfew |-> TRUE, enforcing |-> TRUE, targets |-> TRUE, warns |-> TRUE, probing |-> FALSE,
     sans |-> {"address", "name"},
     stamp |-> {ThisBuild},       \* installed.json
     zone |-> {zone},             \* what Windows reports
     \* how old the certificate is, if that can be read, and whether it is one
     cert |-> {[age |-> {0}, legible |-> TRUE]}, key |-> TRUE,
     hosts |-> {"address", "name"},
     service |-> "running", disabled |-> FALSE, served |-> p,
     \* ports that somebody else holds, that Windows keeps, or that fail to bind some other way
     held |-> {}, reserved |-> {}, hooked |-> {},
     plaintext |-> FALSE, remoting |-> FALSE,
     networks |-> {"Private"},    \* none: the query failed
     rule |-> "scoped", signIns |-> {}, build |-> MinCapture, admins |-> TRUE, disk |-> {1},
     tools |-> TRUE, bedtimeTools |-> TRUE, marked |-> FALSE]

Addresses == {"phone", "router"}
Devices == [address : Addresses, agent : 1 .. MinDevices]

Certificates == [age : Option({0, Validity - RenewWarn, Validity}), legible : BOOLEAN]

\* One thing is otherwise that matters.
Near(m) ==
    UNION {
      {m} \union {[m EXCEPT !.config = c] : c \in {"corrupt", "none"}},
      {[m EXCEPT !.anchored = FALSE], [m EXCEPT !.recorded = {}], [m EXCEPT !.key = FALSE]},
      {[m EXCEPT !.zone = z] : z \in Option(Zones)},
      {[m EXCEPT !.stamp = b] : b \in Option(Builds)},
      {[m EXCEPT !.cert = c] : c \in Option(Certificates)},
      {[m EXCEPT !.sans = h] : h \in {{}, {"name"}}},
      {[m EXCEPT !.hosts = h] : h \in {{}, {"name"}, {"address"}}},
      {[m EXCEPT !.service = s] : s \in {"none", "stopped", "starting", "stopping"}},
      {[m EXCEPT !.disabled = TRUE], [m EXCEPT !.disabled = TRUE, !.service = "stopped"]},
      {[m EXCEPT !.served = p] : p \in Ports},
      {[m EXCEPT !.held = {p}] : p \in Ports},
      {[m EXCEPT !.reserved = {p}] : p \in Ports},
      {[m EXCEPT !.hooked = {p}] : p \in Ports},
      {[m EXCEPT !.plaintext = TRUE], [m EXCEPT !.remoting = TRUE]},
      {[m EXCEPT !.networks = n] : n \in SUBSET {"Public", "Private"}},
      {[m EXCEPT !.rule = "none"], [m EXCEPT !.marked = TRUE], [m EXCEPT !.tools = FALSE]} }

\* Things that neither keep it from working nor from being installed.
Harmless(m) ==
    UNION {
      {[m EXCEPT !.curfew = r.curfew, !.enforcing = r.enforcing, !.targets = r.targets, !.warns = r.warns] :
          r \in [{"curfew", "enforcing", "targets", "warns"} -> BOOLEAN]},
      {[m EXCEPT !.writer = b] : b \in Option(Builds)},
      {[m EXCEPT !.rule = r] : r \in {"wide", "disabled"}},
      {[m EXCEPT !.signIns = s] :
          s \in {[address : {"router"}, agent : 1 .. MinDevices], [address : Addresses, agent : {1}]}},
      {[m EXCEPT !.build = b] : b \in {0, MinCapture - 1}},
      {[m EXCEPT !.disk = d] : d \in Option(0 .. 2)},
      {[m EXCEPT !.probing = TRUE], [m EXCEPT !.admins = FALSE], [m EXCEPT !.bedtimeTools = FALSE]} }

Serves(m) == IF m.service \in {"running", "starting", "stopping"} THEN {m.served} ELSE {}
\* Nobody holds a port the service has, nor was it refused.
Possible(m) == Serves(m) \intersect (m.held \union m.reserved \union m.hooked) = {}

DiagnosisTypeOK ==
    /\ machine.elevated \in BOOLEAN /\ machine.config \in {"fine", "corrupt", "none"}
    /\ {machine.port, machine.served} \subseteq Ports /\ Possible(machine)
    /\ asking \in {"idle", "offering", "refused", "deploying", "installed", "failed"}
    /\ port \in Ports /\ moves \in 0 .. MaxMoves
    /\ {changed, fresh, altered, lied} \subseteq BOOLEAN

DiagnosisInit ==
    /\ \E p \in Ports, z \in Zones :
           \/ \E m \in Near(Healthy(p, z)) : machine \in Near(m)
           \/ machine \in Harmless(Healthy(p, z))
    /\ Possible(machine)
    /\ asking = "idle" /\ port = DefaultPort /\ findings = {} /\ offers = <<>> /\ changed = FALSE
    /\ moves = 0 /\ advised = {} /\ fresh = TRUE /\ altered = FALSE /\ lied = FALSE

-----------------------------------------------------------------------------
(* Versions and certificates.                                              *)

ClassifyInstall(previous) ==
    IF previous = {} THEN "Fresh"
    ELSE IF previous = {0} THEN "Unknown"
    ELSE IF previous = {ThisBuild} THEN "Reinstall"
    ELSE IF \E v \in previous : v < ThisBuild THEN "Upgrade" ELSE "Downgrade"

ClassifyWrittenBy(writer) ==
    IF writer = {} THEN "Unversioned"
    ELSE IF ClassifyInstall(writer) = "Downgrade" THEN "Newer"
    ELSE IF ClassifyInstall(writer) = "Unknown" THEN "Unreadable"
    ELSE "ThisOrOlder"

DaysLeft(age) == IF age < Validity THEN Validity - age ELSE 0
RenewalDue(days) == days <= RenewWarn
DaysUntilExpiry(cert) == {DaysLeft(age) : age \in cert.age}

-----------------------------------------------------------------------------
(* doctor: a line is what it is about, how bad it is, and whether its fix   *)
(* is to run `nestwatch install`.                                           *)

Line(level, about, fix) == {[level |-> level, about |-> about, fix |-> fix]}
Ok(about) == Line("ok", about, "none")
Warn(about, fix) == Line("warn", about, fix)
Fail(about, fix) == Line("fail", about, fix)

\* The data folder is locked to SYSTEM and Administrators.
LoadsConfig(m) == m.elevated /\ m.config = "fine"
PortAsked(m) == IF LoadsConfig(m) THEN m.port ELSE DefaultPort

VersionCheck(m) ==
    LET kind == ClassifyInstall(m.stamp) IN
    CASE kind = "Reinstall" -> Ok("version")
      [] kind = "Upgrade" -> Warn("service is older", "install")
      [] kind = "Downgrade" -> Warn("service is newer", "none")
      [] kind = "Unknown" -> Warn("record unreadable", "install")
      [] kind = "Fresh" -> IF LoadsConfig(m) THEN Warn("no record", "install") ELSE {}

WrittenByCheck(m) ==
    IF ClassifyWrittenBy(m.writer) = "Newer" THEN Warn("settings are newer", "none")
    ELSE IF ClassifyWrittenBy(m.writer) = "Unreadable" THEN Warn("mark unreadable", "none")
    ELSE {}

ConfigurationSection(m) ==
    UNION {
      CASE LoadsConfig(m) -> Ok("config")
        [] ~m.elevated -> Warn("config not visible", "none")
        [] m.elevated /\ m.config = "corrupt" -> Fail("config unreadable", "install")
        [] m.elevated /\ m.config = "none" -> Fail("not installed", "install"),
      IF m.elevated THEN VersionCheck(m) ELSE {},
      IF LoadsConfig(m) THEN WrittenByCheck(m) ELSE {} }

\* A config that could not be read has neither.
ClockCheck(m) ==
    LET anchored == LoadsConfig(m) /\ m.anchored
        recorded == IF LoadsConfig(m) THEN m.recorded ELSE {}
    IN CASE ~anchored -> Warn("not anchored", "install")
         [] anchored /\ recorded # {} /\ recorded = m.zone -> Ok("clock")
         [] anchored /\ recorded # {} /\ m.zone # {} /\ recorded # m.zone -> Fail("zone changed", "install")
         [] anchored /\ recorded # {} /\ m.zone = {} -> Ok("clock")
         [] anchored /\ recorded = {} /\ m.zone = {} -> Warn("no zone known", "none")
         [] anchored /\ recorded = {} /\ m.zone # {} -> Warn("no zone recorded", "install")

\* Some address from which that many devices have signed in.
MasqueradingRouter(rows) ==
    \E a \in Addresses : Cardinality({r.agent : r \in {s \in rows : s.address = a}}) >= MinDevices

AllPublic(m) == m.networks = {"Public"}

ScopedRule(m) == m.rule = "scoped"

PlatformNetworkChecks(m) ==
    UNION {
      IF m.plaintext THEN Fail("plaintext remoting", "none") ELSE {},
      IF m.remoting THEN Warn("remoting", "none") ELSE {},
      IF m.networks = {} THEN Warn("networks unreadable", "none")
      ELSE IF AllPublic(m) THEN Warn("network is public", "none") ELSE Ok("network"),
      IF ScopedRule(m) THEN Ok("firewall") ELSE Warn("firewall rule", "install") }

NetworkSection(m) ==
    UNION {
      IF m.hosts # {} THEN Ok("address") ELSE Warn("offline", "none"),
      IF PortAsked(m) \in Serves(m) \union m.held THEN Ok("listening")
      ELSE Fail("nothing listens", "none"),
      IF m.elevated /\ MasqueradingRouter(m.signIns) THEN Warn("router masquerades", "none") ELSE {},
      PlatformNetworkChecks(m) }

CertificateLines(cert) ==
    LET left == DaysUntilExpiry(cert) IN
    UNION {
      IF left = {} THEN Warn("age unreadable", "none")
      ELSE IF left = {0} THEN Fail("expired", "install")
      ELSE IF \E d \in left : RenewalDue(d) THEN Warn("expires soon", "install")
      ELSE Ok("certificate"),
      IF cert.legible THEN Ok("fingerprint") ELSE Warn("fingerprint unreadable", "install") }

\* Wrong on purpose: a file that may not be seen is taken for one that is not there.
CertificateAsSeen(m) ==
    IF m.elevated /\ m.cert # {} THEN CertificateLines(CHOOSE c \in m.cert : TRUE)
    ELSE Fail("no certificate", "install")

CertificateSection(m) ==
    IF ~m.elevated THEN Warn("certificate not visible", "none")
    ELSE IF m.cert = {} THEN Fail("no certificate", "install")
    ELSE CertificateLines(CHOOSE c \in m.cert : TRUE)

TickMode(m) == IF ~m.enforcing THEN "StandDown" ELSE IF m.targets THEN "Enforce" ELSE "Measure"

\* No loop ever runs in doctor's own process, so the probes have no age there.
EarnedTimeCheck(m) == IF m.probing THEN Warn("no earned-time check seen", "none") ELSE {}

EnforcementChecks(m) ==
    UNION {
      IF ~m.curfew /\ ~m.targets
      THEN IF TickMode(m) = "Measure" THEN Warn("only counting", "none")
           ELSE Warn("not even counting", "none")
      ELSE UNION { IF ~m.targets THEN {}
                   ELSE IF m.enforcing THEN Ok("rules") ELSE Warn("paused", "none"),
                   IF m.curfew THEN Ok("curfew") ELSE Warn("no curfew", "none") },
      Warn("no check-in seen", "none"),
      EarnedTimeCheck(m),
      IF m.targets /\ ~m.warns THEN Warn("no warning", "none") ELSE {} }

EnforcementSection(m) == IF LoadsConfig(m) THEN EnforcementChecks(m) ELSE Warn("enforcement unknown", "none")

CaptureBuildOk(build) == build = 0 \/ build >= MinCapture
CaptureCheck(m) == IF CaptureBuildOk(m.build) THEN Ok("capture") ELSE Warn("too old to capture", "none")

DiskEncryptionCheck(m) ==
    IF m.disk = {1} THEN Ok("disk")
    ELSE IF m.disk = {0} THEN Warn("not encrypted", "none")
    ELSE Warn("encryption unknown", "none")

PlatformChecks(m) ==
    UNION {
      CaptureCheck(m),
      IF m.service = "running" THEN Ok("service")
      ELSE IF m.service = "none" THEN Fail("no service", "install")
      ELSE Fail("service not running", "none"),
      IF m.admins THEN Ok("administrators") ELSE Warn("administrators unknown", "none"),
      IF m.elevated THEN DiskEncryptionCheck(m) ELSE {} }

Doctor(m) ==
    UNION {ConfigurationSection(m), ClockCheck(m), NetworkSection(m), CertificateSection(m),
           EnforcementSection(m), PlatformChecks(m)}

Failures(m) == {l.about : l \in {k \in Doctor(m) : k.level = "fail"}}
Advised(m) == {l.about : l \in {k \in Doctor(m) : k.fix = "install"}}
ExitsWell(m) == Failures(m) = {}

-----------------------------------------------------------------------------
(* preflight: what is found, and what can be done about it from here.       *)

Finding(severity, what, remedy) == {[severity |-> severity, what |-> what, remedy |-> remedy]}
Blocker(what, remedy) == Finding("Blocker", what, remedy)
Caution(what, remedy) == Finding("Caution", what, remedy)

\* The service is up, and what it was configured with.
RunningServicePort(m) ==
    IF m.service \in {"running", "starting"} /\ m.config = "fine" THEN {m.port} ELSE {}

BindFinding(m, p) ==
    IF p \in m.held \union Serves(m) THEN Blocker("port in use", "none")
    ELSE IF p \in m.reserved THEN Blocker("port refused", "none")
    ELSE {}          \* any other failure blocks nothing

CheckPort(m, p) == IF RunningServicePort(m) = {p} THEN {} ELSE BindFinding(m, p)

CheckSystemTools(m) ==
    UNION { IF m.tools THEN {} ELSE Blocker("tools missing", "none"),
            IF m.bedtimeTools THEN {} ELSE Caution("bedtime tools missing", "none") }

CheckExistingService(m) ==
    IF m.service = "none" THEN {}
    ELSE UNION { IF m.disabled THEN Blocker("disabled", "EnableService") ELSE {},
                 IF m.service = "stopping" THEN Caution("stopping", "none") ELSE {} }

CheckMarkOfTheWeb(m) == IF m.marked THEN Caution("marked", "UnblockFile") ELSE {}

CheckNetworkProfile(m) == IF AllPublic(m) THEN Caution("public", "MakeNetworkPrivate") ELSE {}

CheckWindowsBuild(m) == IF CaptureBuildOk(m.build) THEN {} ELSE Caution("too old", "none")

Gather(m, p) ==
    UNION {CheckPort(m, p), CheckSystemTools(m), CheckExistingService(m), CheckMarkOfTheWeb(m),
           CheckNetworkProfile(m), CheckWindowsBuild(m)}

Blockers(seen) == {f.what : f \in {g \in seen : g.severity = "Blocker"}}
Blocked(seen) == Blockers(seen) # {}

\* In the order they are found in.
Fixable(seen) ==
    LET offered(remedy) == IF \E f \in seen : f.remedy = remedy THEN <<remedy>> ELSE <<>>
    IN  offered("EnableService") \o offered("UnblockFile") \o offered("MakeNetworkPrivate")

\* What a remedy leaves; one whose object is already gone changes nothing.
Fixed(m, remedy) ==
    CASE remedy = "EnableService" -> [m EXCEPT !.disabled = FALSE]
      [] remedy = "UnblockFile" -> [m EXCEPT !.marked = FALSE]
      [] remedy = "MakeNetworkPrivate" ->
           [m EXCEPT !.networks = {IF n = "Public" THEN "Private" ELSE n : n \in m.networks}]

\* What the report of a blocked machine says of itself when it was rendered as Untouched.
Claims(seen, untouched, really) == Blocked(seen) /\ untouched /\ really

-----------------------------------------------------------------------------
(* install, from the first look to the last step.                           *)

Target(m, flag) == IF flag # {} THEN flag ELSE IF m.config = "fine" THEN {m.port} ELSE {DefaultPort}

Begins(flag, reset) ==
    /\ asking \notin {"offering", "deploying"} /\ machine.elevated
    /\ machine.config = "corrupt" => reset
    /\ asking' = "offering" /\ port' \in Target(machine, flag)
    /\ findings' = Gather(machine, port') /\ offers' = Fixable(findings') /\ changed' = FALSE
    /\ advised' = Advised(machine) /\ fresh' = TRUE /\ altered' = FALSE
    /\ lied' = Claims(findings', TRUE, FALSE)
    /\ UNCHANGED <<machine, moves>>

\* "no", or anything but yes; a closed console says nothing.
Skips ==
    /\ asking = "offering" /\ offers # <<>> /\ offers' = Tail(offers)
    /\ UNCHANGED <<machine, asking, port, findings, changed, lookingVars>>

Applies ==
    /\ asking = "offering" /\ offers # <<>> /\ offers' = Tail(offers)
    /\ machine' = Fixed(machine, Head(offers)) /\ changed' = TRUE
    /\ altered' = (altered \/ machine' # machine)
    /\ UNCHANGED <<asking, port, findings, moves, advised, fresh, lied>>

\* PowerShell or sc refused, perhaps after some of the networks were changed.
FixFails ==
    /\ asking = "offering" /\ offers # <<>> /\ offers' = Tail(offers)
    /\ \/ UNCHANGED machine
       \/ Head(offers) = "MakeNetworkPrivate" /\ machine' = [machine EXCEPT !.networks = {"Public", "Private"}]
    /\ altered' = (altered \/ machine' # machine)
    /\ UNCHANGED <<asking, port, findings, changed, moves, advised, fresh, lied>>

Decides(seen) == asking' = IF Blocked(seen) THEN "refused" ELSE "deploying"

NothingFixed ==
    /\ asking = "offering" /\ offers = <<>> /\ ~changed
    /\ Decides(findings)
    /\ UNCHANGED <<machine, port, findings, offers, changed, lookingVars>>

\* Wrong on purpose: what was found before the fixes still decides.
RechecksNothing ==
    /\ asking = "offering" /\ offers = <<>> /\ changed
    /\ Decides(findings)
    /\ UNCHANGED <<machine, port, findings, offers, changed, lookingVars>>

Rechecks ==
    /\ asking = "offering" /\ offers = <<>> /\ changed
    /\ findings' = Gather(machine, port) /\ Decides(findings')
    /\ fresh' = TRUE /\ lied' = (lied \/ Claims(findings', FALSE, altered))
    /\ UNCHANGED <<machine, port, offers, changed, moves, advised, altered>>

\* The config it writes; of one that is missing or spoilt nothing is kept.
Saved(m, p) ==
    [(IF m.config = "fine" THEN m
      ELSE [m EXCEPT !.curfew = FALSE, !.enforcing = TRUE, !.targets = FALSE, !.warns = TRUE,
                     !.probing = FALSE, !.sans = {}])
        EXCEPT !.config = "fine", !.port = p, !.anchored = TRUE, !.recorded = m.zone,
               !.writer = {ThisBuild}]

\* A certificate is kept while it covers the machine's addresses, however old it is.
Keeps(m) == m.sans # {} /\ m.sans = m.hosts /\ m.cert # {} /\ m.key

Certified(m) ==
    IF Keeps(m) THEN m
    ELSE [m EXCEPT !.cert = {[age |-> {0}, legible |-> TRUE]}, !.key = TRUE, !.sans = m.hosts]

\* What would keep the service from running on p.
Obstacles(m, p) ==
    UNION { IF p \in m.held THEN {"port in use"} ELSE {},
            IF p \in m.reserved \ m.held THEN {"port refused"} ELSE {},
            IF m.tools THEN {} ELSE {"tools missing"},
            IF m.disabled /\ m.service # "none" THEN {"disabled"} ELSE {} }

Deploys ==
    LET ready == Certified(Saved(machine, port)) IN
    /\ asking = "deploying" /\ altered' = TRUE
    /\ \/ /\ Keeps(Saved(machine, port)) => \A c \in machine.cert : c.legible
          /\ Obstacles(machine, port) = {} /\ port \notin machine.hooked
          /\ machine' = [ready EXCEPT !.service = "running", !.served = port, !.disabled = FALSE,
                                      !.rule = "scoped", !.stamp = {ThisBuild}]
          /\ asking' = "installed"
       \* the fingerprint of the one that is kept cannot be printed
       \/ /\ Keeps(Saved(machine, port)) /\ \E c \in machine.cert : ~c.legible
          /\ machine' = Saved(machine, port) /\ asking' = "failed"
       \* it would not run, or what it was warned of came about
       \/ /\ Obstacles(machine, port) # {} \/ port \in machine.hooked \/ machine.marked
                 \/ machine.service = "stopping"
          /\ machine' = [ready EXCEPT !.service = IF @ = "none" THEN @ ELSE "stopped"]
          /\ asking' = "failed"
    /\ UNCHANGED <<port, findings, offers, changed, moves, advised, fresh, lied>>

\* A password that is not good enough, or the console is closed.
GivesUpAsking ==
    /\ asking = "deploying" /\ asking' = "idle"
    /\ UNCHANGED <<machine, port, findings, offers, changed, lookingVars>>

-----------------------------------------------------------------------------

\* A parent takes another console.
Elevates ==
    /\ asking \notin {"offering", "deploying"}
    /\ machine' = [machine EXCEPT !.elevated = ~@] /\ asking' = "idle"
    /\ UNCHANGED <<port, findings, offers, changed, lookingVars>>

\* A program takes or leaves a port, the zone is changed, another network is joined.
Moves ==
    /\ moves < MaxMoves /\ moves' = moves + 1 /\ asking \notin {"idle", "refused", "failed"}
    /\ machine' \in UNION { {[machine EXCEPT !.held = h] : h \in SUBSET Ports},
                            {[machine EXCEPT !.zone = {z}] : z \in Zones},
                            {[machine EXCEPT !.networks = {"Public"}]} } \ {machine}
    /\ Possible(machine')
    /\ fresh' = FALSE
    /\ UNCHANGED <<runVars, advised, altered, lied>>

DiagnosisNext ==
    \/ \E flag \in Option(Ports), reset \in BOOLEAN : Begins(flag, reset)
    \/ Skips \/ Applies \/ FixFails \/ NothingFixed \/ Rechecks \/ Deploys \/ GivesUpAsking
    \/ Elevates \/ Moves

DiagnosisSpec == DiagnosisInit /\ [][DiagnosisNext]_diagnosisVars

-----------------------------------------------------------------------------

\* A parent's phone reaches the service, on a machine whose clock it may go by.
Works(m) ==
    /\ m.config = "fine" /\ m.service = "running" /\ m.served = m.port
    /\ m.cert # {} /\ \A c \in m.cert : \A age \in c.age : age < Validity
    /\ m.anchored /\ m.zone # {} /\ m.recorded # {} => m.recorded = m.zone
    /\ ~m.plaintext

\* What listens on the port of the config is not the service.
Impostor(m) == m.port \in m.held /\ m.served # m.port

\* What doctor would have had an install for a finished install has put right; a certificate
\* that is kept apart.
AdviceHelps ==
    asking = "installed" /\ fresh =>
        advised \intersect Advised(machine) \subseteq {"expired", "expires soon"}

(* doctor.rs run: it fails a machine that does not work and no other,        *)
(* something else on the port apart, which a connect cannot tell.  Without   *)
(* elevation nothing is failed, and no install asked for, that would not be  *)
(* with it ("regenerates the certificate and invalidates every paired        *)
(* device"), but for the port of a config that is not visible and the clock  *)
(* in it.  install.rs install: what an install was advised for is put right. *)
DoctorIsRight ==
    LET full == [machine EXCEPT !.elevated = TRUE] IN
    /\ ~Impostor(machine) => (ExitsWell(full) <=> Works(machine))
    /\ ~machine.elevated =>
         /\ Failures(machine) \subseteq
                Failures(full) \union (IF machine.port # DefaultPort THEN {"nothing listens"} ELSE {})
         /\ Advised(machine) \subseteq Advised(full) \union {"not anchored"}
    /\ AdviceHelps

\* Its own service holds the port and is not known by it: it is stopping, or its config is
\* spoilt or names another.
Unrecognised(m) == port \in Serves(m) /\ RunningServicePort(m) # {port}
\* The config of a running service names a port it does not serve, which is then not tried.
Untried(m) == RunningServicePort(m) = {port} /\ m.served # port

(* preflight.rs: an install that goes ahead meets nothing that would keep    *)
(* the service from running, and one that is refused is refused for all of   *)
(* what would and nothing else ("a machine with three problems costs three   *)
(* trips"), also after fixes that were accepted, failed or came too late;    *)
(* and "nothing has been changed" is said only when nothing has.             *)
PreflightIsRight ==
    /\ ~lied
    /\ asking \in {"refused", "deploying"} /\ fresh =>
        /\ Untried(machine) \/ Obstacles(machine, port) \subseteq Blockers(findings)
        /\ Blockers(findings) \subseteq
               Obstacles(machine, port) \union (IF Unrecognised(machine) THEN {"port in use"} ELSE {})

(* doctor.rs:746 says of a certificate that has expired "Run `nestwatch      *)
(* install` to issue a fresh one", and of one about to "Run `nestwatch       *)
(* install` to refresh it before it lapses".                                 *)
ExpiredIsRenewed == asking = "installed" => "expired" \notin advised \intersect Advised(machine)

-----------------------------------------------------------------------------
(* The inductive invariant behind DoctorIsRight and PreflightIsRight, part   *)
(* by part.                                                                  *)

Remedies == {"EnableService", "UnblockFile", "MakeNetworkPrivate"}

\* A machine has every part, and its config, its zone and its certificate are ones there can be.
Typed(m) ==
    /\ DOMAIN m = {"elevated", "config", "port", "anchored", "recorded", "writer", "curfew", "enforcing",
                   "targets", "warns", "probing", "sans", "stamp", "zone", "cert", "key", "hosts", "service",
                   "disabled", "served", "held", "reserved", "hooked", "plaintext", "remoting", "networks",
                   "rule", "signIns", "build", "admins", "disk", "tools", "bedtimeTools", "marked"}
    /\ m.config \in {"fine", "corrupt", "none"}
    /\ m.cert \in Option(Certificates)

\* Until somebody else touches the machine, what was found of it still blocks it.
FindingsAgree ==
    /\ lied = FALSE /\ offers \in Seq(Remedies)
    /\ fresh /\ ((asking = "offering" /\ ~changed) \/ asking \in {"refused", "deploying"}) =>
          Blockers(findings) = Blockers(Gather(machine, port))

\* A finished install, elevated as it was begun, has left nothing to ask another for.
AdviceAgrees ==
    /\ asking \in {"offering", "deploying"} => machine.elevated
    /\ asking = "installed" /\ fresh => Advised(machine) \subseteq {"expired", "expires soon"}

DiagnosisIInv == Typed(machine) /\ Possible(machine) /\ FindingsAgree /\ AdviceAgrees

=============================================================================
