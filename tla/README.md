# nestwatch: a verification development

nestwatch runs as a SYSTEM service on a child's Windows PC.  Two background
loops enforce a bedtime (`curfew.rs`) and a daily screen-time budget with
program rules (`rules.rs`); an HTTPS API lets a parent change the policy, grant
time and see what happened; probes ask other programs what the child has
earned; an installer puts all of it on the machine and takes it away.  This
directory models the parts whose correctness depends on order, failure and
time, checks them with TLC on small instances, and proves the main safety
results with TLAPS for every value of the constants.

## Inventory

| part | state it keeps | operations | what makes it correct |
|---|---|---|---|
| curfew enforcer (`curfew.rs`) | the deadline of the shutdown it believes pending, the countdown of warnings | tick: decide, then one OS call; disarm after a failed call | a warning before any immediate power-off; a curfew in force ends with the machine off; nothing it scheduled outlives the window |
| curfew windows (`curfew.rs`, `api.rs`) | a window per weekday, tonight's extension | is it night, how long until it is, extend, undo, set | every reader means the same nights; an extension is kept |
| rules enforcer, budget (`rules.rs`) | deadline, `episode_warned`, whether the last tick wanted a shutdown | tick: snapshot, session, process list, decide, calls, falling edge | the same for the budget; no second grace; the falling edge cancels exactly its own countdown |
| rules enforcer, programs (`rules.rs`, `words.rs`) | charges by program, group and page; what was announced | read the list and the owners, charge, close, say | time is not invented; a word closes only what is the child's |
| rules enforcer, day tally (`rules.rs`, `refusals.rs`) | the tally, `last_reset`, what was last saved | accounting_day, accrue, stand_down, drain, save, rollover row | a day turns once; what was measured is reported once; a crash loses at most a tick |
| OS control (`control/`) | none of its own: the one pending shutdown of Windows, the session | shutdown, abort, lock, list, kill, session state | errors are errors, an abort of nothing is not |
| heartbeat (`heartbeat.rs`) | a version counter for wakes, two stamps | tick, wake | a change wakes both loops |
| trusted clock (`clock.rs`) | anchor, zone, high-water mark | now, set_anchor, mark, restore | the reading never follows a zone the child picked |
| configuration (`config.rs`, `state.rs`, `api.rs`) | the config in memory, `config.json` | try_update_config, for_disk, write_atomic | what a caller was told is stored is stored; a failed save leaves the old policy |
| extra time, requests, codes (`timereq.rs`, `timecode.rs`, `idempotency.rs`) | event logs, a replay cache, the day's grant | ask, approve, deny, create, redeem, grant | one decision per request, one grant per code and per retry |
| household settings (`config.rs`, `rules.rs`, `api.rs`) | rules, routines and their schedules, a pause, tonight's extension | set rules, save and apply a routine, export, restore, preview | nobody is paused unasked; a restore restores; what is said of the time left is so |
| earned time (`config.rs`, `probe.rs`) | per source and day: minutes, gates met, what was paid; who is not asked again | push, probe, judge, configure, delete | no day paid twice; a gate stays open |
| sign-in (`auth.rs`, `sessionstore.rs`, `pairing.rs`, `api.rs`) | sessions, throttle, pairing links, the integrations' secrets | login, pair, renew, revoke, change password, install and remove an integration | tries are bounded; what is signed out stays out |
| installer (`install.rs`) | files, the service's registration, a firewall rule | install, update, uninstall | what it says is so; a machine it leaves is enforced |
| doctor and pre-flight (`doctor.rs`, `preflight.rs`) | none of their own: findings of one run of a command | report, gather, offer fixes, check again | what is said of a machine is so, also without elevation; an install that goes ahead meets no obstacle |
| logs (`jsonl.rs`, `audit.rs`, `usage.rs`, `screentime.rs`) | append-only files and one rotated copy | append, rotate, read | rotation loses the oldest only |
| foreground feed (`foreground.rs`, `watcher.rs`, `session.rs`) | samples between ticks, the helper | look, report, drain | no sample counted twice |

The two loops interact through three things.  They read the same configuration,
which the API changes under a lock.  They write one slot, the pending shutdown
of the operating system: an abort by either cancels whatever is pending,
whoever scheduled it.  They bump the same refusal counters, which the rules
loop drains once a tick.  Every OS call is awaited on the blocking pool, so
between any two calls of one loop everything else may run.  Handlers of the API
interact with each other through the config, the logs and the session store,
each of which has its own lock, and none of which is held over an answer; a
handler whose client goes away is dropped at the await it has reached.

## Modules

* `Options`: an `Option<T>` of the code is a set with at most one element.

### The enforcers

* `Machine`: the pending-shutdown slot, power, the session, and the policy as a
  tick would read it.  `shutdown.exe` is outside the repository and modelled
  from how `control/windows.rs` uses it.
* `CurfewEnforcer`, `BudgetEnforcer`: the two loops, one action per step that
  the code takes without waiting.  `CurfewTick` is the part of `run_enforcer`
  up to its call, `CurfewIssues`, `CurfewRefused` and `CurfewAborts` are the
  outcomes of the call.  A tick of the rules loop goes through `RulesTick`,
  `RulesObserves`, `RulesDecide` (or `RulesTickAbandoned`), the call
  (`RulesIssues`, `RulesRefused`, `RulesLocks`), `RulesEdge` and `RulesAborts`.
* `Enforcement`: both loops on one machine, with the parent, the child, time,
  power cycles and service restarts.
* `EnforcementHistory`: the same with three history variables, to compare what
  the code does with what its comments and documents say.
* `EnforcementProofs`: theorems about `Enforcement` and `Programs`.
* `CurfewWindows`: what `Machine` has as one Boolean, as pure operators.  Windows
  by weekday and across midnight (`WindowActive`), the three readers
  (`IsActiveAt`, `MinsUntilActive`, `CutsGrantShortIn`), and beside them the
  nights a parent means (`IsNight`).  `Bedtime` (run by `MCBedtime`, beside
  `Providers`) is the loop on top: the parent's `Extends`, `Undoes` and
  `SetsCurfew`, and the loop's `Tick` with its `Countdown`.
* `Countdown`: what is announced of a time running down; both loops use it.
* `DayTally`: the day's tally, the row of the day that ended, and the disk; a
  tick is `TickTop`, then `StandDown` or `Decide` (or `Abandon`), `Save`, and
  `Record` on an active tick.  `DayTallyAndWatcherProofs` holds its theorems.
* `Programs` (and `MCPrograms`): the same tick again, for what it does about
  single programs: `Begins` (mode and feed), `SeesSession`, `ReadsList`,
  `ReadsOwners`, `Decides` (accrue, the spent groups, words, warnings, rows of
  the usage log) and `Closes`, one kill at a time.  Programs start, exit and
  reuse ids between any two; `Foreground` is the report of the helper and the
  bounds put on it.

### Clock and config

* `TrustedClock`: the statics of `clock.rs` and the threads that share them,
  one shared read or write at a time: callers of `now()` (`NowBegins` to
  `NowBelieves`), the rules loop keeping the mark on disk (`SaverBegins`,
  `SaverMarks`, `SaverWrites`), the handler of a re-anchor, and a restart.
  `TrustedClockHistory` adds what the install may trust and what the OS has
  vouched for; `MCTrustedClock` names the zones; `TrustedClockProofs` holds the
  theorems about both.
* `PolicyStore`: the abstract store.  A request is applied to the policy once,
  whole and on top of all before it, or not at all; `stage` is how far each
  handler is.
* `ConfigStore`: `try_update_config` as it is: the lock (`Asks`), the closure on
  the config in memory (`Refuses`, `Skips`, `Changes`), the save on the blocking
  pool (`SaveLands`, `SaveFails`), the wake or the rollback (`Confirms`,
  `TakesBack`), a handler dropped at an await, a restart, and the loops that
  read the config in force.  It implements `PolicyStore` with the disk for the
  policy: a request is stored when its save has landed, whatever is in memory
  before.  `MCConfigStore` names some configs and closures; `ConfigAndSettingsProofs`
  holds its theorems.

### Handlers

* `JsonLog`: a file of lines with one rotated copy, an append that lands
  (`Recorded`) or is warned of and forgotten (`Unrecorded`), and the two folds
  over it that the queues use (`Standing`, `Latest`).
* `Grants` (and `MCGrants`): `extra_time`, asking, approving and denying,
  creating and redeeming a code, as one handler that looks into the replay
  cache (`Replays`), reads the date (`ReadsToday`), opens or closes a line of
  its queue under that queue's gate (`Enters`, then `Opens` or `Closes`, which
  `Writes` it), changes the config (`Adds`, `NotSaved`) and keeps its answer
  (`Remembers`).  That a change of the config is one step is what `ConfigStore`
  shows.  Its histories are what was granted, paid and decided, the tokens with
  a line that could not be written, and how many gifts were answered since each
  key.  `GrantsAndAuditProofs` holds its theorems.
* `EarnedTime`: what a report is worth, as pure operators over one provider's
  settings and ledger: `Payable`, `ExhaustedFor`, the gate's bar and cap.
  `Providers` (run by `MCBedtime`) drives them: `Push` and `ProbeAnswers` read
  the date, `Judges` decides in one critical section, `SchedulerTicks` chooses
  whom to ask, `Configures` and `Deletes` change the registry meanwhile.
  `BedtimeAndEarnedTimeProofs` holds the theorems about both, and about `Bedtime`,
  which `MCBedtime` runs beside them: the names of the two do not overlap.
* `SignIn` (and `MCSignIn`): each request is a handler in several steps under
  the session layer of tower-sessions, which loads the record at first use and
  saves it after the answer (`Flushes`).  Login: `BeginsLogin` (the gate on the
  limiter), `FailsLogin`, `Proves`.  Pairing: `BeginsPairing`, `Redeems`.
  Password: `ReadsHash`, `StoresHash`, `SignsAllOut`.  An integration:
  `Configures`, `Deposits`, `Removes`, `Unpairs`, `Forgets`.  `SignInProofs`
  holds its theorems.

### Installation

* `Install` (and `MCInstall`): the commands `install` (with its update path)
  and `uninstall`, one action per step, each of which may fail, and any two of
  which the machine may go off between; beside the service, which saves its
  config and signs devices in until it stops, the helpers it leaves behind, and
  whoever holds a handle on it.  `InstallProofs` holds its theorems.
* `Diagnosis`: what looks before and after.  `Doctor` is every section of the
  report as a set of lines (what about, how bad, whether the fix is to install),
  of an elevated console or not; `Gather`, `Fixable` and `Fixed` are the
  pre-flight.  `Begins` to `Deploys` are `install` around them: find, offer each
  fix (`Skips`, `Applies`, `FixFails`), check again if one was applied
  (`Rechecks`), and go ahead or not, while somebody else may change the machine
  (`Moves`).  `MCInstall` runs it beside `Install`, with which it shares no state.
  `InstallProofs` holds its theorems too.

An operator commented "Wrong on purpose" is the form a plausible mistake in
the definition after it would take.  It is not part of any specification: each
property has one that violates it.

### Looking back

* `AuditTrail`: `audit.rs` over the two files it keeps.  Who `Knocks`, `Acts`,
  `Captures` or `Glances` leaves a line, or is counted towards the next;
  `ViewsOn` is what the child is told of today, `Page` what the parent reads.  Its
  theorems are in `GrantsAndAuditProofs`, with those of the other files of lines.
* `History`: the row a day ends with, written to two files (`DayEnds`,
  `DayBegins`), and what `screentime.rs` makes of them: `ByDate`, `Report`,
  `FirstSeen`, and `RecentTotals` for the child's page.
* `Watcher`: the helper that watches the child's desktop (`Looks`, over the
  `Tracker` of `foreground.rs`) and the thread of the service that keeps one
  running (`Spawns`, `CannotSpawn`, `Reaps`), against a child who ends it.  Beside
  them `past` keeps what was really in front, to compare with; its theorem is in
  `DayTallyAndWatcherProofs`.

### Settings

* `Settings`: the handlers that change what the enforcers read, over one day:
  `SetsRules`, `SavesRoutine`, `BeginsApply` and `AppliesRoutine` (which reads the
  routine before it waits for the config), `Exports` and `Restores` with what
  may have been done to the file between (`Edits`), and `RulesAt`, which chooses
  what is in force at an instant.  Beside them what is said of it: the card
  (`UsageToday`), the child's page (`ChildStatus`), the badges (`ActiveNow`), the
  preview of a save and the note on an extension.
* `MCSideBySide`: `AuditTrail`, `History`, `Watcher`, `Settings` and
  `MCTrustedClock` in one run.  They share no state, so each behaviour is one of
  a single part.

### Abstractions

Time in `Enforcement` is counted in units of `CHECK_INTERVAL` (30 s) and a
deadline is the time left until it; below the slack nothing is compared, so
counting stops there.  `warn_secs` is fixed in a run.  The curfew window is one
Boolean that may change at any time (a window opens, ends, is extended or
disabled), and the tally is `unlimited`, `under` or `spent`: `Bedtime` and
`DayTally` model what is behind them.  In `DayTally` time is in quarters of a
day, so a tick takes none of it, use is counted in intervals, and the five
refusal counters are one.

In `TrustedClock` an offset is in hours, a zone has one offset per season, and
an answer is the offset UTC is read at.  `log_tamper`, which counts a refusal
per distinct reading, is left to `DayTally`, where refusals come at any time.
Requests to re-anchor are taken one after the other.

In `AuditTrail` the two clocks pass together, and a day is a few units.  In
`History` a tally is one of three, and a name is a number in the order of its
spelling.  In `Watcher` the helper is honest: what a child could have it say is
in `Foreground` and `Programs`; the pipe between the two loses nothing but what
a helper that ends had not reported.

In `Settings` an instant is half a minute, a window is the set of instants it
covers (`Bedtime` has the arithmetic), a limit is the one of today, and of what
a posted rule may hold only the limit, the action and the pause are kept; what
acts on programs is in `Programs`.  Every kind of limit that `validate` refuses is
one that is out of bounds.  A change of the config is one step, which is what
`ConfigStore` shows.  Files whose routines were edited are left out: see
*Settings* below.

In `ConfigStore` a closure is a function from configs to a config, or none for
an `Err`; by the comment on `try_update_config` it changes nothing when it
fails, so a config never changes in part.  `write_atomic` is one step, and the
stamp of the build that `for_disk` adds is left out.  Configs that differ
serialise differently, so comparing the bytes is comparing the configs.  The
two loops read alike and are one.  A client that left while its save was under
way sends nothing more until that save ends, which bounds the saves left behind
to one a handler.

In `Grants` the text of a request and the letters of a code are left out: a
token stands for either.  A file rotates by its number of lines.  In
`EarnedTime` a report is a number of things done.  `tell_child` is left out.
In `SignIn` a hash is the password it was made from, a cookie is the id of a
session, and one address knocks; days, lockouts and the life of a link pass
when they please.  A wish a signed-in client may have is one of a `play`: what
does not interfere is not run together.  In `Programs` a name has one other
spelling, a word reaches a fixed set of names, and a unit of time is one
interval.  In `Install` a binary, a config and a set of sessions are model
values that somebody wrote; the certificate is left out.

In `Diagnosis` a machine is healthy but for any two things that matter, or one
that does not; all that doctor reads it reads at once; a version is a number,
and an install is what it leaves, since `Install` has its steps.  Wording is
left out but for what a line is about and what it tells the reader to do.

## Runs

| run | asks | instance and bounds |
|---|---|---|
| `enforcement_safety` | `PendingIsAnsweredFor`, `CurfewWarnsFirst`, `GraceIsNotRenewed` | warning and slack of one unit: a countdown has time to be cancelled, to run out, and to be overdue; all actions, refused calls, restarts; a day is under or spent, an unlimited one takes the arm of an absent child |
| `enforcement_liveness` | `CurfewIsEnforced`, `BudgetIsEnforced` | the action Shutdown only, time may pass inside a tick, no restarts |
| `orphaned_countdown` | one sentence of the repository, which the code does not keep | no call fails, no restart, no stall: the disagreement needs none |
| `bedtime_and_earned_time` | `ReadersAgree`, `BedtimeIsAnnounced`, `ExtensionIsKept`; `GateOpensOnce`, `ExhaustedIsSettled`, `PaidWithinCeiling` | bedtime: a week of three days of twelve half minutes, four curfews (over midnight, on one weekday, back to back), extensions of one and five minutes, two of them, one edit; warnings at one and three minutes; earned time: three sources that may be swapped, of which one is installed at a time, as many reports as it takes to earn two units, two dates; pushes, probes, failed saves, restarts |
| `day` | `DayIsReported`, `TurnsAreApart` | two dates, five quarters of a day, so that a gap of two can pass and be broken; a clock one day out or not; one outage; in one scenario process lists fail, in the other saves fail and the machine goes off anywhere in a tick |
| `programs` | `TimeIsNotInvented`, `WrittenOnce`, `WordsReachOnlyTheChilds` | two ids, three names of which two are one program, two pages; four plays that give the parent and the helper different means; a day of three intervals and the one after |
| `clock_and_records` | `AnswersAreTrusted`, `NeverBehind`; `AuditIsTrue`, `DaysAreToldTruly`, `HelperMeasures`, `OnlyTheParentPauses`, `RestoreIsFaithful`, `ToldWhatIsEnforced` | the clock: one re-anchor between two homes with no offset in common and one offset within the tolerance of the other's, two seasons, with failed saves and restarts between any two steps; the audit: four events over five units, days of four and windows of two, files that rotate at the second line; the days: three rows over four dates in any order, a crash between the two files, an old build's row; the helper: nine units, three moves of the child or the machine, two programs, a nap that outlasts every wait; the settings: three things asked in any order over two minutes of use, two routines that overlap, limits of one and two minutes, a gate or none, and an extension of a minute |
| `config_store` | `MemoryIsOnDisk`, `StoresPolicy`, `EveryoneIsAnswered` | two handlers, which is enough for one to wait on the other and for a change to come between another's change and save; a limit that is set and routines added up to a cap, so that a closure can change, repeat or refuse; failed saves, restarts, clients that leave the queue |
| `grants` | `DecidedOnce`, `GrantsAddUp`, `RetriesGrantNothing`, `ChildIsToldTheDecision` | two callers, two tokens of one queue, of which one may stand (a queue of codes differs from one of requests in its names), files that rotate at two lines, two keys that may be swapped and a cache of two, gifts of one and two minutes, nothing more asked once two minutes are granted; one line that cannot be written, failed saves, restarts, clients that leave, one midnight |
| `sign_in` | `TriesAreBounded`, `SignedOutStaysOut`, `UninstalledHoldsNothing` | two callers, two session ids, a link, an integration, two wrong tries before the lock, a cap of two days; each play adds what may interfere |
| `install_and_diagnosis` | `UninstallIsHonest`, `RevokedStaysOut`, `EnforcementReturns`, `InstalledAsAsked`; `DoctorIsRight`, `PreflightIsRight` | install: two runs of a command, two builds, two passwords, two devices, one change the service saves, one helper left behind; diagnosis: two ports, two zones, a build before this one and one after, every pair of deviations from a healthy machine, one change by somebody else, any number of looks and installs |
| `expired_certificate` | one sentence of the repository, which the code does not keep | the same machines |

Counters are bounded in the guards and only there: `Horizon`, `LastDay` and
`MaxDays` end time, `MaxMeasured` and `MaxRefusals` end what a date can
collect, `MaxGiven` and `MaxEarned` what may be granted, `MaxOutages`,
`MaxEdits`, `MaxExtends`, `MaxRuns`, `MaxChanges`, `MaxLost` and `MaxHelpers` how often
something may happen, `MaxLines`, `MaxStanding`, `MaxEntries`, `MaxApps` and
`MaxPages` are the code's own caps made small.  No property depends on reaching
a bound that is not the code's.  Every module has a `TypeOK`; those of
`Enforcement`, `DayTally`, `TrustedClock`, `ConfigStore`, `Grants`, `SignIn`,
`Install` and `Providers` are proved, and the others were checked with the runs while these
were written.

### Deadlock and fairness

No system here may stop, and deadlock is checked in every run: time, the child
or the parent can always move; in a run of several parts the one
that is not looked at rests, and in `clock_and_records` a part that has come to
its bounds rests.  `FairSpec` assumes that both loops keep
ticking (they are tasks of a running service, driven by a timer and a wake),
that a countdown at zero powers the machine off, that time passes, and that
the operating system does not refuse the same call for ever.  Nothing is
assumed of the parent, the child or a restart.  Both liveness properties say
that the machine cannot stay on for ever with the reason to be off standing.

`ConfigStore` assumes that a save ends, that a handler goes on when it has, and
that whoever waits for the lock gets it in the end: tokio's mutex is given in
the order of arrival, which is strong fairness of taking it, since it is free
again and again and not for ever.

### What the runs found

* `orphaned_countdown`: a budget countdown left to the curfew is cancelled by
  nobody when the curfew ends before the curfew loop has armed itself
  (`rules.rs:1784`).
* `expired_certificate`: `doctor` tells whoever has an expired certificate to run
  `nestwatch install` for a fresh one, and `cert.rs:12` says that an install
  regenerates it.  `install` keeps whatever covers the machine's addresses
  (`install.rs:185`): nothing but `--new-cert`, which neither names, replaces it.

What follows came up while modelling, and no run is spent on it; where a
property would fail on it, the model names it and lets it through, or a constant
leaves it out.

* *Enforcers.*  The budget loop keeps its deadline when its own falling edge, or
  the curfew loop, aborts the shutdown; past it the next spent tick powers the
  machine off at once and counts a cancellation nobody made (`refusals.rs:83`).
  The Shutdown arm, unlike the Lock arm, forgets on an inactive tick that it has
  warned, so a cancelled shutdown and a locked screen together earn a fresh
  countdown (`docs/SECURITY.md:1029`).
* *Day.*  A machine first started after noon books a reset, and refuses the next
  midnight until twelve hours have passed (`rules.rs:1043`, `1063`).  A process
  list that fails on the first tick of a day books the reset without turning the
  day; every retry is then refused as a second reset (`rules.rs:1722`, `1839`,
  `3640`).
* *Clock.*  A saved mark is restored if the anchors' offsets agree, and two homes
  may share one (`clock.rs:124`).  `now()` reads the offset and the zone that is
  to vouch for it in two calls: a zone moved between them leaves the high-water
  mark with an offset the recorded zone never has (`clock.rs:76`), which is what
  `Torn` with `"zone"` is for.  Two re-anchors at once may leave the anchor of
  one and the zone of the other (`api.rs:593`).  `mark()` reads the anchor and
  then the high-water mark (`clock.rs:134`): a re-anchor between the two saves
  the old home's anchor with the new home's mark, and a restart after the
  machine has been anchored at the old home again believes it.
  `AnswersAreTrusted` is false with two re-anchors and a restart; the run allows
  one.
* *Config.*  The guard of `config_save_lock` goes with the handler when its
  client disconnects, and the save it waits for does not: a later change can be
  saved first, and the earlier one land on top of it (`api.rs:58`).  This is what
  `Drops` with `"saving"` is for; `MemoryIsOnDisk` is false with it.
* *Grants.*  Two requests under one idempotency key at the same moment both
  grant.  A crash or a failed save between the line that decides and the grant
  loses the minutes while the child's page says approved, which is the price
  `timecode.rs` names; a "redeemed" line that could not be written makes the code
  good again (`timecode.rs:8`), and a decision that could not be written can be
  made again, in either sense (`jsonl.rs:90`): `unwritten` sets such a token
  apart.  A key is forgotten when `MAX_ENTRIES` others have been answered, also
  between a retry's arrival and its look into the cache, so that "a retry grants
  nothing" is true only of a key that is still among them (`IsRetry`).  A grant that read the date before midnight and
  was added after it costs the new day its minutes (`straddled`).  Rotation drops
  a request still pending, or a code not yet cashed, without a word.
* *Earned time.*  A report judged with yesterday's date after midnight prunes the
  ledger to that date: what today had latched or paid is forgotten
  (`config.rs:1293`), and paid again.  `Straddles` allows it; `PaidWithinCeiling`
  is false with it.  The note that a bar was met counts among the sources of the
  day before its own grant is judged: where it takes the last place the grant is
  refused (`config.rs:1289`), though `mutate` "must leave the config unchanged
  when it returns `Err`" (`api.rs:81`).  The note is then in memory only; the
  next push of a gate without a ceiling is paid already, changes nothing and
  so saves nothing, and after a restart the gate that was met is shut again.
  This needs as many sources in a day as the ledger has places; a gate with a
  ladder, as in the run, is paid at the next push and saved with it.
  A push and a probe at once can both bring the day's reminder (`probe.rs:622`).
* *Sign-in.*  A password change cut short between storing the hash and clearing
  the sessions signs nobody out (`api.rs:2597`).  A request in flight that
  renews its session saves it back after it was revoked (`sessionstore.rs:199`).
  A deposit that looked before an uninstall and writes after it leaves a secret
  (`api.rs:1408`).  A pairing link outlives an uninstall and a password change.
  A client that leaves during the verification is not counted as a wrong try.
* *Programs.*  Two groups with one name are both charged; of two spellings of one
  limit's key the last wins; `kill_process` kills whatever has the id by then
  (`windows.rs:147`).
* *Bedtime.*  The minute-by-minute probe misses the tail of a night shorter than
  a minute, which an extension may leave (`curfew.rs:173`).  An extension taken
  back within the window before the loop's next tick is followed by a silent
  priming, though `undo_extension` says the child still hears of it
  (`curfew.rs:180`).
* *Records.*  Of undercounting `audit.rs` says it "is the one direction this
  number must not fail in" (`audit.rs:170`); a live view carried over midnight
  within its window counts for nothing in the new day, and its last frames are
  never reported (`AuditIsTrue` makes room for both).  Of a date's several
  rows the parent's page shows the richest and the child's the longest, and what
  the others name is forgotten by "first seen" (`screentime.rs:606`).
* *Helper.*  A report drained by an early tick is cut to the seconds since the
  last tick, and two may fall into one, though `rules.rs:1174` says neither map
  can legitimately exceed the interval; a tick that is given up drops its
  sample.  Sleep, and a key pressed before the next look, credit the nap.
  A helper counts from its own start, and the subtraction in `idle_state`
  saturates there: of a child who last touched anything before that, the grace
  ends not `IDLE_AFTER` from then but from the start.  Found away, he is credited
  up to the look that found it, though the comment says that the grace is
  credited "exactly once and nothing after it" (`foreground.rs:290`).  `GraceEnds`
  has the saturation, and `FocusIsReal` counts those units, at most a poll of
  them, among what the helper could not have told.
* *Settings.*  `POST /api/policy` checks neither the schedules nor the names of
  the routines it restores, nor that their rules are enabled, though its comment
  says that an import must not accept what the live editor refuses
  (`config.rs:1108`); one restored with `enabled` false stands enforcement down
  by its schedule, which `rules_at` says cannot happen (`config.rs:1160`).  The
  note on an extension is about the rules in force when it is asked for: a
  routine that begins within it may still cut it short unannounced
  (`api.rs:903`), and what is left is rounded up to a minute, so that "30 min" may
  be a little over 29.
* *Diagnosis.*  Without elevation `doctor` probes the default port whatever the
  config names, and fails a healthy install at another (`doctor.rs:625`); of a
  config it could not read it says that the clock is not anchored.  "All good."
  cannot be printed with a readable config, since `enforcement_checks` always has
  something to warn of.  What listens on the port may be another program
  (`Impostor`).  With a fingerprint that cannot be read doctor advises an install,
  which keeps the file and fails at the same place, after it saved the config
  (`install.rs:194`).  `running_service_port` is the port the config names, not the
  one that is served: a service that is stopping, or one about to be reset by
  `--reset-config`, is refused as a stranger on its own port (`Unrecognised`), and
  a port the config names while another is served is not tried (`Untried`).
* *Install.*  The config is saved while the old service still runs, whose next
  save writes back its own: the new password is lost (`install.rs:174`).  A stop
  that times out and a firewall rule that fails return with the service off
  (`install.rs:815`).  No code restores the previous binary, which the messages
  of a failed update promise (`install.rs:225`).

## Proofs

`EnforcementProofs` proves, for every warning time, slack, set of budgets and
set of actions:

* `TypeCorrect`: `Spec => []TypeOK`, which is inductive as it stands.
* `CurfewAlwaysWarnsFirst`: from `CurfewAgrees`, which ties the decided action
  to the deadline and the warning; the property alone does not say that an
  armed loop has warned.
* `GraceIsGivenOnce`: from `GraceAgrees`: a grace, once given, is remembered by
  `episode_warned`, and a deadline never outlasts it.
* `PendingIsAlwaysAnsweredFor`: from `CurfewAgrees`, `CurfewCountdownAgrees`
  and `BudgetAgrees`, assuming `~Stalls`: a unit of time does not pass inside a
  tick.  Calls take milliseconds and a unit is thirty seconds.  With stalls the
  property is false, because a countdown scheduled late outlives the deadline
  counted from the decision.

and for every set of processes, names, rules, grants and reports, of `Programs`:

* `WhatHappensOnceIsWrittenOnce`: from `AnnouncementsAgree` (what is remembered as
  announced is what was closed on the tally's day, and each was told once),
  `CountdownAgrees` (a threshold already said is not above the time a tick last saw
  left, so that crossing it needs the time to have risen above it first) and
  `SessionAgrees` (what the log has open is what the last tick found in use, a pause
  included), over `FiguresTypeOK`, the types those are reckoned from.
* `WordsAlwaysReachOnlyTheChilds`: from `KillsAreOfTheTick`: what is left to close was
  decided on by the tick under way, from the two lists it holds, and a tick that is
  over has nothing left to close.

`DayTallyAndWatcherProofs` proves, of `DayTally`, for every calendar, length of day, gap
and clock:

* `TypeCorrect`.
* `TurnsAreAlwaysApart`: from `TurnInv`: honoured resets lie in the past, no
  turn is younger than the last of them, and a tick about to turn the day has
  just booked it, a gap after the last turn.
* `NoSaveIsSkipped`: from `SavedAgrees`, with every failure allowed.
* `GuardAlwaysAgrees`: from `TurnInv` and `GuardFollows`, assuming that no
  process list fails, which it needs: see *Day* above.
* `DayIsAlwaysReported`: from `ReportInv`: the row held between decision and
  record, what the disk would load, and that an unmeasured tally has measured
  nothing.  It assumes that saves reach the disk and that no tick is cut short;
  an active tick saves before it writes the row, a paused one after.
* `AtMostATickIsLost`: from `TurnInv`, `SavedAgrees`, `Kept` and `AtMostATick`:
  what a power cut forfeits at any instant is one tick's charge, for saves that
  reach the disk, wherever in a tick it comes.

And of `Watcher`, for any programs, however finely time is counted, whatever the figures
of the helper and the waits of the service, and however long it goes on:

* `HelperAlwaysMeasures`: from `WatchIInv`.  `LooksAgree`: what is in front has been
  since the last look, and no more is banked than since the last report and the rest
  of a second before it.  `CreditAgrees` compares what was really in front with what
  a look would credit now (`Sure`, up to the end of the grace) and with what a child
  who came back now would have it credit (`Unreported`): between the two lies the
  time he was away since the last look, which the next look or touch decides.
  `LossesAgree` bounds what went with the helpers that were ended, `Overdue` being
  what a sleep has put a running one behind.  `SupervisorAgrees`: a watcher that is
  not running was disturbed at this instant or is waited for no longer than
  `MaxBackoff`, and the wait has doubled with every run in a row that did not last
  (`WaitIs`).  `BankedHolds` and `ObservedIs` say what `bank`, and a look with its two
  calls of it, leave in the bank; `NothingIsLostInDrain` that a report and the rest
  it keeps are what there was.

It assumes that a second and `EMIT` are not nothing and that the shortest wait is no
longer than the longest (`WatchAssumption`); the bounds `LastWatched` and `MaxPushes`
are of no account to it.

`TrustedClockProofs` proves, for every set of zones, offsets and callers:

* `TypeCorrect`.
* `MarkIsAlwaysOfRecordedZone`: from `MarkInv`, which says that what a call or a
  re-anchor has read still holds when it acts on it (`ReadsHold`,
  `ReanchorHolds`), that a call about to raise the mark was vouched for by a zone
  still recorded (`ComparedHolds`), that a re-anchor leaves the mark to the new
  anchor before it records the new zone (`MarkHolds`), and that what the saver
  writes, and a restart reads, is the recorded zone's (`DiskHolds`).
* `AnswersAreAlwaysTrusted`: from `LawInv`, which adds to `MarkInv` what each call
  may count on (`CallIsLawful`): its anchor, the tolerance around it as long as no
  zone can be compared, the mark once it has a zone to compare, and the OS once
  it believes it.  `ReadsHold` is needed for the last: an answer is read afresh.
* `AnswersAreNeverBehind`, of every step: from `SteadyInv`, which adds to `MarkInv`
  that the high-water mark has reached every season seen, but while a re-anchor
  replaces it (`SeenHolds`); that the file has reached every season kept, and the
  mark the saver is about to write lies between the file's and memory's
  (`KeptHolds`, without which a restart could go back on what was seen); and that a
  call no re-anchor has crossed compares with the zone still recorded
  (`CallIsSteady`).  It assumes besides that the OS tells which zone it is set to:
  with `IdentityFails` TLC finds a call that could compare no zone and was answered
  the anchor, of the winter, after the summer had been vouched for: `decide` takes
  the high-water mark only where it knows of a substitution.

All three assume that the zone holds still during a call, and that either nothing
restarts or nobody re-anchors; neither can be dropped: see *Clock* above.

`ConfigAndSettingsProofs` proves, for every set of handlers, configs and closures:

* `TypeCorrect`.
* `MemoryIsAlwaysOnDisk`: from `StoreInv`: the lock is held by the one handler
  in the middle of a change; its save is of what is in memory, which its closure
  made of what is on disk; and what it would put back is on disk.
* `EnforcersAreAlwaysTold`, inductive as it stands.
* `PolicyIsStored`: `ConfigStore` implements `PolicyStore`.  `StoreInv` is what
  lets a save that lands be the request applied to the policy.

All but the first assume that no handler is dropped while it waits for its save
(`"saving" \notin Drops`), and need it: see *Config* above.

And of `Settings`, for every set of rules, schedules, bedtimes, languages and gates,
every limit, and every length of a minute and of a grant:

* `HouseTypeCorrect`.
* `OnlyTheParentEverPauses`: from `ConfigInv`: the config's own pause is the parent's,
  no stored routine is paused, no two have one name (so that what `retain` and
  `find` act on is one routine), and whatever is stored or about to be applied is
  within bounds.  `WithRoutineIsGood` and `WithoutIsGood` are what saving and
  deleting a routine do to that.
* `RestoreIsAlwaysFaithful`: from `FileInv`: a file no hand was laid on is the policy of
  a config that was good, and one that was edited still has that one's routines.
* `WhatIsToldIsAlwaysEnforced`: from `ToldInv`: a preview is of the config it was made
  of, what a save said is what is enforced, and a note is what the limit, the
  gate and the time used then came to.  `WholeMinutes` (a limit in minutes is
  reached just when the whole minutes used are) makes the page agree with the
  enforcer, `ActiveIsScheduled` the badge with the rules in force, and
  `LeftLasts` says how long what is left lasts.

`GrantsAndAuditProofs` proves, for every number of handlers, tokens and keys, every limit
of the queues, the files and the cache, and any number of lines lost:

* `TypeCorrect`, which is not inductive as it stands: that minutes are a number
  needs that nobody is paid for a request that only opens (`AskedAgrees`), and
  that a gate's holder is inside needs `GatesAgree`.
* `AlwaysDecidedOnce`: from `GatesAgree` (whoever is inside holds the gate of the
  queue it is about, and nobody else does), `QueuesAgree` (a token nobody was
  given is in no file, one that is closed is not pending, and what is about to be
  closed is) and `PaysAgree` (whoever is about to pay for a token has closed it,
  is the only one, and nobody has before).  The gate is what makes the look into
  the file and the line one step; without it two would both find it pending.
* `ChildIsAlwaysToldTheDecision`: from `FilesAgree`: the newest line about a token
  is in its own file, and says how it was closed, or that it was not.  The
  lemmas about `Recorded`, `Rotated` and `NewestAbout` (`RecordedLines`,
  `NewestAfter`, `StaysDecided`, `LostLines`) say that a rotation takes the older
  lines only, so that what it leaves still ends with the newest.
* `GrantsAlwaysAddUp`: from `DaysAgree`: nothing is granted for a day to come, and
  for no day is there more in the config than was granted.
* `RetriesAlwaysGrantNothing`: from `KeysAgree`: the entry of a key lies as far from
  the end of the cache as gifts were answered since, and a handler that is a
  retry of it has not come past the cache.  `TailEntries`, `WithoutEntries` and
  `RememberedEntries` are what a removal at the front, one in the middle and an
  append do to those distances.

And of `AuditTrail`, for any length of a file that is not shorter than the page
(`AuditAssumption`: a file is rotated at two mebibytes, and a page is two hundred
lines), any window, length of day and zone:

* `AuditTypeCorrect`.
* `AuditIsAlwaysTrue`, from three things that hold together (`AuditIInv`; TLC found
  no counterexample to it, in six events over files of two lines, before it was
  proved).  `DeedsAgree`: the backup and the live file are the deeds from one number
  up to another and from there up to the last, each after a mark if it replaced a
  file that had replaced one; and of a deed that is only in the backup, or in
  neither, one rotation, or two, came later (`TurnsAgree`).  `GlancesAgree`: whatever
  the timer withholds is within a window of a line that was written, and a day has
  no more lines of the timer than frames.  `RetainedRows` reads the two files as one,
  with the `Place` of every deed in it: a page is then the deeds from one number up
  to the last (`NewestAreShown`), and the views among today's rows correspond one to
  one to today's looks (`LooksCounted`).  That a file which has not rotated twice
  today has all of today (`TodayIsKept`) is where the property's premise is needed.

`SignInProofs` proves, for every number of handlers, sessions, links, sources,
days and tries, and for every play:

* `TypeCorrect`.
* `TriesAreAlwaysBounded`: from `TriesAgree` (the tries wait for one lock, which who
  tries holds, and what is counted since the last lockout or success is what the
  limiter counts) and `LinksAgree` (a link handed out has let nobody in).
* `SignedOutAlwaysStaysOut`: from `SessionsAgree`: a handler holds a session while it
  serves, of an id that was given out (`HeldAgrees`); the store has what was given
  out and has not ended (`StoreAgrees`); and while nobody is half way through a
  change of the password, every session there is was given for the one in force
  (`ProofsAgree`).  `ScopesAgree`, that the password is changed from the dashboard
  only, is what ends every session with it.  What a request that was under way
  may bring back is `excused`: see *Sign-in* above.
* `UninstalledAlwaysHoldsNothing`: from `RemovalAgrees`, which says for each source
  what is left of it at each step of taking it away.

It assumes that no source is called "dashboard" (`NamesAssumption`): the two are
variants of one type in `pairing.rs`, and strings here.

`InstallProofs` proves, for any builds, passwords, devices and number of commands:

* `TypeCorrect`, with `CommandAgrees`: a command under way is of the kind its step
  belongs to.
* `EnforcementAlwaysReturns`: from `ServiceAgrees` (what is not registered does not
  run, nothing runs while files are put in place, and who told the service to
  stop has said why) and `EnforcementAgrees`, which is the property for every
  moment at which no command has stopped anything.
* `RevokedAlwaysStaysOut`: from `RevokedAgrees`, of both places a session is kept: a
  running service would write back what it holds.
* `UninstallIsAlwaysHonest`: from `RemovalAgrees`: how much is gone at each step of an
  uninstall that has left nothing so far, and that after one nothing comes back.
* `AlwaysInstalledAsAsked`, of every step: from `SettingsAgree`: an install has loaded
  what was set, and has saved that with the new password.

And of `Diagnosis`, for any ports, zones, builds, days of validity and number of
moves of somebody else, on a machine that differs from a healthy one as the module
says:

* `DoctorIsAlwaysRight`: `DoctorSays` takes the report apart into its sections, and one
  lemma for each (`ConfigurationLines` to `PlatformLines`, `CertificateSectionSays`)
  says when it fails anything and when it asks for an install.  From these
  `FailsWhatDoesNotWork` (of a console that sees everything), `SaysNoMoreUnelevated`
  (of one that does not) and `NothingLeftToAdvise` (of a machine an install has
  finished on).  `AdviceAgrees` carries the last over what somebody else then does.
* `PreflightIsAlwaysRight`: from `FindingsAgree`: between the look and the decision what
  was found still blocks what is there now, since a fix that was applied has it
  looked for again and one that failed changed nothing that blocks
  (`BlockedAlike`); and from `Possible`, that no port is both the service's and
  somebody else's, which an install that finishes keeps because it met no obstacle
  (`NothingInTheWay`).  `BlocksForWhatObstructs` compares the two lists.

Both from one invariant, `DiagnosisIInv`.

`BedtimeAndEarnedTimeProofs` proves, of `Providers`, for every set of sources,
offers, reports, reporters and dates, and every number of places:

* `TypeCorrect`, with `Bounded`: the ledger in memory and the one in the file hold
  no more sources than there are places, which is what `OneMoreFits` and
  `PruningKeepsToday` say of each way a ledger is changed.
* `PaidIsWithinCeiling`, of every step: from `DayInvariant`: what is still to be
  judged is of today, no ledger has an entry ahead of time, and the entry of
  today says what was paid today, in memory and in the file alike (`PaidSoFar`),
  which is why neither a restart nor a registry that was edited lets anything
  be paid again.  A report that changes nothing is not saved: `JudgedToday` says
  that it then paid nothing either.
* `GateOpensAndStays`: from `GateInvariant`, which adds that whoever has met a bar
  today is noted (`MetSoFar`), that an opening was told of nobody else
  (`OpenedOnce`), and that what a restart would load is what is in force.
* `ExhaustedStaysSettled`, from types alone.

They rest on two lemmas about `Earn`: `EarnedLedger` (`Follows`: what it pays is what
`Payable` leaves, and moves the entry by as much; other sources keep theirs)
and `EarnedMet` (`Meets`: what is met stays met, is met by a report that meets it,
and by no other).  The second and the third assume that nothing is judged on the
other side of midnight (`~Straddles`), and the third that there are fewer sources
than places where the service restarts (`PlacesLeft`); both are needed, and were
met as counterexamples: see *Earned time* above.

And of `Bedtime`, for every set of curfews, extensions and thresholds, and every
length of day and week:

* `BedtimeTypeCorrect`.
* `ReadersAlwaysAgree`: from `ActiveIsNight`: what `window_active` makes of a weekday
  and an hour is the night a parent means, at every instant.  `SameInstant` says
  which instants counted from one midnight fall on which day (the quotients are
  not linear: `OneQuotient` and `RestOf` are proved first), `OpenedCovers` that
  the two arms of a window are the evening and the morning of one night, and
  `ProbesFindTheFirst` what looking ahead minute by minute finds.
* `ExtensionIsAlwaysKept`: from `Awaited`: what the parent was last told is the
  extension there is.
* `BedtimeIsAlwaysAnnounced`, of every step: from `Announced`: of each threshold the
  loop saw bedtime beyond, either the child was told early enough for every night
  of a minute that is to come (`Told`), or the countdown is still beyond it and no
  night comes before it is told (`Ahead`).  Nights only grow later with an
  extension, and taking one back brings none nearer than the countdown sees
  (`LaterNights`); between ticks the bound of `Ahead` is closer by the half
  minute that may pass before the next, and not once the loop was woken.  That
  a night may begin on an odd half minute, where the probe misses it, is why the
  first disjunct speaks of nights of a minute.

Only model-checked:

* the three liveness properties, since fairness and ENABLED are out of the
  prover's reach;
* `TimeIsNotInvented` of `Programs` and `Foreground`, and `DaysAreToldTruly` of
  `History`: these speak of sums over sets and sequences, computed by folds over
  data, of which the provers know nothing without an induction.

## Not modelled

A line that is torn half way through an append, and a rename that fails while a
file goes on growing, are left out of `JsonLog`: `read_events` skips what it
cannot parse, and `rotate_if_over_size` tries again at the next append.  The HTTP
surface (routing, headers, TLS, static assets) and the dashboard keep no state
that the properties above depend on.  `remotesetup.rs` prints a script.
Source guards and test helpers are compiled for tests only.

## Plan

1. `Machine`, `CurfewEnforcer`, `BudgetEnforcer`, `Enforcement`, `DayTally`,
   `TrustedClock`, `PolicyStore`, `ConfigStore` and their proofs.  Done.
2. `JsonLog`, `Grants`, `EarnedTime`, `Providers`, `SignIn`, `Programs`,
   `Bedtime`, `Install`.  Done.
3. `AuditTrail`, `History`, `Watcher`: the readers of the logs, and the helper
   that watches the foreground.  `Settings` and `Diagnosis`.  Done.
4. Proofs for `Install`, `SignIn` and `Grants`, and of `AnswersAreTrusted` and
   `NeverBehind`.  Done.
5. Proofs for `Providers` (the gate and the ceiling), `Bedtime` and `Settings`.  Done.
6. Proofs for `Programs` (what a word reaches, what is written once), `Diagnosis`,
   `Watcher` and `AuditTrail`.  Done.
