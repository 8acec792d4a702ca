----------------------------- MODULE Providers -----------------------------
(***************************************************************************)
(* Integrations: the reports pushed by their apps and the ones this        *)
(* machine's own probes bring back, judged one at a time against a         *)
(* registry the parent edits meanwhile.  A report carries the date its     *)
(* handler, or the tick of the scheduler, has read before it was judged.   *)
(***************************************************************************)
EXTENDS EarnedTime

CONSTANTS
    Pushers,      \* requests of their apps under way at a time
    SavesFail,    \* whether the config may fail to be saved
    Restarts,     \* whether the service may be restarted
    Straddles     \* whether it may become midnight between reading the date and judging

Probe == "probe"     \* run_scheduler, among those who report
Reporters == Pushers \union {Probe}

VARIABLES
    today,
    registry, earned, extra,   \* of Config in memory
    stored,      \* and what of it config.json holds
    report,      \* of each reporter: what is to be judged, from whom and for which date
    due,         \* the probes still to be run this tick
    paid,        \* history: minutes granted to each source on each date
    proven,      \* history: sources that have met their bar, by date
    opened       \* history: how often the gate of each was said to open on each date

configVars == <<registry, earned, extra, stored>>
pastVars == <<paid, proven, opened>>
vars == <<today, configVars, report, due, pastVars>>

Cfg == [registry |-> registry, earned |-> earned, extra |-> extra]

Judged == [source : Sources, done : Option(Reports), day : Dates]

TypeOK ==
    /\ today \in Dates
    /\ registry \in [Sources -> Option(Offers)]
    /\ Cardinality({s \in Sources : registry[s] # {}}) <= MaxInstalled
    /\ \A s \in Sources : \A e \in earned[s] :
          e.date \in Dates /\ e.minutes \subseteq Nat /\ e.met \in BOOLEAN
    /\ Cardinality({s \in Sources : earned[s] # {}}) <= MaxEarned
    /\ extra \in [date : Option(Dates), minutes : Nat]
    /\ report \in [Reporters -> Option(Judged)]
    /\ due \subseteq Sources
    /\ paid \in [Sources \X Dates -> Nat]
    /\ proven \subseteq Sources \X Dates /\ opened \in [Sources \X Dates -> Nat]

Init ==
    /\ today = 0
    /\ registry = [s \in Sources |-> {}] /\ earned = [s \in Sources |-> {}]
    /\ extra = NoGrant /\ stored = Cfg
    /\ report = [r \in Reporters |-> {}] /\ due = {}
    /\ paid = [x \in Sources \X Dates |-> 0]
    /\ proven = {} /\ opened = [x \in Sources \X Dates |-> 0]

Enabled(s) == \E p \in registry[s] : p.enabled

-----------------------------------------------------------------------------
(* Reports come. *)

\* extra_time for a named source; whether it is installed and on is asked when it is judged.
Push(c, s, done) ==
    /\ report[c] = {}
    /\ report' = [report EXCEPT ![c] = {[source |-> s, done |-> done, day |-> today]}]
    /\ UNCHANGED <<today, configVars, due, pastVars>>

\* run_once: what is due of the probes that could still change anything.  Which intervals have
\* passed, and whether the child is there, is not followed here.
SchedulerTicks ==
    /\ due = {} /\ report[Probe] = {}
    /\ \E some \in SUBSET {s \in Sources : \E p \in registry[s] :
                              p.probe /\ p.enabled /\ ~ ExhaustedFor(p, today, earned[s])} :
         due' = some /\ some # {}
    /\ UNCHANGED <<today, configVars, report, pastVars>>

\* One probe after the other is run, as the child, and answers or does not.
ProbeFails(s) ==
    /\ s \in due /\ report[Probe] = {}
    /\ due' = due \ {s}
    /\ UNCHANGED <<today, configVars, report, pastVars>>

ProbeAnswers(s, done) ==
    /\ s \in due /\ report[Probe] = {}
    /\ report' = [report EXCEPT ![Probe] = {[source |-> s, done |-> {done}, day |-> today]}]
    /\ due' = due \ {s}
    /\ UNCHANGED <<today, configVars, pastVars>>

-----------------------------------------------------------------------------
(* Config::judge, inside try_update_config. *)

Ends(r) ==
    /\ report' = [report EXCEPT ![r] = {}]
    /\ UNCHANGED <<today, registry, due>>

\* Not installed, switched off, or one source too many.  What the closure has changed by then
\* stays in memory.
Rejected(r) ==
    /\ \E j \in report[r] :
         IF Enabled(j.source)
         THEN LET v == Earn(Cfg, j.source, j.day, j.done)
              IN  v.outcome = "error" /\ earned' = v.earned
         ELSE UNCHANGED earned
    /\ Ends(r)
    /\ UNCHANGED <<extra, stored, pastVars>>

Opens(before, after, s, d) == ~ Lifted(before, s, d) /\ Lifted(after, s, d)

Accepted(r) ==
    /\ \E j \in report[r] :
         LET s == j.source
             d == j.day
             v == Earn(Cfg, s, d, j.done)
             after == [registry |-> registry, earned |-> v.earned, extra |-> v.extra]
         IN  /\ Enabled(s) /\ v.outcome # "error"
             /\ earned' = v.earned /\ extra' = v.extra
             /\ stored' = IF after = Cfg THEN stored ELSE after
             /\ paid' = [paid EXCEPT ![<<s, d>>] = @ + v.minutes]
             /\ proven' = proven \union
                    {x \in {<<s, d>>} : \E p \in registry[s] : MetBy(p.gate, j.done) /\ Today(v.earned[s], d) # {}}
             /\ opened' = [opened EXCEPT ![<<s, d>>] = @ + IF Opens(Cfg, after, s, d) THEN 1 ELSE 0]
    /\ Ends(r)

\* The save fails: memory is as before the closure.
Unsaved(r) ==
    /\ SavesFail
    /\ \E j \in report[r] :
         /\ Enabled(j.source)
         /\ LET v == Earn(Cfg, j.source, j.day, j.done)
            IN  v.outcome # "error" /\ <<v.earned, v.extra>> # <<earned, extra>>
    /\ Ends(r)
    /\ UNCHANGED <<earned, extra, stored, pastVars>>

Judges(r) == Rejected(r) \/ Accepted(r) \/ Unsaved(r)

-----------------------------------------------------------------------------
(* The parent, and the world. *)

\* set_provider: installed, or set to something else.
Configures(s, p) ==
    /\ registry[s] # {} \/ Cardinality({x \in Sources : registry[x] # {}}) < MaxInstalled
    /\ registry[s] # {p}
    /\ registry' = [registry EXCEPT ![s] = {p}]
    /\ stored' = [Cfg EXCEPT !.registry = registry']
    /\ UNCHANGED <<today, earned, extra, report, due, pastVars>>

\* Wrong on purpose: uninstalling clears the ledger as well.
DeletesLedger(s) ==
    /\ registry[s] # {}
    /\ registry' = [registry EXCEPT ![s] = {}]
    /\ earned' = [earned EXCEPT ![s] = {}]
    /\ stored' = [Cfg EXCEPT !.registry = registry', !.earned = earned']
    /\ UNCHANGED <<today, extra, report, due, pastVars>>

\* delete_provider: what it has earned today stays, or reinstalling would pay again.
Deletes(s) ==
    /\ registry[s] # {}
    /\ registry' = [registry EXCEPT ![s] = {}]
    /\ stored' = [Cfg EXCEPT !.registry = registry']
    /\ UNCHANGED <<today, earned, extra, report, due, pastVars>>

\* The history of a day that nothing still to be judged is about.
Forgets ==
    /\ paid' = [x \in Sources \X Dates |-> 0]
    /\ proven' = {} /\ opened' = [x \in Sources \X Dates |-> 0]

Midnight ==
    /\ today + 1 \in Dates /\ today' = today + 1
    /\ Straddles \/ \A r \in Reporters : report[r] = {}
    /\ due' = {}     \* a bound: no tick goes on past midnight
    /\ IF \A r \in Reporters : report[r] = {} THEN Forgets ELSE UNCHANGED pastVars
    /\ UNCHANGED <<configVars, report>>

Restart ==
    /\ Restarts
    /\ registry' = stored.registry /\ earned' = stored.earned /\ extra' = stored.extra
    /\ report' = [r \in Reporters |-> {}] /\ due' = {}
    /\ UNCHANGED <<today, stored, pastVars>>

Next ==
    \/ \E c \in Pushers, s \in Sources, done \in Option(Reports) : Push(c, s, done)
    \/ SchedulerTicks
    \/ \E s \in Sources : \/ ProbeFails(s) \/ Deletes(s)
                           \/ \E done \in Reports : ProbeAnswers(s, done)
                           \/ \E p \in Offers : Configures(s, p)
    \/ \E r \in Reporters : Judges(r)
    \/ Midnight \/ Restart

Spec == Init /\ [][Next]_vars

-----------------------------------------------------------------------------
(* Nothing is paid past the ceiling in force, and without a ceiling nothing  *)
(* is paid to a source that has been paid that day, however often it is      *)
(* reported, by whichever road, and whatever the parent changes, removes or  *)
(* reinstalls in between.  (config.rs earn: "used + minutes <= cap"; api.rs  *)
(* extra_time: "its grant lands once per source per day".)                   *)
PaidWithinCeiling ==
    [][\A s \in Sources, d \in Dates : paid'[<<s, d>>] > paid[<<s, d>>] =>
          \A p \in registry[s] :
              LET ceiling == CeilingMins(p)
              IN  IF ceiling = {} THEN paid[<<s, d>>] = 0 ELSE paid'[<<s, d>>] <= The(ceiling)]_vars

(* Once the bar is met the gate stays open for the day: no later report, no  *)
(* restart, no new setting and no other source shuts it again.  The opening  *)
(* is told once, to whoever met it first.  (config.rs earn: "Once met, met   *)
(* for the day"; Judgement: "so a push and a probe racing each other cannot  *)
(* both see the opening".)                                                   *)
GateOpensOnce ==
    /\ \A s \in Sources : <<s, today>> \in proven => \E e \in Today(earned[s], today) : e.met
    /\ \A s \in Sources, d \in Dates :
          opened[<<s, d>>] <= 1 /\ (opened[<<s, d>>] = 1 => <<s, d>> \in proven)

(* A source the scheduler no longer asks today could not change the child's  *)
(* day with any report.  (config.rs exhausted_for; ceiling_mins: "the child  *)
(* did the work, took the lowest reward, and the gate stayed shut".)         *)
ExhaustedIsSettled ==
    \A s \in Sources, done \in Reports : \A p \in registry[s] :
        Enabled(s) /\ ExhaustedFor(p, today, earned[s]) =>
            LET v == Earn(Cfg, s, today, {done})
                after == [registry |-> registry, earned |-> v.earned, extra |-> v.extra]
            IN  /\ v.extra = extra
                /\ GateCap(after, today, {}) = GateCap(Cfg, today, {})

=============================================================================
