----------------------------- MODULE EarnedTime -----------------------------
(***************************************************************************)
(* What an integration's report is worth: the reward, the ceiling of its   *)
(* day, the bar of its gate and the ledger of the day, as config.rs        *)
(* decides them in one critical section for a push and for a probe alike.  *)
(*                                                                         *)
(* A report is an Option: a client that predates counts reports nothing.   *)
(***************************************************************************)
EXTENDS Integers, FiniteSetsExt, Options

CONSTANTS
    Sources,       \* names an integration may have
    MaxInstalled,  \* MAX_PROVIDERS
    MaxEarned,     \* MAX_EARNED_SOURCES
    Dates,         \* the calendar, as integers from 0 on
    Offers,        \* what the parent may set an integration to
    Reports        \* what a child may have done

\* Tier and Gate, each with the bar it asks for; Provider.
Rungs == [questions : Nat, practised : Nat, reward : Nat]
Bars == [questions : Nat, practised : Nat, allowance : Nat]
Provider == [enabled : BOOLEAN, minutes : Nat, cap : SUBSET Nat, tiers : SUBSET Rungs,
             gate : SUBSET Bars, probe : BOOLEAN]

ASSUME EarnedAssumption ==
    IsFiniteSet(Sources) /\ MaxInstalled \in Nat /\ MaxEarned \in Nat \ {0}
ASSUME CalendarAssumption == Dates \subseteq Nat /\ 0 \in Dates
ASSUME OffersAssumption ==
    /\ Offers \subseteq Provider
    /\ \A p \in Offers :
          /\ IsFiniteSet(p.tiers)
          /\ \A one, other \in p.cap : one = other
          /\ \A one, other \in p.gate : one = other
ASSUME ReportsAssumption == Reports \subseteq [questions : Nat, practised : Nat]

The(option) == CHOOSE x \in option : TRUE

-----------------------------------------------------------------------------
(* DailyGrant. *)

NoGrant == [date |-> {}, minutes |-> 0]

ForDay(grant, d) == IF grant.date = {d} THEN grant.minutes ELSE 0

Add(grant, d, mins) == [date |-> {d}, minutes |-> ForDay(grant, d) + mins]

-----------------------------------------------------------------------------
(* Provider, Tier and Gate. *)

\* Zero states no condition, and either of two conditions is enough.
Met(bar, done) == \/ bar.questions > 0 /\ done.questions >= bar.questions
                  \/ bar.practised > 0 /\ done.practised >= bar.practised

SomeWork(done) == done.questions > 0 \/ done.practised > 0

MetBy(bars, report) == \E bar \in bars, done \in report : Met(bar, done)

\* Tiers need work, and pay for the best they meet; the bar of a gate is a rung where there is none.
RewardFor(p, report) ==
    CASE report = {} -> {p.minutes}
      [] report # {} /\ p.tiers # {} ->
             LET won == {t.reward : t \in {u \in p.tiers : MetBy({u}, report)}}
             IN  IF won = {} THEN {} ELSE {Max(won)}
      [] OTHER ->
             LET enough == IF p.gate # {} THEN MetBy(p.gate, report)
                           ELSE \A done \in report : SomeWork(done)
             IN  IF enough THEN {p.minutes} ELSE {}

\* A ceiling that was typed, or a gate's top rung; none means one grant a day.
CeilingMins(p) ==
    IF p.cap # {} \/ p.gate = {} \/ p.tiers = {} THEN p.cap ELSE {Max({t.reward : t \in p.tiers})}

\* A day's entry, if it is of this day.
Today(entry, d) == {e \in entry : e.date = d}

\* Wrong on purpose: a gate is like any other source, done when it is paid.
ExhaustedWhenPaid(p, d, entry) ==
    \E e \in Today(entry, d) :
        CeilingMins(p) = {} \/ e.minutes = {} \/ The(e.minutes) >= The(CeilingMins(p))

\* Whether another check today could change anything: behind a gate, whether its bar is met.
ExhaustedFor(p, d, entry) ==
    \E e \in Today(entry, d) :
        IF p.gate # {} THEN e.met
        ELSE CeilingMins(p) = {} \/ e.minutes = {} \/ The(e.minutes) >= The(CeilingMins(p))

-----------------------------------------------------------------------------
(* Config::earn.  A config here is [registry, earned, extra]. *)

Pruned(earned, d) == [s \in Sources |-> Today(earned[s], d)]
Counted(earned, d) == Cardinality({s \in Sources : Today(earned[s], d) # {}})

NoteBarMet(earned, s, d) ==
    [Pruned(earned, d) EXCEPT
        ![s] = IF @ # {} THEN {[e EXCEPT !.met = TRUE] : e \in @}
               ELSE IF Counted(earned, d) < MaxEarned
                    THEN {[date |-> d, minutes |-> {0}, met |-> TRUE]} ELSE {}]

\* Wrong on purpose: the last grant of the day is not cut to what is left of it.
PayableUncut(ceiling, spent, reward) ==
    CASE ceiling = {} -> IF spent = {} THEN reward ELSE {}
      [] ceiling # {} /\ spent = {{}} -> {}
      [] ceiling # {} /\ spent # {} /\ spent # {{}} ->
             IF The(The(spent)) >= The(ceiling) THEN {} ELSE reward
      [] OTHER -> {Min({The(ceiling), The(reward)})}

\* What of the reward the day still has room for.  `spent` is whether there is an entry, and in it
\* how much, if that was measured: an unmeasured one has used the day up.
Payable(ceiling, spent, reward) ==
    IF ceiling = {} THEN (IF spent = {} THEN reward ELSE {})
    ELSE IF spent = {} THEN {Min({The(ceiling), The(reward)})}
    ELSE IF spent = {{}} \/ The(The(spent)) >= The(ceiling) THEN {}
    ELSE {Min({The(ceiling) - The(The(spent)), The(reward)})}

Verdict(earned, extra, outcome, minutes) ==
    [earned |-> earned, extra |-> extra, outcome |-> outcome, minutes |-> minutes]

\* A gated grant raises its gate, and never the parent's own pool.
Pool(p, extra, d, mins) == IF p.gate = {} THEN Add(extra, d, mins) ELSE extra

\* The entry a grant leaves: measured where a ceiling or a gate needs the sum.
Entry(p, d, spent, mins, met) ==
    [date |-> d, met |-> met,
     minutes |-> IF CeilingMins(p) = {} /\ p.gate = {} THEN {}
                 ELSE {mins + IF spent \in {{}, {{}}} THEN 0 ELSE The(The(spent))}]

Earn(cfg, s, d, report) ==
    LET p == The(cfg.registry[s])
        spent == {e.minutes : e \in Today(cfg.earned[s], d)}
        noted == IF MetBy(p.gate, report) THEN NoteBarMet(cfg.earned, s, d) ELSE cfg.earned
        reward == RewardFor(p, report)
        payable == Payable(CeilingMins(p), spent, reward)
        met == \E e \in Today(noted[s], d) : e.met
        refused(outcome) == Verdict(noted, cfg.extra, outcome, 0)
    IN  IF \A q \in cfg.registry[s] : ~q.enabled THEN Verdict(cfg.earned, cfg.extra, "error", 0)
        ELSE IF reward = {} THEN refused("below_threshold")
        ELSE IF payable = {} THEN refused("paid_already")
        ELSE IF spent = {} /\ Counted(noted, d) >= MaxEarned THEN refused("error")
        ELSE Verdict([Pruned(noted, d) EXCEPT ![s] = {Entry(p, d, spent, The(payable), met)}],
                     Pool(p, cfg.extra, d, The(payable)), "granted", The(payable))

\* Config::gate_read_back: whether the gate of a source has been lifted.
Lifted(cfg, s, d) ==
    /\ \E p \in cfg.registry[s] : p.gate # {}
    /\ \E e \in Today(cfg.earned[s], d) : e.met

\* Config::gate_cap_mins: the tightest of the gates that still hold and can be checked.
GateCap(cfg, d, unchecked) ==
    LET lid(s) == The(The(cfg.registry[s]).gate).allowance
                  + LET paid == UNION {e.minutes : e \in Today(cfg.earned[s], d)}
                    IN  IF paid = {} THEN 0 ELSE The(paid)
        shut == {s \in Sources \ unchecked :
                    /\ \E p \in cfg.registry[s] : p.enabled /\ p.gate # {}
                    /\ ~ Lifted(cfg, s, d)}
    IN  IF shut = {} THEN {} ELSE {Min({lid(s) : s \in shut})}

=============================================================================
