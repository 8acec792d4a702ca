----------------------------- MODULE Countdown -----------------------------
(***************************************************************************)
(* When the child is told how little time is left: the thresholds a tick   *)
(* has crossed on the way down, the most urgent one only.  A countdown is  *)
(* the minutes it saw last, or none.                                       *)
(***************************************************************************)
EXTENDS Naturals, Options

CONSTANT WarnAt     \* WARN_AT_MINS

ASSUME ThresholdsAssumption == WarnAt \subseteq Nat \ {0}

Unprimed == {}

Crossed(last, remaining) ==
    {t \in WarnAt : remaining <= t /\ \E before \in last : before > t}

Observed(last, remaining) ==
    {t \in Crossed(last, remaining) : \A u \in Crossed(last, remaining) : t <= u}

=============================================================================
