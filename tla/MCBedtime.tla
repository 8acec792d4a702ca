----------------------------- MODULE MCBedtime -----------------------------
(***************************************************************************)
(* Small instances of Providers and of Bedtime, which share no state: a    *)
(* behaviour is one of a single part, chosen when it begins, and the other *)
(* rests.                                                                  *)
(***************************************************************************)
EXTENDS Providers, Bedtime, TLC

Work(questions) == [questions |-> questions, practised |-> 0]
Rung(questions, mins) == [questions |-> questions, practised |-> 0, reward |-> mins]
Bar(questions, mins) == [questions |-> questions, practised |-> 0, allowance |-> mins]

\* One way to be simply paid, once a day; one with a gate and a ladder of two rungs that may be
\* climbed; and one switched off.
Plain == [enabled |-> TRUE, minutes |-> 2, cap |-> {}, tiers |-> {}, gate |-> {}, probe |-> TRUE]
Gated == [Plain EXCEPT !.gate = {Bar(2, 1)}, !.tiers = {Rung(1, 1), Rung(2, 3)}]

FewOffers == {Plain, Gated, [Plain EXCEPT !.enabled = FALSE]}
FewReports == {Work(1), Work(2)}

Reordered == Permutations(Sources)

-----------------------------------------------------------------------------

VARIABLE part

At(t) == {t}
Unreadable == {}
Window(start, end, days) == [start |-> start, end |-> end, days |-> days]

\* A week of three short days: six minutes long, in half minutes.
Everyday == [enabled |-> TRUE, start |-> At(10), end |-> At(2), windows |-> {}]
OneNight == [Everyday EXCEPT !.windows = {Window(At(10), At(4), {1})}]
Several ==
    [Everyday EXCEPT !.windows = {Window(At(2), At(4), {0, 2}), Window(At(8), At(2), {2}),
                                  Window(At(6), At(6), {}), Window(Unreadable, At(6), {})}]
Off == [OneNight EXCEPT !.enabled = FALSE]

FewCurfews == {Everyday, OneNight, Several, Off}

-----------------------------------------------------------------------------

AnyInit ==
    /\ part \in {"bedtime", "earned"}
    /\ Init /\ BedtimeInit
    \* what rests is in one state of those it may begin in
    /\ part = "earned" => curfew = Everyday

EarnedMoves == part = "earned" /\ Next /\ UNCHANGED <<part, bedtimeVars>>
BedtimeMoves == part = "bedtime" /\ BedtimeNext /\ UNCHANGED <<part, vars>>

AnyNext == BedtimeMoves \/ EarnedMoves

AnySpec == AnyInit /\ [][AnyNext]_<<part, vars, bedtimeVars>>

=============================================================================
