---------------------------- MODULE EnforcementHistory ----------------------------
(***************************************************************************)
(* Enforcement with what neither loop remembers: whether both have had the *)
(* chance to see that nothing wants the machine off any more.              *)
(***************************************************************************)
EXTENDS Enforcement

VARIABLE disowned   \* an orphan counts down, and each loop has ticked without wanting it

historyVars == <<vars, disowned>>

HistoryInit == Init /\ disowned = FALSE

Wanted == curfew \/ (~paused /\ budget = "spent")

Remember ==
    disowned' = /\ \E s \in slot' : s.by = "orphan"
                /\ ~Wanted'
                /\ disowned \/ (CurfewLoopTicks /\ \E s \in slot : s.left > 0)

HistorySpec == HistoryInit /\ [][Next /\ Remember]_historyVars

-----------------------------------------------------------------------------
(* "otherwise pausing (or clearing the budget) mid-countdown would still    *)
(* power the machine off" (src/rules.rs): no countdown of the budget runs   *)
(* out after both loops have seen that nothing wants the machine off.       *)
UnwantedNeverFires == [][MachineOff => ~disowned]_historyVars

=============================================================================
