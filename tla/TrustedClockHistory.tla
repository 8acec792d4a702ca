------------------------ MODULE TrustedClockHistory ------------------------
(***************************************************************************)
(* TrustedClock with what the install has told the clock to trust, and     *)
(* which seasons the OS itself has vouched for under the anchor in force.  *)
(***************************************************************************)
EXTENDS TrustedClock

VARIABLES
    lawful,  \* for each reader, the offsets trusted at some time since its call began
    steady,  \* for each reader, whether no re-anchor has been under way since then
    seen,    \* the seasons whose offset the service has been vouched for, and remembers
    held,    \* those of them behind the mark the rules loop is about to write
    kept     \* those of them behind what a restart would read back

historyVars == <<vars, lawful, steady, seen, held, kept>>

\* The recorded zone's own offsets and the anchor; what the tolerance adds, where it applies.
Trusted ==
    IF anchor = {} THEN Offsets
    ELSE anchor
         \union {Offset[z][s] : z \in recorded, s \in Seasons}
         \union {o \in Offsets : /\ recorded = {} \/ IdentityFails
                                 /\ \E a \in anchor : o - a \in -MaxDrift .. MaxDrift}

HistoryInit ==
    /\ Init
    /\ lawful = [r \in Readers |-> Trusted]
    /\ steady = [r \in Readers |-> TRUE]
    /\ seen = {} /\ held = {} /\ kept = {}

Raises == \E r \in Readers : NowRaises(r)
\* What the mark being read stands for: nothing, if the anchor has moved on meanwhile.
Marked == IF anchor = {saver.anchor} THEN seen ELSE {}
Skipped == SaverMarks /\ saver' = Idle
Written == SaverWrites /\ disk' = {saver.mark} /\ lastSaved' = disk'

Remember ==
    /\ lawful' = [r \in Readers |->
                    IF NowBegins(r) THEN Trusted' ELSE lawful[r] \union Trusted']
    /\ steady' = [r \in Readers |-> reanchor' = Idle /\ (NowBegins(r) \/ steady[r])]
    /\ seen' = IF Restart THEN kept
               ELSE IF (ReanchorAnchors \/ ReanchorSeedsMark) /\ MarkSeeded THEN {season}
               ELSE IF Raises THEN seen \union {season} ELSE seen
    /\ held' = IF Restart \/ reanchor # Idle \/ reanchor' # Idle THEN {}
               ELSE IF SaverMarks THEN Marked ELSE held
    /\ kept' = IF Restart THEN kept
               ELSE IF cfg' = [offset |-> {OsOffset}, zone |-> {zone}] /\ ReanchorSaves THEN {season}
               ELSE IF Written THEN kept \union held
               ELSE IF Skipped /\ reanchor = Idle THEN kept \union Marked ELSE kept

HistorySpec == HistoryInit /\ [][Next /\ Remember]_historyVars

-----------------------------------------------------------------------------
(* A caller of clock::now is answered an offset that the install trusts: the  *)
(* anchor's or one of the recorded zone's, or one within the tolerance where  *)
(* no zone can be compared, whatever zone the machine has been set to.        *)
AnswersAreTrusted ==
    \A r \in Readers : call[r].step = "answered" => call[r].answer \in lawful[r]

(* "a trusted clock an hour behind true local makes a 21:00 curfew fire at    *)
(* 22:00" (src/clock.rs): once the OS has vouched for the season's offset,    *)
(* and over restarts once that has reached the disk, no answer lies behind    *)
(* the recorded zone's own time.                                              *)
NeverBehind ==
    [][\A r \in Readers :
         /\ call[r].step # "answered" /\ call'[r].step = "answered"
         /\ season \in seen /\ steady[r]
         => \A z \in recorded : call'[r].answer >= Offset[z][season]]_historyVars

=============================================================================
