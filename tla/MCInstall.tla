----------------------------- MODULE MCInstall -----------------------------
(***************************************************************************)
(* Small instances of Install and of Diagnosis, which share no state: a    *)
(* behaviour is one of a single part, chosen when it begins, and the other *)
(* rests.                                                                  *)
(***************************************************************************)
EXTENDS Install, Diagnosis, TLC

CONSTANTS phone, tablet, older, newer, first, second

TwoDevices == {phone, tablet}
TwoBuilds == {older, newer}
TwoPasswords == {first, second}
\* None of the three is told apart by more than its name.
Interchangeable ==
    Permutations(TwoDevices) \union Permutations(TwoBuilds) \union Permutations(TwoPasswords)

VARIABLE part

\* Two ports, of which one is the default; two zones; a build before this one and one after.
\* A machine that rests is one of which doctor cannot tell (Impostor), the quickest to judge.
AnyInit ==
    \/ /\ part = "install" /\ Init
       /\ machine = [Healthy(8443, "amsterdam") EXCEPT !.held = {8443}, !.served = 9000]
       /\ asking = "idle" /\ port = 8443 /\ findings = {} /\ offers = <<>> /\ changed = FALSE
       /\ moves = 0 /\ advised = {} /\ fresh = TRUE /\ altered = FALSE /\ lied = FALSE
    \/ /\ part = "diagnosis" /\ DiagnosisInit
       /\ Init /\ readable

InstallMoves == part = "install" /\ Next /\ UNCHANGED <<part, diagnosisVars>>
DiagnosisMoves == part = "diagnosis" /\ DiagnosisNext /\ UNCHANGED <<part, vars>>

AnyNext == InstallMoves \/ DiagnosisMoves

AnySpec == AnyInit /\ [][AnyNext]_<<part, vars, diagnosisVars>>

=============================================================================
