--------------------------- MODULE MCTrustedClock ---------------------------
(* An instance of TrustedClockHistory: zones and what they are from UTC.      *)
EXTENDS TrustedClockHistory

\* Two homes that have no offset in common, both with a summer.
ApartOffset == [amsterdam |-> [winter |-> 1, summer |-> 2],
                azores    |-> [winter |-> -1, summer |-> 0]]

=============================================================================
