--------------------------- MODULE MCConfigStore ---------------------------
(* A config of a daily limit and a number of routines, and requests that set *)
(* the one, or add to the other up to a cap.                                 *)
EXTENDS ConfigStore, Naturals

MaxRoutines == 1
SmallConfigs == [limit : {60, 90}, routines : 0 .. MaxRoutines]
Initially == [limit |-> 60, routines |-> 0]

SetLimit(mins) == [c \in SmallConfigs |-> {[c EXCEPT !.limit = mins]}]
AddRoutine == [c \in SmallConfigs |->
                  IF c.routines = MaxRoutines THEN {} ELSE {[c EXCEPT !.routines = @ + 1]}]
DeleteRoutines == [c \in SmallConfigs |-> {[c EXCEPT !.routines = 0]}]

SmallJobs == {SetLimit(60), SetLimit(90), AddRoutine, DeleteRoutines}

=============================================================================
