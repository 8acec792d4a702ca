------------------------------ MODULE Options ------------------------------
(* An Option<T> of the code is a set with at most one element of T. *)

Option(S) == {{}} \union {{x} : x \in S}

=============================================================================
