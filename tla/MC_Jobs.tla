------------------------------ MODULE MC_Jobs -------------------------------
(* Model values for the process ids, interchangeable to the shell. *)
EXTENDS Jobs


Symm == Permutations(Pid)
=============================================================================
