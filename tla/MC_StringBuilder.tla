-------------------------- MODULE MC_StringBuilder ---------------------------
(* Small capacities, where every edge is a few appends away, and none.     *)
EXTENDS StringBuilder

MCRequests == {0, 1, 3}
=============================================================================
