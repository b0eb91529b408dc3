----------------------------- MODULE MC_History ------------------------------
(* The shell and one copy of it, three lines, and one file besides the     *)
(* history file.                                                           *)
EXTENDS History
=============================================================================
