---------------------------- MODULE MC_Completion ---------------------------
(* A registry with room for two of three commands, two scripts, a table of *)
(* three builtins and two executables.                                     *)
EXTENDS Completion

CONSTANTS git, ls, mv, s1, s2
MCCommand  == {git, ls, mv}
MCScript   == {s1, s2}
MCText     == {"", "c"}
MCBuiltins == <<"cd", "complete", "type">>
MCOnPath   == <<"cat", "make">>
MCLine     == {"checkout", "push"}
MCCandidate == {"cd", "complete", "type", "cat", "make"} \cup MCLine
MCBegins   == [t \in MCText |-> IF t = "" THEN MCCandidate
                                ELSE {"cd", "complete", "cat", "checkout"}]
MCOutputs  == {<<>>, <<"push">>, <<"checkout", "push">>}
=============================================================================
