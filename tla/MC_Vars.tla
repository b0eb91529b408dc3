------------------------------- MODULE MC_Vars ------------------------------
(* Four names, in a table of four buckets: a and b collide until the table *)
(* grows to eight, a and c until it grows to sixteen.                      *)
EXTENDS Vars

MCKey   == {"a", "b", "c", "d"}
MCHash  == [k \in MCKey |-> CASE k = "a" -> 1 [] k = "b" -> 5
                              [] k = "c" -> 9 [] k = "d" -> 2]
MCValue == {"x", "y"}

\* An empty environment, and one whose last entry makes the table grow.
MCEnvironments ==
    {<<>>, <<<<"a", "x">>, <<"d", "x">>, <<"c", "y">>, <<"b", "x">>>>}
=============================================================================
