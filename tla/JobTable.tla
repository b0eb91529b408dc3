------------------------------ MODULE JobTable ------------------------------
(***************************************************************************)
(* What the job list promises to a user who reads `[n] pid`: a table from  *)
(* small numbers to processes.  A new job gets the smallest number that is *)
(* free, keeps it, is reported "Done" exactly once, and only after its     *)
(* process has exited.                                                     *)
(***************************************************************************)
EXTENDS Integers

CONSTANT Pid

VARIABLES
    table,  \* job number -> pid
    exited  \* the numbers of the jobs whose process has exited

tvars == <<table, exited>>

Numbers == DOMAIN table

TableInit ==
    /\ table = [n \in {} |-> 0]
    /\ exited = {}

Start(p) ==
    /\ \A n \in Numbers : table[n] # p
    /\ \E n \in {1} \cup {m + 1 : m \in Numbers} :
        /\ n \notin Numbers
        /\ \A m \in 1..(n-1) : m \in Numbers
        /\ table' = [m \in Numbers \cup {n} |-> IF m = n THEN p ELSE table[m]]
        /\ exited' \in {exited, exited \cup {n}}

Exit(n) ==
    /\ n \in Numbers \ exited
    /\ exited' = exited \cup {n}
    /\ table' = table

Report(n) ==
    /\ n \in exited
    /\ table' = [m \in Numbers \ {n} |-> table[m]]
    /\ exited' = exited \ {n}

TableNext ==
    \/ \E p \in Pid : Start(p)
    \/ \E n \in Numbers : Exit(n) \/ Report(n)

TableSpec == TableInit /\ [][TableNext]_tvars
=============================================================================
