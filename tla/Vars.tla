-------------------------------- MODULE Vars --------------------------------
(***************************************************************************)
(* The shell variables: vars.c, and the operations that exec.c and expand.c*)
(* call.  Each call is one step; the shell has one thread.  (The builtin   *)
(* declare keeps another table, which nothing else reads.)                 *)
(***************************************************************************)
EXTENDS HashTable

CONSTANTS
    Environments,   \* what environ may hold when the shell starts
    MaxCalls        \* calls that put a value (a bound)

ASSUME VarsAssumption == Environments \subseteq Seq(Key \X Value) /\ MaxCalls \in Nat

VARIABLES
    table,      \* variable_table of vars.c
    environ,    \* the entries var_init_from_environ has not read yet
    calls,      \* puts so far
    current,    \* history: what each name was last assigned
    damaged     \* history: an operation lost more than it was asked to

vars == <<table, environ, calls, current, damaged>>

None == [value |-> "unset", exported |-> FALSE]
Entry(node) == [value |-> node.value, exported |-> node.exported]

var_lookup(name) == IF ht_contains(table, name) THEN Entry(ht_get(table, name)) ELSE None

\* A put that loses something: it unlinks other nodes, it links its own node
\* in the bucket of the old capacity, or the table cannot grow.
Damages(t, key) ==
    IF IsFull(t)
    THEN ~CanGrow(t) \/ Index(t, key) # Index(Grow(t), key)
                     \/ Place(Chain(Grow(t), key), key) \notin {0, Len(Chain(Grow(t), key))}
    ELSE Place(Chain(t, key), key) \notin {0, Len(Chain(t, key))}

Init ==
    /\ table = ht_new
    /\ environ \in Environments
    /\ calls = 0
    /\ current = [name \in Key |-> None]
    /\ damaged = FALSE

Put(name, value, exported) ==
    LET node == [key |-> name, value |-> value, exported |-> exported]
    IN /\ calls < MaxCalls
       /\ calls' = calls + 1
       /\ table' = ht_put(table, node)
       /\ current' = [current EXCEPT ![name] = Entry(node)]
       /\ damaged' = (damaged \/ Damages(table, name))

\* var_init_from_environ: one turn of its loop, before the shell does
\* anything else.
ReadEnviron ==
    /\ environ # <<>>
    /\ environ' = Tail(environ)
    /\ Put(Head(environ)[1], Head(environ)[2], TRUE)

\* Nothing but the export flag tells var_assign from var_export: an
\* assignment to an exported variable takes the flag away.
var_assign(name, value) == environ = <<>> /\ Put(name, value, FALSE) /\ UNCHANGED environ
var_export(name, value) == environ = <<>> /\ Put(name, value, TRUE) /\ UNCHANGED environ

var_unassign(name) ==
    /\ environ = <<>>
    /\ table' = IF ht_contains(table, name) THEN ht_remove(table, name) ELSE table
    /\ current' = [current EXCEPT ![name] = None]
    /\ UNCHANGED <<environ, calls, damaged>>

\* Mutant: every variable is copied.
CopyAll ==
    LET nodes == Nodes(table)
        moved[k \in 0..Len(nodes)] ==
            IF k = 0 THEN ht_new ELSE ht_put(moved[k - 1], nodes[k])
    IN /\ environ = <<>>
       /\ table' = moved[Len(nodes)]
       /\ current' = [name \in Key |->
                        IF current[name].exported THEN current[name] ELSE None]
       /\ damaged' = (damaged \/ \E k \in 1..Len(nodes) : Damages(moved[k - 1], nodes[k].key))
       /\ UNCHANGED <<environ, calls>>

\* fork_exported: the exported nodes move to a new table, which itself may
\* have to grow.
fork_exported ==
    LET nodes == Nodes(table)
        moved[k \in 0..Len(nodes)] ==
            IF k = 0 THEN ht_new
            ELSE IF nodes[k].exported THEN ht_put(moved[k - 1], nodes[k])
            ELSE moved[k - 1]
    IN /\ environ = <<>>
       /\ table' = moved[Len(nodes)]
       /\ current' = [name \in Key |->
                        IF current[name].exported THEN current[name] ELSE None]
       /\ damaged' = (damaged \/ \E k \in 1..Len(nodes) :
                         nodes[k].exported /\ Damages(moved[k - 1], nodes[k].key))
       /\ UNCHANGED <<environ, calls>>

Next ==
    \/ ReadEnviron
    \/ \E name \in Key, value \in Value :
         var_assign(name, value) \/ var_export(name, value)
    \/ \E name \in Key : var_unassign(name)
    \/ fork_exported

Spec == Init /\ [][Next]_vars

-----------------------------------------------------------------------------
(* Properties. *)

TypeOK ==
    /\ IsTable(table)
    /\ environ \in Seq(Key \X Value)
    /\ calls \in 0..MaxCalls
    /\ current \in [Key -> [value : Value \cup {None.value}, exported : BOOLEAN]]
    /\ damaged \in BOOLEAN

\* As long as no put unlinked another name, met a growing table with another
\* index or found it at its limit, the table is the map of what was assigned:
\* overwriting, growing, removing and fork_exported keep every other name.
IsMap == ~damaged => \A name \in Key : var_lookup(name) = current[name]

\* The size counts every node, whatever was overwritten, dropped or put again,
\* so that chains are never longer than the load factor allows; it exceeds
\* the load factor by one put at most.  And since a resize puts the nodes into
\* the table it is resizing, on top of the old size, none of these puts may
\* find it full again: hashtable_resize would run inside itself, over the
\* buckets it is replacing.
SizeIsSound ==
    /\ Len(Nodes(table)) <= table.size
    /\ 4 * (table.size - 1) <= 3 * table.capacity
    /\ IsFull(table) /\ CanGrow(table) =>
         4 * (table.size + Len(Nodes(table)) - 1) < 3 * NewCapacity(table)

\* "const char* result = var_lookup("TEST"); streq(result, "success");" after
\* var_init_from_environ (tests/var_tests.c): the entries of the environment
\* read so far are found.
EnvironmentIsFound ==
    [][environ # <<>> =>
         \A name \in Key : var_lookup(name)'.value = current'[name].value]_vars
=============================================================================
