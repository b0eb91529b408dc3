----------------------------- MODULE HashTable ------------------------------
(***************************************************************************)
(* The chained hash table of hashtable.c, as operators on table values.    *)
(* A table is its capacity, its size counter and one chain per bucket.     *)
(* Allocation does not fail.                                               *)
(***************************************************************************)
EXTENDS Integers, SequencesExt

CONSTANTS
    Key, Value,
    Hash,               \* fnv_1a of each key
    InitialCapacity,    \* 16 in the code
    MaxCapacity         \* 2^30 in the code: tables stay below it

ASSUME HashTableAssumption ==
    /\ Hash \in [Key -> Nat]
    /\ InitialCapacity \in Nat /\ InitialCapacity >= 4 /\ InitialCapacity % 4 = 0
    /\ MaxCapacity \in Nat /\ InitialCapacity < MaxCapacity

Node == [key : Key, value : Value, exported : BOOLEAN]

IsTable(t) ==
    t \in [capacity : InitialCapacity..(MaxCapacity - 1), size : Nat,
           buckets : [0..(t.capacity - 1) -> Seq(Node)]]

Empty(capacity, size) ==
    [capacity |-> capacity, size |-> size,
     buckets |-> [b \in 0..(capacity - 1) |-> <<>>]]

ht_new == Empty(InitialCapacity, 0)

Index(t, key) == Hash[key] % t.capacity

\* Where a chain holds a key; 0 where it does not.
Place(chain, key) == SelectInSeq(chain, LAMBDA node : node.key = key)

Chain(t, key) == t.buckets[Index(t, key)]

\* The nodes of all buckets, in the order of ht_entryset.
Nodes(t) ==
    LET before[b \in 0..t.capacity] ==
            IF b = 0 THEN <<>> ELSE before[b - 1] \o t.buckets[b - 1]
    IN before[t.capacity]

ht_contains(t, key) == Place(Chain(t, key), key) # 0
ht_get(t, key)      == Chain(t, key)[Place(Chain(t, key), key)]

\* A new node takes the place of the first node with its key, and what came
\* behind that node is unlinked.
Link(chain, node) ==
    LET at == Place(chain, node.key)
    IN Append(IF at = 0 THEN chain ELSE SubSeq(chain, 1, at - 1), node)

\* The size grows whether or not the key was there.
PutAt(t, b, node) ==
    [t EXCEPT !.buckets[b] = Link(@, node), !.size = @ + 1]

\* The load factor 0.75.
IsFull(t) == 4 * t.size >= 3 * t.capacity

\* Mutant: the table grows by a quarter.
QuarterMore(t) == t.capacity + t.capacity \div 4

NewCapacity(t) == 2 * t.capacity

\* A put into a table that is not full.
Insert(t, node) == PutAt(t, Index(t, node.key), node)

\* Mutant: the new capacity is not recorded.
GrowBucketsOnly(t) ==
    LET nodes == Nodes(t)
        grown[k \in 0..Len(nodes)] ==
            IF k = 0 THEN Empty(NewCapacity(t), t.size)
            ELSE Insert(grown[k - 1], nodes[k])
    IN [grown[Len(nodes)] EXCEPT !.capacity = t.capacity]

\* hashtable_resize: every node is put again, on top of the old size.  None of
\* these puts resizes in its turn (SizeIsSound).
Grow(t) ==
    LET nodes == Nodes(t)
        grown[k \in 0..Len(nodes)] ==
            IF k = 0 THEN Empty(NewCapacity(t), t.size)
            ELSE Insert(grown[k - 1], nodes[k])
    IN grown[Len(nodes)]

\* hashtable_resize refuses to reach MaxCapacity, and ht_put then gives up.
CanGrow(t) == NewCapacity(t) < MaxCapacity

\* The bucket is chosen before the table is resized.
ht_put(t, node) ==
    IF ~IsFull(t) THEN Insert(t, node)
    ELSE IF CanGrow(t) THEN PutAt(Grow(t), Index(t, node.key), node)
    ELSE t

\* Mutant: the chain behind the removed node goes with it.
RemoveTail(t, key) ==
    [t EXCEPT !.buckets[Index(t, key)] = SubSeq(@, 1, Place(@, key) - 1),
              !.size = @ - 1]

\* Called for keys the table contains.  blist_remove reads next from the node it
\* has just freed; free() writes to the first two words of a node only, next is
\* the third, so that the walk ends where it would have ended.
ht_remove(t, key) ==
    [t EXCEPT !.buckets[Index(t, key)] = RemoveAt(@, Place(@, key)),
              !.size = @ - 1]
=============================================================================
