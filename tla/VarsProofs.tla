------------------------------ MODULE VarsProofs -----------------------------
(***************************************************************************)
(* The variable table, for any names, values, hash function and bounds: the*)
(* table is the map of what was assigned as long as no put damages it, and *)
(* its size is sound in any case.                                          *)
(*                                                                         *)
(* A table is seen as the set of its nodes (Content).  In an orderly table *)
(* each node is in the bucket of its hash, and no chain has a name twice,  *)
(* so that a lookup finds the node of a name if there is one.              *)
(***************************************************************************)
EXTENDS Vars, FiniteSetTheorems, SequenceTheorems, WellFoundedInduction, TLAPS

\* The nodes of a chain, and of a table.
Members(chain) == {chain[j] : j \in 1..Len(chain)}
Content(t) == UNION {Members(t.buckets[b]) : b \in 0..(t.capacity - 1)}

NoNameTwice(chain) == \A j, k \in 1..Len(chain) : chain[j].key = chain[k].key => j = k

\* A node is where a lookup finds it.
Orderly(t) ==
    \A b \in 0..(t.capacity - 1) :
        /\ NoNameTwice(t.buckets[b])
        /\ \A node \in Members(t.buckets[b]) : Index(t, node.key) = b

\* The nodes of the table say what the names were last assigned.
Holds(t, map) ==
    /\ \A node \in Content(t) : Entry(node) = map[node.key]
    /\ \A name \in Key : (\A node \in Content(t) : node.key # name) => map[name] = None

\* SizeIsSound for a table, and what it needs of the capacity.
Sound(t) ==
    /\ Len(Nodes(t)) =< t.size
    /\ 4 * (t.size - 1) =< 3 * t.capacity
    /\ IsFull(t) /\ CanGrow(t) => 4 * (t.size + Len(Nodes(t)) - 1) < 3 * NewCapacity(t)
    /\ t.capacity % 4 = 0

IInv ==
    /\ TypeOK
    /\ Sound(table)
    /\ ~damaged => Orderly(table) /\ Holds(table, current)

-----------------------------------------------------------------------------
(* Numbers and recursion. *)

\* A set of numbers has a least element.
LEMMA LeastNumber ==
  ASSUME NEW S \in SUBSET Nat, S # {}
  PROVE  \E x \in S : \A y \in S : x =< y
<1>1. PICK x \in S : \A y \in S : ~ (<<y, x>> \in OpToRel(<, Nat))
  BY NatLessThanWellFounded, WFMin, Zenon
<1>2. \A y, z \in Nat : y < z => <<y, z>> \in OpToRel(<, Nat)
  BY Zenon DEF OpToRel
<1>3. \A y \in S : x =< y
  <2> SUFFICES ASSUME NEW y \in S PROVE x =< y
    OBVIOUS
  <2>1. ~ (y < x)
    BY <1>1, <1>2, Zenon
  <2> QED
    BY <2>1
<1> QED
  BY <1>3

\* Min is that element.
LEMMA MinInSet ==
  ASSUME NEW S \in SUBSET Nat, S # {}
  PROVE  Min(S) \in S /\ \A y \in S : Min(S) =< y
BY LeastNumber DEF Min

\* Induction over the numbers up to n.
LEMMA UpToInduction ==
  ASSUME NEW n \in Nat, NEW S, 0 \in S, \A k \in 0..n : k \in S /\ k # n => k + 1 \in S
  PROVE  \A k \in 0..n : k \in S
<1> SUFFICES ASSUME NEW k \in 0..n, k \notin S PROVE FALSE
  OBVIOUS
<1> DEFINE T == {m \in 0..n : m \notin S}
<1>1. T \in SUBSET Nat /\ T # {}
  OBVIOUS
<1>2. PICK x \in T : \A y \in T : x =< y
  <2> HIDE DEF T
  <2> QED
    BY <1>1, LeastNumber
<1>3. x \in 0..n /\ x # 0 /\ x \notin S
  OBVIOUS
<1>4. x - 1 \in 0..n /\ x - 1 # n /\ (x - 1) + 1 = x
  BY <1>3
<1>5. x - 1 \in S
  BY <1>2, <1>4
<1> QED
  BY <1>3, <1>4, <1>5

\* f goes from s0, up to n, as F says.
Iterates(f, S, s0, F, n) ==
    f \in [0..n -> S] /\ f[0] = s0 /\ \A k \in 1..n : f[k] = F[k][f[k - 1]]

\* A function may be defined by recursion up to n.
LEMMA Iteration ==
  ASSUME NEW n \in Nat, NEW S, NEW s0 \in S, NEW F \in [1..n -> [S -> S]]
  PROVE  \E f : Iterates(f, S, s0, F, n)
<1> DEFINE T == {m \in 0..n : \E f \in [0..m -> S] :
                    f[0] = s0 /\ \A k \in 1..m : f[k] = F[k][f[k - 1]]}
<1>1. 0 \in T
  <2> DEFINE f == [k \in 0..0 |-> s0]
  <2>1. f \in [0..0 -> S] /\ f[0] = s0 /\ \A k \in 1..0 : f[k] = F[k][f[k - 1]]
    OBVIOUS
  <2>2. 0 \in 0..n
    OBVIOUS
  <2> HIDE DEF f
  <2> QED
    BY <2>1, <2>2
<1>2. ASSUME NEW m \in 0..n, m \in T, m # n PROVE m + 1 \in T
  <2>1. PICK f \in [0..m -> S] : f[0] = s0 /\ \A k \in 1..m : f[k] = F[k][f[k - 1]]
    BY <1>2
  <2>2. PICK h : h = m + 1
    OBVIOUS
  <2>3. /\ m \in Nat /\ m =< n /\ h \in 1..n /\ h \in 0..n
        /\ m \in 0..m /\ h - 1 = m /\ 0 \in 0..m
    <3>1. m \in Nat /\ m =< n
      OBVIOUS
    <3>2. m # n
      BY <1>2
    <3>3. m < n
      BY <3>1, <3>2
    <3> QED
      BY <2>2, <3>1, <3>3
  <2>4. F[h][f[m]] \in S
    <3>1. f[m] \in S
      BY <2>3
    <3> QED
      BY <2>3, <3>1
  <2> DEFINE g == [k \in 0..h |-> IF k = h THEN F[h][f[m]] ELSE f[k]]
  <2>5. \A k \in 0..h : k \in 0..m \/ k = h
    BY <2>2, <2>3
  <2>6. g \in [0..h -> S]
    BY <2>4, <2>5
  <2>7. \A k \in 0..m : g[k] = f[k] /\ k \in 0..h
    <3> SUFFICES ASSUME NEW k \in 0..m PROVE g[k] = f[k] /\ k \in 0..h
      OBVIOUS
    <3>1. k \in 0..h /\ k # h
      BY <2>2, <2>3
    <3> QED
      BY <3>1
  <2>8. g[h] = F[h][f[m]] /\ g[0] = s0
    <3>1. h \in 0..h
      BY <2>3
    <3> QED
      BY <2>1, <2>3, <2>7, <3>1
  <2> HIDE DEF g
  <2>9. \A k \in 1..h : g[k] = F[k][g[k - 1]]
    <3> SUFFICES ASSUME NEW k \in 1..h PROVE g[k] = F[k][g[k - 1]]
      OBVIOUS
    <3>1. CASE k = h
      BY <2>3, <2>7, <2>8, <3>1
    <3>2. CASE k # h
      <4>1. k \in 1..m /\ k \in 0..m /\ k - 1 \in 0..m
        BY <2>2, <3>2
      <4>2. f[k] = F[k][f[k - 1]]
        BY <2>1, <4>1
      <4> QED
        BY <2>7, <4>1, <4>2
    <3> QED
      BY <3>1, <3>2
  <2>10. h \in T
    BY <2>3, <2>6, <2>8, <2>9
  <2> QED
    BY <2>2, <2>10
<1>3. n \in T
  <2>1. n \in 0..n
    OBVIOUS
  <2> HIDE DEF T
  <2>2. \A k \in 0..n : k \in T
    BY <1>1, <1>2, UpToInduction
  <2> QED
    BY <2>1, <2>2
<1> QED
  BY <1>3 DEF Iterates

-----------------------------------------------------------------------------
(* Chains. *)

\* Where a chain holds a name, and that it is the first such place.
LEMMA PlaceFacts ==
  ASSUME NEW chain \in Seq(Node), NEW key
  PROVE  /\ Place(chain, key) \in 0..Len(chain)
         /\ Place(chain, key) = 0 <=> \A j \in 1..Len(chain) : chain[j].key # key
         /\ Place(chain, key) # 0 =>
              /\ chain[Place(chain, key)].key = key
              /\ \A j \in 1..Len(chain) : chain[j].key = key => Place(chain, key) =< j
<1>1. PICK I : I = {j \in 1..Len(chain) : chain[j].key = key}
  OBVIOUS
<1>2. Place(chain, key) = IF I # {} THEN Min(I) ELSE 0
  BY <1>1 DEF Place, SelectInSeq
<1>3. I \in SUBSET Nat /\ Len(chain) \in Nat
  BY <1>1
<1>4. CASE I = {}
  BY <1>1, <1>2, <1>3, <1>4
<1>5. CASE I # {}
  <2>1. PICK p : p = Min(I)
    OBVIOUS
  <2>2. p \in I /\ \A y \in I : p =< y
    BY <1>3, <1>5, <2>1, MinInSet
  <2>3. p \in 1..Len(chain) /\ chain[p].key = key /\ Place(chain, key) = p
    BY <1>1, <1>2, <1>5, <2>1, <2>2
  <2>4. p # 0 /\ p \in 0..Len(chain)
    BY <1>3, <2>3
  <2>5. \A j \in 1..Len(chain) : chain[j].key = key => p =< j
    BY <1>1, <2>2
  <2> QED
    BY <2>3, <2>4, <2>5
<1> QED
  BY <1>4, <1>5

\* What a chain is when a node has been linked.
LEMMA LinkFacts ==
  ASSUME NEW chain \in Seq(Node), NEW node \in Node
  PROVE  /\ Link(chain, node) \in Seq(Node)
         /\ Len(Link(chain, node)) =< Len(chain) + 1
         /\ NoNameTwice(chain) => NoNameTwice(Link(chain, node))
         /\ Place(chain, node.key) \in {0, Len(chain)} =>
              Members(Link(chain, node)) =
                {other \in Members(chain) : other.key # node.key} \cup {node}
<1>1. PICK at : at = Place(chain, node.key)
  OBVIOUS
<1>2. /\ Len(chain) \in Nat /\ at \in 0..Len(chain)
      /\ at = 0 <=> \A j \in 1..Len(chain) : chain[j].key # node.key
      /\ at # 0 =>
           /\ chain[at].key = node.key
           /\ \A j \in 1..Len(chain) : chain[j].key = node.key => at =< j
  BY <1>1, PlaceFacts
<1>3. PICK kept : kept = IF at = 0 THEN chain ELSE SubSeq(chain, 1, at - 1)
  OBVIOUS
<1>4. Link(chain, node) = Append(kept, node)
  BY <1>1, <1>3 DEF Link
<1>5. PICK m : m = IF at = 0 THEN Len(chain) ELSE at - 1
  OBVIOUS
<1>6. m \in Nat /\ m =< Len(chain)
  BY <1>2, <1>5
<1>7. /\ kept \in Seq(Node) /\ Len(kept) = m
      /\ \A j \in 1..m : kept[j] = chain[j] /\ chain[j].key # node.key /\ j \in 1..Len(chain)
  <2>1. CASE at = 0
    BY <1>2, <1>3, <1>5, <2>1
  <2>2. CASE at # 0
    <3>1. at - 1 \in Nat /\ at - 1 =< Len(chain)
      BY <1>2, <2>2
    <3>2. kept = SubSeq(chain, 1, at - 1) /\ m = at - 1
      BY <1>3, <1>5, <2>2
    <3>3. kept \in Seq(Node) /\ Len(kept) = m /\ \A j \in 1..m : kept[j] = chain[j]
      BY <1>2, <3>1, <3>2
    <3>4. \A j \in 1..m : j \in 1..Len(chain) /\ ~(at =< j)
      BY <1>2, <3>1, <3>2
    <3> QED
      BY <1>2, <2>2, <3>3, <3>4
  <2> QED
    BY <2>1, <2>2
<1>8. PICK new : new = Append(kept, node)
  OBVIOUS
<1>9. /\ new \in Seq(Node) /\ Len(new) = m + 1
      /\ \A j \in 1..m : new[j] = chain[j] /\ chain[j].key # node.key /\ j \in 1..Len(chain)
      /\ new[m + 1] = node
  BY <1>7, <1>8, AppendProperties
<1>10. \A j \in 1..(m + 1) : j \in 1..m \/ j = m + 1
  BY <1>6
<1>11. NoNameTwice(chain) => NoNameTwice(new)
  <2> SUFFICES ASSUME NoNameTwice(chain), NEW j \in 1..Len(new), NEW k \in 1..Len(new),
                      new[j].key = new[k].key
               PROVE  j = k
    BY DEF NoNameTwice
  <2>1. j \in 1..(m + 1) /\ k \in 1..(m + 1)
    BY <1>9
  <2>2. CASE j \in 1..m /\ k \in 1..m
    BY <1>9, <2>2 DEF NoNameTwice
  <2> QED
    BY <1>9, <1>10, <2>1, <2>2
<1>12. ASSUME at \in {0, Len(chain)}
       PROVE  Members(new) = {other \in Members(chain) : other.key # node.key} \cup {node}
  <2>1. ASSUME NEW x \in Members(new)
        PROVE  x \in {other \in Members(chain) : other.key # node.key} \cup {node}
    <3>1. PICK j \in 1..(m + 1) : x = new[j]
      BY <1>9 DEF Members
    <3> QED
      BY <1>9, <1>10, <3>1 DEF Members
  <2>2. ASSUME NEW x \in Members(chain), x.key # node.key PROVE x \in Members(new)
    <3>1. PICK j \in 1..Len(chain) : x = chain[j]
      BY DEF Members
    <3>2. j \in 1..m
      BY <1>2, <1>5, <1>12, <2>2, <3>1
    <3>3. j \in 1..Len(new) /\ new[j] = x
      BY <1>6, <1>9, <3>1, <3>2
    <3> QED
      BY <3>3 DEF Members
  <2>3. node \in Members(new)
    <3>1. m + 1 \in 1..Len(new)
      BY <1>6, <1>9
    <3> QED
      BY <1>9, <3>1 DEF Members
  <2> QED
    BY <2>1, <2>2, <2>3
<1>13. m + 1 =< Len(chain) + 1
  BY <1>2, <1>6
<1> QED
  BY <1>1, <1>4, <1>8, <1>9, <1>11, <1>12, <1>13

\* What a chain is when a node has been removed.
LEMMA RemoveFacts ==
  ASSUME NEW chain \in Seq(Node), NEW at \in 1..Len(chain)
  PROVE  /\ RemoveAt(chain, at) \in Seq(Node)
         /\ Len(RemoveAt(chain, at)) = Len(chain) - 1
         /\ NoNameTwice(chain) =>
              /\ NoNameTwice(RemoveAt(chain, at))
              /\ Members(RemoveAt(chain, at)) =
                   {other \in Members(chain) : other.key # chain[at].key}
<1>1. PICK n : n = Len(chain)
  OBVIOUS
<1>2. n \in Nat /\ at \in 1..n /\ at \in Nat /\ at - 1 \in Nat /\ n - at \in Nat
  BY <1>1
<1>3. PICK front, back : front = SubSeq(chain, 1, at - 1) /\ back = SubSeq(chain, at + 1, n)
  OBVIOUS
<1>4. /\ front \in Seq(Node) /\ Len(front) = at - 1
      /\ \A j \in 1..(at - 1) : front[j] = chain[j]
  BY <1>1, <1>2, <1>3
<1>5. /\ back \in Seq(Node) /\ Len(back) = n - at
      /\ \A j \in 1..(n - at) : back[j] = chain[at + j]
  <2>1. CASE at = n
    BY <1>1, <1>2, <1>3, <2>1
  <2>2. CASE at # n
    <3>1. at + 1 \in 1..n
      BY <1>2, <2>2
    <3>2. n - (at + 1) + 1 = n - at
      BY <1>2
    <3>3. \A j \in 1..(n - at) : (at + 1) + j - 1 = at + j
      BY <1>2
    <3> QED
      BY <1>1, <1>2, <1>3, <3>1, <3>2, <3>3
  <2> QED
    BY <2>1, <2>2
<1>6. PICK new : new = RemoveAt(chain, at)
  OBVIOUS
<1>7. new = front \o back
  BY <1>1, <1>3, <1>6 DEF RemoveAt
<1>8. new \in Seq(Node) /\ Len(new) = n - 1
  <2>1. new \in Seq(Node) /\ Len(new) = Len(front) + Len(back)
    BY <1>4, <1>5, <1>7, ConcatProperties
  <2>2. (at - 1) + (n - at) = n - 1
    BY <1>2
  <2> QED
    BY <1>4, <1>5, <2>1, <2>2
<1>9. \A j \in 1..(n - 1) : new[j] = IF j < at THEN chain[j] ELSE chain[j + 1]
  <2> SUFFICES ASSUME NEW j \in 1..(n - 1)
               PROVE  new[j] = IF j < at THEN chain[j] ELSE chain[j + 1]
    OBVIOUS
  <2>1. CASE j < at
    <3>1. j \in 1..Len(front)
      BY <1>2, <1>4, <2>1
    <3>2. new[j] = front[j]
      BY <1>4, <1>5, <1>7, <3>1, ConcatProperties
    <3> QED
      BY <1>4, <2>1, <3>1, <3>2
  <2>2. CASE ~(j < at)
    <3>1. PICK l : l = j - (at - 1)
      OBVIOUS
    <3>2. l \in 1..(n - at) /\ at + l = j + 1 /\ j > Len(front) /\ j =< Len(front) + Len(back)
          /\ j - Len(front) = l
      BY <1>2, <1>4, <1>5, <2>2, <3>1
    <3>3. new[j] = back[l]
      BY <1>4, <1>5, <1>7, <3>2, ConcatProperties
    <3> QED
      BY <1>5, <2>2, <3>2, <3>3
  <2> QED
    BY <2>1, <2>2
<1>10. \A j \in 1..(n - 1) : \E l \in 1..n : new[j] = chain[l] /\ l # at
                                            /\ l = IF j < at THEN j ELSE j + 1
  <2> SUFFICES ASSUME NEW j \in 1..(n - 1)
               PROVE  \E l \in 1..n : new[j] = chain[l] /\ l # at
                                      /\ l = IF j < at THEN j ELSE j + 1
    OBVIOUS
  <2>1. CASE j < at
    BY <1>2, <1>9, <2>1
  <2>2. CASE ~(j < at)
    <3>1. j + 1 \in 1..n /\ j + 1 # at
      BY <1>2, <2>2
    <3> QED
      BY <1>9, <2>2, <3>1
  <2> QED
    BY <2>1, <2>2
<1>11. \A l \in 1..n : l # at => \E j \in 1..(n - 1) : new[j] = chain[l]
  <2> SUFFICES ASSUME NEW l \in 1..n, l # at PROVE \E j \in 1..(n - 1) : new[j] = chain[l]
    OBVIOUS
  <2>1. CASE l < at
    <3>1. l \in 1..(n - 1)
      BY <1>2, <2>1
    <3> QED
      BY <1>9, <2>1, <3>1
  <2>2. CASE ~(l < at)
    <3>1. PICK j : j = l - 1
      OBVIOUS
    <3>2. j \in 1..(n - 1) /\ ~(j < at) /\ j + 1 = l
      BY <1>2, <2>2, <3>1
    <3> QED
      BY <1>9, <3>2
  <2> QED
    BY <2>1, <2>2
<1>12. ASSUME NoNameTwice(chain) PROVE NoNameTwice(new)
  <2> SUFFICES ASSUME NEW j \in 1..(n - 1), NEW k \in 1..(n - 1), new[j].key = new[k].key
               PROVE  j = k
    BY <1>8 DEF NoNameTwice
  <2>1. PICK p \in 1..n : new[j] = chain[p] /\ p = IF j < at THEN j ELSE j + 1
    BY <1>10
  <2>2. PICK q \in 1..n : new[k] = chain[q] /\ q = IF k < at THEN k ELSE k + 1
    BY <1>10
  <2>3. p = q
    BY <1>1, <1>12, <2>1, <2>2 DEF NoNameTwice
  <2> QED
    BY <1>2, <2>1, <2>2, <2>3
<1>13. ASSUME NoNameTwice(chain)
       PROVE  Members(new) = {other \in Members(chain) : other.key # chain[at].key}
  <2>1. ASSUME NEW x \in Members(new) PROVE x \in Members(chain) /\ x.key # chain[at].key
    <3>1. PICK j \in 1..(n - 1) : x = new[j]
      BY <1>8 DEF Members
    <3>2. PICK l \in 1..n : x = chain[l] /\ l # at
      BY <1>10, <3>1
    <3> QED
      BY <1>1, <1>2, <1>13, <3>2 DEF Members, NoNameTwice
  <2>2. ASSUME NEW x \in Members(chain), x.key # chain[at].key PROVE x \in Members(new)
    <3>1. PICK l \in 1..n : x = chain[l]
      BY <1>1 DEF Members
    <3>2. PICK j \in 1..(n - 1) : new[j] = x
      BY <1>11, <2>2, <3>1
    <3> QED
      BY <1>8, <3>2 DEF Members
  <2> QED
    BY <2>1, <2>2
<1> QED
  BY <1>1, <1>6, <1>8, <1>12, <1>13

-----------------------------------------------------------------------------
(* Tables. *)

\* The parts of a table.
LEMMA TableFacts ==
  ASSUME NEW t, IsTable(t)
  PROVE  /\ t.capacity \in Nat /\ t.capacity >= 4 /\ t.capacity < MaxCapacity
         /\ t.capacity \in InitialCapacity..(MaxCapacity - 1) /\ t.size \in Nat
         /\ t.buckets \in [0..(t.capacity - 1) -> Seq(Node)]
         /\ \A b \in 0..(t.capacity - 1) : t.buckets[b] \in Seq(Node) /\ Len(t.buckets[b]) \in Nat
<1>1. /\ t.capacity \in InitialCapacity..(MaxCapacity - 1) /\ t.size \in Nat
      /\ t.buckets \in [0..(t.capacity - 1) -> Seq(Node)]
  BY DEF IsTable
<1>2. t.capacity \in Nat /\ t.capacity >= 4 /\ t.capacity < MaxCapacity
  BY <1>1, HashTableAssumption
<1>3. \A b \in 0..(t.capacity - 1) : t.buckets[b] \in Seq(Node) /\ Len(t.buckets[b]) \in Nat
  BY <1>1
<1> QED
  BY <1>1, <1>2, <1>3

\* Every name has a bucket.
LEMMA IndexFacts ==
  ASSUME NEW t, IsTable(t), NEW key \in Key
  PROVE  Index(t, key) \in 0..(t.capacity - 1) /\ Chain(t, key) \in Seq(Node)
<1>1. t.capacity \in Nat /\ t.capacity > 0 /\ Hash[key] \in Nat
  BY TableFacts, HashTableAssumption
<1>2. PICK h \in Nat : h = Hash[key]
  BY <1>1
<1>3. PICK n \in Nat : n = t.capacity /\ n > 0
  BY <1>1
<1>4. h % n \in 0..(n - 1)
  BY <1>3
<1>5. Index(t, key) \in 0..(t.capacity - 1)
  BY <1>2, <1>3, <1>4 DEF Index
<1> QED
  BY <1>5, TableFacts DEF Chain

\* Tables of the same capacity are in the same order.
LEMMA IndexStays ==
  ASSUME NEW t, NEW u, u.capacity = t.capacity
  PROVE  \A key : Index(u, key) = Index(t, key)
BY DEF Index

\* A put touches one bucket.
LEMMA PutAtFacts ==
  ASSUME NEW t, IsTable(t), NEW b \in 0..(t.capacity - 1), NEW node \in Node
  PROVE  /\ IsTable(PutAt(t, b, node))
         /\ PutAt(t, b, node).capacity = t.capacity
         /\ PutAt(t, b, node).size = t.size + 1
         /\ PutAt(t, b, node).buckets[b] = Link(t.buckets[b], node)
         /\ \A o \in 0..(t.capacity - 1) : o # b => PutAt(t, b, node).buckets[o] = t.buckets[o]
<1>1. PICK c, s, f : c = t.capacity /\ s = t.size /\ f = t.buckets
  OBVIOUS
<1>2. /\ t = [capacity |-> c, size |-> s, buckets |-> f]
      /\ c \in InitialCapacity..(MaxCapacity - 1) /\ s \in Nat /\ f \in [0..(c - 1) -> Seq(Node)]
  BY <1>1 DEF IsTable
<1>3. PICK l : l = Link(f[b], node)
  OBVIOUS
<1>4. l \in Seq(Node)
  BY <1>1, <1>2, <1>3, LinkFacts
<1>5. PICK g : g = [f EXCEPT ![b] = l]
  OBVIOUS
<1>6. g \in [0..(c - 1) -> Seq(Node)] /\ g[b] = l /\ \A o \in 0..(c - 1) : o # b => g[o] = f[o]
  BY <1>1, <1>2, <1>4, <1>5
<1>7. PutAt(t, b, node) = [capacity |-> c, size |-> s + 1, buckets |-> g]
  <2>1. PutAt(t, b, node) = [t EXCEPT !.buckets[b] = Link(@, node), !.size = @ + 1]
    BY DEF PutAt
  <2> QED
    BY <1>1, <1>2, <1>3, <1>5, <2>1
<1>8. PICK u : u = [capacity |-> c, size |-> s + 1, buckets |-> g]
  OBVIOUS
<1>9. u.capacity = c /\ u.size = s + 1 /\ u.buckets = g
  BY <1>8
<1>10. IsTable(u)
  BY <1>2, <1>6, <1>8, <1>9 DEF IsTable
<1> QED
  BY <1>1, <1>3, <1>6, <1>7, <1>8, <1>9, <1>10

\* So does the removal of a name.
LEMMA ht_removeFacts ==
  ASSUME NEW t, IsTable(t), NEW b \in 0..(t.capacity - 1), NEW key,
         b = Index(t, key), Place(t.buckets[b], key) # 0, t.size # 0
  PROVE  /\ IsTable(ht_remove(t, key))
         /\ ht_remove(t, key).capacity = t.capacity
         /\ ht_remove(t, key).size = t.size - 1
         /\ ht_remove(t, key).buckets[b] = RemoveAt(t.buckets[b], Place(t.buckets[b], key))
         /\ \A o \in 0..(t.capacity - 1) : o # b => ht_remove(t, key).buckets[o] = t.buckets[o]
<1>1. PICK c, s, f : c = t.capacity /\ s = t.size /\ f = t.buckets
  OBVIOUS
<1>2. /\ t = [capacity |-> c, size |-> s, buckets |-> f]
      /\ c \in InitialCapacity..(MaxCapacity - 1) /\ s \in Nat /\ f \in [0..(c - 1) -> Seq(Node)]
  BY <1>1 DEF IsTable
<1>3. PICK l : l = RemoveAt(f[b], Place(f[b], key))
  OBVIOUS
<1>4. l \in Seq(Node)
  <2>1. f[b] \in Seq(Node) /\ Len(f[b]) \in Nat
    BY <1>1, <1>2
  <2>2. Place(f[b], key) \in 0..Len(f[b]) /\ Place(f[b], key) # 0
    BY <1>1, <2>1, PlaceFacts
  <2>3. Place(f[b], key) \in 1..Len(f[b])
    BY <2>1, <2>2
  <2> QED
    BY <1>3, <2>1, <2>3, RemoveFacts
<1>5. PICK g : g = [f EXCEPT ![b] = l]
  OBVIOUS
<1>6. g \in [0..(c - 1) -> Seq(Node)] /\ g[b] = l /\ \A o \in 0..(c - 1) : o # b => g[o] = f[o]
  BY <1>1, <1>2, <1>4, <1>5
<1>7. ht_remove(t, key) = [capacity |-> c, size |-> s - 1, buckets |-> g]
  <2>1. ht_remove(t, key) = [t EXCEPT !.buckets[b] = RemoveAt(@, Place(@, key)), !.size = @ - 1]
    BY DEF ht_remove
  <2> QED
    BY <1>1, <1>2, <1>3, <1>5, <2>1
<1>8. PICK u : u = [capacity |-> c, size |-> s - 1, buckets |-> g]
  OBVIOUS
<1>9. u.capacity = c /\ u.size = s - 1 /\ u.buckets = g
  BY <1>8
<1>10. s - 1 \in Nat
  BY <1>1, <1>2
<1>11. IsTable(u)
  BY <1>2, <1>6, <1>8, <1>9, <1>10 DEF IsTable
<1> QED
  BY <1>1, <1>3, <1>6, <1>7, <1>8, <1>9, <1>11

\* The nodes of a table, bucket by bucket.
LEMMA NodesSteps ==
  ASSUME NEW t, IsTable(t)
  PROVE  \E f \in [0..t.capacity -> Seq(Node)] :
           /\ f[0] = <<>>
           /\ \A b \in 1..t.capacity : f[b] = f[b - 1] \o t.buckets[b - 1]
           /\ Nodes(t) = f[t.capacity]
<1>1. PICK n \in Nat : n = t.capacity
  BY TableFacts
<1>2. \A b \in 1..n : b - 1 \in 0..(n - 1) /\ t.buckets[b - 1] \in Seq(Node)
  BY <1>1, TableFacts
<1> DEFINE F == [b \in 1..n |-> [s \in Seq(Node) |-> s \o t.buckets[b - 1]]]
<1>3. F \in [1..n -> [Seq(Node) -> Seq(Node)]]
  <2>1. \A b \in 1..n : \A s \in Seq(Node) : s \o t.buckets[b - 1] \in Seq(Node)
    BY <1>2, ConcatProperties
  <2> QED
    BY <2>1
<1>4. \A b \in 1..n : \A s \in Seq(Node) : F[b][s] = s \o t.buckets[b - 1]
  OBVIOUS
<1> HIDE DEF F
<1>5. <<>> \in Seq(Node)
  OBVIOUS
<1>6. PICK f : Iterates(f, Seq(Node), <<>>, F, n)
  BY <1>3, <1>5, Iteration
<1>f. /\ f \in [0..n -> Seq(Node)] /\ f[0] = <<>>
      /\ \A b \in 1..n : f[b] = F[b][f[b - 1]]
  BY <1>6 DEF Iterates
<1>7. \A b \in 1..n : f[b] = f[b - 1] \o t.buckets[b - 1]
  <2> SUFFICES ASSUME NEW b \in 1..n PROVE f[b] = f[b - 1] \o t.buckets[b - 1]
    OBVIOUS
  <2>1. f[b - 1] \in Seq(Node)
    <3>1. b - 1 \in 0..n
      OBVIOUS
    <3> QED
      BY <1>f, <3>1
  <2> QED
    BY <1>4, <1>f, <2>1
<1> DEFINE IsBefore(h) ==
      h = [b \in 0..n |-> IF b = 0 THEN <<>> ELSE h[b - 1] \o t.buckets[b - 1]]
<1>8. IsBefore(f)
  <2>1. ASSUME NEW b \in 0..n
        PROVE  f[b] = IF b = 0 THEN <<>> ELSE f[b - 1] \o t.buckets[b - 1]
    <3>1. CASE b = 0
      BY <1>f, <3>1
    <3>2. CASE b # 0
      <4>1. b \in 1..n
        BY <3>2
      <4> QED
        BY <1>7, <3>2, <4>1
    <3> QED
      BY <3>1, <3>2
  <2>2. f = [b \in 0..n |-> f[b]]
    BY <1>f
  <2> QED
    BY <2>1, <2>2
<1>9. PICK g : g = CHOOSE h : IsBefore(h)
  OBVIOUS
<1>10. IsBefore(g)
  BY <1>8, <1>9
<1>11. Nodes(t) = g[n]
  BY <1>1, <1>9 DEF Nodes
<1>12. \A b \in 0..n : g[b] = IF b = 0 THEN <<>> ELSE g[b - 1] \o t.buckets[b - 1]
  BY <1>10
<1> HIDE DEF IsBefore
<1>13. \A b \in 0..n : b \in {k \in 0..n : g[k] = f[k]}
  <2> DEFINE S == {k \in 0..n : g[k] = f[k]}
  <2>1. 0 \in S
    <3>1. 0 \in 0..n /\ g[0] = <<>>
      BY <1>12
    <3> QED
      BY <1>f, <3>1
  <2>2. ASSUME NEW k \in 0..n, k \in S, k # n PROVE k + 1 \in S
    <3>1. k + 1 \in 1..n /\ k + 1 \in 0..n /\ (k + 1) - 1 = k /\ k + 1 # 0
      BY <2>2
    <3>2. g[k + 1] = g[k] \o t.buckets[k] /\ f[k + 1] = f[k] \o t.buckets[k]
      BY <1>7, <1>12, <3>1
    <3> QED
      BY <2>2, <3>1, <3>2
  <2> HIDE DEF S
  <2>3. \A k \in 0..n : k \in S
    BY <2>1, <2>2, UpToInduction
  <2> QED
    BY <2>3 DEF S
<1>14. Nodes(t) = f[n]
  <2>1. n \in 0..n
    OBVIOUS
  <2> QED
    BY <1>11, <1>13, <2>1
<1> QED
  BY <1>1, <1>f, <1>7, <1>14

\* What a node is among the others when two chains are joined.
LEMMA JoinFacts ==
  ASSUME NEW r \in Seq(Node), NEW s \in Seq(Node)
  PROVE  /\ r \o s \in Seq(Node) /\ Len(r \o s) = Len(r) + Len(s)
         /\ Members(r \o s) = Members(r) \cup Members(s)
         /\ NoNameTwice(r) /\ NoNameTwice(s)
            /\ (\A x \in Members(r), y \in Members(s) : x.key # y.key) => NoNameTwice(r \o s)
<1>1. PICK m, n : m = Len(r) /\ n = Len(s)
  OBVIOUS
<1>2. m \in Nat /\ n \in Nat
  BY <1>1
<1>3. PICK j : j = r \o s
  OBVIOUS
<1>4. /\ j \in Seq(Node) /\ Len(j) = m + n
      /\ \A k \in 1..(m + n) : j[k] = IF k =< m THEN r[k] ELSE s[k - m]
  BY <1>1, <1>3, ConcatProperties
<1>5. \A k \in 1..(m + n) : IF k =< m THEN k \in 1..m ELSE k - m \in 1..n
  BY <1>2
<1>6. \A k \in 1..(m + n) : IF k =< m THEN j[k] \in Members(r) ELSE j[k] \in Members(s)
  BY <1>1, <1>4, <1>5 DEF Members
<1>7. Members(j) = Members(r) \cup Members(s)
  <2>1. ASSUME NEW x \in Members(j) PROVE x \in Members(r) \cup Members(s)
    <3>1. PICK k \in 1..(m + n) : x = j[k]
      BY <1>4 DEF Members
    <3> QED
      BY <1>6, <3>1
  <2>2. ASSUME NEW x \in Members(r) PROVE x \in Members(j)
    <3>1. PICK k \in 1..m : x = r[k]
      BY <1>1 DEF Members
    <3>2. k \in 1..(m + n) /\ k =< m
      BY <1>2
    <3> QED
      BY <1>4, <3>1, <3>2 DEF Members
  <2>3. ASSUME NEW x \in Members(s) PROVE x \in Members(j)
    <3>1. PICK k \in 1..n : x = s[k]
      BY <1>1 DEF Members
    <3>2. k + m \in 1..(m + n) /\ ~(k + m =< m) /\ (k + m) - m = k
      BY <1>2
    <3>3. j[k + m] = x
      BY <1>4, <3>1, <3>2
    <3> QED
      BY <1>4, <3>2, <3>3 DEF Members
  <2> QED
    BY <2>1, <2>2, <2>3
<1>8. ASSUME NoNameTwice(r), NoNameTwice(s), \A x \in Members(r), y \in Members(s) : x.key # y.key
      PROVE  NoNameTwice(j)
  <2> SUFFICES ASSUME NEW k \in 1..(m + n), NEW l \in 1..(m + n), j[k].key = j[l].key
               PROVE  k = l
    BY <1>4 DEF NoNameTwice
  <2>1. CASE k =< m /\ l =< m
    <3>1. k \in 1..m /\ l \in 1..m /\ r[k].key = r[l].key
      BY <1>4, <1>5, <2>1
    <3> QED
      BY <1>1, <1>8, <3>1 DEF NoNameTwice
  <2>2. CASE ~(k =< m) /\ ~(l =< m)
    <3>1. k - m \in 1..n /\ l - m \in 1..n /\ s[k - m].key = s[l - m].key
      BY <1>4, <1>5, <2>2
    <3>2. k - m = l - m
      BY <1>1, <1>8, <3>1 DEF NoNameTwice
    <3> QED
      BY <1>2, <3>2
  <2>3. CASE k =< m /\ ~(l =< m)
    BY <1>6, <1>8, <2>3
  <2>4. CASE ~(k =< m) /\ l =< m
    BY <1>6, <1>8, <2>4
  <2> QED
    BY <2>1, <2>2, <2>3, <2>4
<1> QED
  BY <1>1, <1>3, <1>4, <1>7, <1>8

\* ht_entryset finds every node of the table, and in an orderly one each name
\* once.
LEMMA NodesFacts ==
  ASSUME NEW t, IsTable(t)
  PROVE  /\ Nodes(t) \in Seq(Node)
         /\ Members(Nodes(t)) = Content(t)
         /\ Orderly(t) => NoNameTwice(Nodes(t))
<1>1. PICK n \in Nat : n = t.capacity
  BY TableFacts
<1>2. PICK f \in [0..n -> Seq(Node)] :
        /\ f[0] = <<>>
        /\ \A b \in 1..n : f[b] = f[b - 1] \o t.buckets[b - 1]
        /\ Nodes(t) = f[n]
  BY <1>1, NodesSteps
<1>3. \A b \in 0..(n - 1) : t.buckets[b] \in Seq(Node)
  BY <1>1, TableFacts
<1> DEFINE Upto(k) == UNION {Members(t.buckets[b]) : b \in 0..(k - 1)}
           S == {k \in 0..n : /\ Members(f[k]) = Upto(k)
                              /\ Orderly(t) => NoNameTwice(f[k])}
<1>4. 0 \in S
  <2>1. Upto(0) = {}
    OBVIOUS
  <2>2. Members(f[0]) = {} /\ NoNameTwice(f[0])
    BY <1>2 DEF Members, NoNameTwice
  <2>3. 0 \in 0..n
    OBVIOUS
  <2> QED
    BY <2>1, <2>2, <2>3
<1>5. ASSUME NEW k \in 0..n, k \in S, k # n PROVE k + 1 \in S
  <2>1. k + 1 \in 1..n /\ k + 1 \in 0..n /\ (k + 1) - 1 = k /\ k \in 0..(n - 1)
    <3>1. k # n
      BY <1>5
    <3> QED
      BY <3>1
  <2>2. PICK r, s : r = f[k] /\ s = t.buckets[k]
    OBVIOUS
  <2>3. r \in Seq(Node) /\ s \in Seq(Node) /\ f[k + 1] = r \o s
    BY <1>2, <1>3, <2>1, <2>2
  <2>4. Members(r) = Upto(k) /\ (Orderly(t) => NoNameTwice(r))
    BY <1>5, <2>2
  <2>5. Upto(k + 1) = Upto(k) \cup Members(s)
    <3>1. \A b : b \in 0..((k + 1) - 1) <=> b \in 0..(k - 1) \/ b = k
      BY <2>1
    <3> QED
      BY <2>2, <3>1
  <2>6. Members(f[k + 1]) = Upto(k + 1)
    BY <2>3, <2>4, <2>5, JoinFacts
  <2>7. ASSUME Orderly(t) PROVE NoNameTwice(f[k + 1])
    <3>1. NoNameTwice(s) /\ \A y \in Members(s) : Index(t, y.key) = k
      BY <1>1, <2>1, <2>2, <2>7 DEF Orderly
    <3>2. \A x \in Upto(k) : Index(t, x.key) # k
      <4> SUFFICES ASSUME NEW x \in Upto(k) PROVE Index(t, x.key) # k
        OBVIOUS
      <4>1. PICK b \in 0..(k - 1) : x \in Members(t.buckets[b])
        OBVIOUS
      <4>2. b \in 0..(n - 1) /\ b # k
        BY <2>1
      <4> QED
        BY <1>1, <2>7, <4>1, <4>2 DEF Orderly
    <3>3. \A x \in Members(r), y \in Members(s) : x.key # y.key
      BY <2>4, <3>1, <3>2
    <3>4. NoNameTwice(r) /\ NoNameTwice(s)
      BY <2>4, <2>7, <3>1
    <3>5. NoNameTwice(r \o s)
      <4> HIDE DEF S, Upto
      <4> QED
        BY <2>3, <3>3, <3>4, JoinFacts
    <3> QED
      BY <2>3, <3>5
  <2> QED
    BY <2>1, <2>6, <2>7
<1>6. n \in S
  <2> HIDE DEF S
  <2>1. \A k \in 0..n : k \in S
    BY <1>4, <1>5, UpToInduction
  <2>2. n \in 0..n
    OBVIOUS
  <2> QED
    BY <2>1, <2>2
<1>7. Members(f[n]) = Upto(n) /\ (Orderly(t) => NoNameTwice(f[n]))
  BY <1>6
<1>8. n \in 0..n
  OBVIOUS
<1> QED
  BY <1>1, <1>2, <1>7, <1>8 DEF Content

\* When one bucket changes, so many nodes are more or less in the table.
LEMMA NodesChange ==
  ASSUME NEW t, NEW u, IsTable(t), IsTable(u), u.capacity = t.capacity,
         NEW b \in 0..(t.capacity - 1),
         \A o \in 0..(t.capacity - 1) : o # b => u.buckets[o] = t.buckets[o]
  PROVE  /\ Len(Nodes(t)) \in Nat /\ Len(Nodes(u)) \in Nat
         /\ Len(Nodes(u)) - Len(Nodes(t)) = Len(u.buckets[b]) - Len(t.buckets[b])
<1>1. PICK n \in Nat : n = t.capacity
  BY TableFacts
<1>2. PICK f \in [0..n -> Seq(Node)] :
        /\ f[0] = <<>>
        /\ \A k \in 1..n : f[k] = f[k - 1] \o t.buckets[k - 1]
        /\ Nodes(t) = f[n]
  BY <1>1, NodesSteps
<1>3. PICK g \in [0..n -> Seq(Node)] :
        /\ g[0] = <<>>
        /\ \A k \in 1..n : g[k] = g[k - 1] \o u.buckets[k - 1]
        /\ Nodes(u) = g[n]
  <2>1. PICK m : m = u.capacity
    OBVIOUS
  <2>2. PICK g \in [0..m -> Seq(Node)] :
          /\ g[0] = <<>>
          /\ \A k \in 1..m : g[k] = g[k - 1] \o u.buckets[k - 1]
          /\ Nodes(u) = g[m]
    BY <2>1, NodesSteps
  <2>3. m = n
    BY <1>1, <2>1
  <2> QED
    BY <2>2, <2>3
<1>4. \A k \in 0..(n - 1) : /\ t.buckets[k] \in Seq(Node) /\ u.buckets[k] \in Seq(Node)
                            /\ k # b => u.buckets[k] = t.buckets[k]
  BY <1>1, TableFacts
<1>5. PICK d : d = Len(u.buckets[b]) - Len(t.buckets[b])
  OBVIOUS
<1>6. d \in Int /\ b \in 0..(n - 1)
  <2>1. b \in 0..(n - 1)
    BY <1>1
  <2>2. Len(u.buckets[b]) \in Nat /\ Len(t.buckets[b]) \in Nat
    BY <1>4, <2>1
  <2> QED
    BY <1>5, <2>1, <2>2
<1> DEFINE S == {k \in 0..n : Len(g[k]) = Len(f[k]) + (IF b < k THEN d ELSE 0)}
<1>7. 0 \in S
  <2>1. ~(b < 0) /\ Len(g[0]) = 0 /\ Len(f[0]) = 0 /\ 0 \in 0..n
    BY <1>2, <1>3, <1>6
  <2> QED
    BY <2>1
<1>8. ASSUME NEW k \in 0..n, k \in S, k # n PROVE k + 1 \in S
  <2>1. k + 1 \in 1..n /\ k + 1 \in 0..n /\ (k + 1) - 1 = k /\ k \in 0..(n - 1)
    <3>1. k # n
      BY <1>8
    <3> QED
      BY <3>1
  <2>2. f[k + 1] = f[k] \o t.buckets[k] /\ g[k + 1] = g[k] \o u.buckets[k]
    BY <1>2, <1>3, <2>1
  <2>3. /\ f[k] \in Seq(Node) /\ g[k] \in Seq(Node)
        /\ t.buckets[k] \in Seq(Node) /\ u.buckets[k] \in Seq(Node)
    BY <1>2, <1>3, <1>4, <2>1
  <2>4. PICK x, y, p, q : x = Len(f[k]) /\ y = Len(g[k])
                          /\ p = Len(t.buckets[k]) /\ q = Len(u.buckets[k])
    OBVIOUS
  <2>5. x \in Nat /\ y \in Nat /\ p \in Nat /\ q \in Nat
    <3>1. \A chain \in Seq(Node) : Len(chain) \in Nat
      OBVIOUS
    <3>2. Len(f[k]) \in Nat /\ Len(g[k]) \in Nat
      BY <2>3, <3>1
    <3>3. Len(t.buckets[k]) \in Nat /\ Len(u.buckets[k]) \in Nat
      BY <2>3, <3>1
    <3> QED
      BY <2>4, <3>2, <3>3
  <2>6. Len(f[k + 1]) = x + p /\ Len(g[k + 1]) = y + q
    BY <2>2, <2>3, <2>4, JoinFacts
  <2>7. y = x + (IF b < k THEN d ELSE 0)
    BY <1>8, <2>4
  <2>8. CASE k = b
    <3>1. q = p + d
      BY <1>5, <2>4, <2>5, <2>8
    <3>2. ~(b < k) /\ b < k + 1
      BY <1>6, <2>8
    <3>3. y + q = (x + p) + d
      BY <1>6, <2>5, <2>7, <3>1, <3>2
    <3> QED
      BY <2>1, <2>6, <3>2, <3>3
  <2>9. CASE k # b
    <3>1. q = p
      BY <1>4, <2>1, <2>4, <2>9
    <3>2. b < k + 1 <=> b < k
      BY <1>6, <2>1, <2>9
    <3>3. y + q = (x + p) + (IF b < k THEN d ELSE 0)
      BY <1>6, <2>5, <2>7, <3>1
    <3> QED
      BY <2>1, <2>6, <3>2, <3>3
  <2> QED
    BY <2>8, <2>9
<1>9. Len(g[n]) = Len(f[n]) + d
  <2> HIDE DEF S
  <2>1. \A k \in 0..n : k \in S
    BY <1>7, <1>8, UpToInduction
  <2>2. n \in 0..n /\ b < n
    BY <1>6
  <2>3. n \in S
    BY <2>1, <2>2
  <2> QED
    BY <2>2, <2>3 DEF S
<1>10. Len(f[n]) \in Nat /\ Len(g[n]) \in Nat
  <2>1. n \in 0..n
    OBVIOUS
  <2>2. f[n] \in Seq(Node) /\ g[n] \in Seq(Node)
    BY <1>2, <1>3, <2>1
  <2> QED
    BY <2>2
<1> QED
  BY <1>2, <1>3, <1>5, <1>6, <1>9, <1>10

\* A table without nodes.
LEMMA EmptyFacts ==
  ASSUME NEW c \in InitialCapacity..(MaxCapacity - 1), NEW s \in Nat
  PROVE  /\ IsTable(Empty(c, s)) /\ Empty(c, s).capacity = c /\ Empty(c, s).size = s
         /\ Content(Empty(c, s)) = {} /\ Orderly(Empty(c, s))
         /\ Len(Nodes(Empty(c, s))) = 0
<1>1. PICK f : f = [b \in 0..(c - 1) |-> <<>>]
  OBVIOUS
<1>2. PICK t : t = [capacity |-> c, size |-> s, buckets |-> f]
  OBVIOUS
<1>3. t = Empty(c, s) /\ t.capacity = c /\ t.size = s /\ t.buckets = f
  BY <1>1, <1>2 DEF Empty
<1>4. f \in [0..(c - 1) -> Seq(Node)]
  BY <1>1
<1>5. IsTable(t)
  BY <1>2, <1>3, <1>4 DEF IsTable
<1>6. \A b \in 0..(c - 1) : f[b] = <<>> /\ Members(f[b]) = {} /\ NoNameTwice(f[b])
  BY <1>1 DEF Members, NoNameTwice
<1>7. Content(t) = {} /\ Orderly(t)
  BY <1>3, <1>6 DEF Content, Orderly
<1>8. Len(Nodes(t)) = 0
  <2>1. Nodes(t) \in Seq(Node) /\ Members(Nodes(t)) = {}
    BY <1>5, <1>7, NodesFacts
  <2>2. Len(Nodes(t)) \in Nat
    BY <2>1
  <2>3. 1 \notin 1..Len(Nodes(t))
    BY <2>1 DEF Members
  <2> QED
    BY <2>2, <2>3
<1> QED
  BY <1>3, <1>5, <1>7, <1>8

\* A put adds a node at most, in whatever bucket.
LEMMA PutAtNodes ==
  ASSUME NEW t, IsTable(t), NEW b \in 0..(t.capacity - 1), NEW node \in Node
  PROVE  /\ Len(Nodes(t)) \in Nat /\ Len(Nodes(PutAt(t, b, node))) \in Nat
         /\ Len(Nodes(PutAt(t, b, node))) =< Len(Nodes(t)) + 1
<1>1. PICK u : u = PutAt(t, b, node)
  OBVIOUS
<1>2. /\ IsTable(u) /\ u.capacity = t.capacity /\ u.buckets[b] = Link(t.buckets[b], node)
      /\ \A o \in 0..(t.capacity - 1) : o # b => u.buckets[o] = t.buckets[o]
  BY <1>1, PutAtFacts
<1>3. /\ Len(Nodes(t)) \in Nat /\ Len(Nodes(u)) \in Nat
      /\ Len(Nodes(u)) - Len(Nodes(t)) = Len(u.buckets[b]) - Len(t.buckets[b])
  BY <1>2, NodesChange
<1>4. /\ t.buckets[b] \in Seq(Node) /\ Len(t.buckets[b]) \in Nat
      /\ Len(u.buckets[b]) \in Nat /\ Len(u.buckets[b]) =< Len(t.buckets[b]) + 1
  <2>1. t.buckets[b] \in Seq(Node) /\ Len(t.buckets[b]) \in Nat
    BY TableFacts
  <2>2. u.buckets[b] \in Seq(Node) /\ Len(u.buckets[b]) =< Len(t.buckets[b]) + 1
    BY <1>2, <2>1, LinkFacts
  <2> QED
    BY <2>1, <2>2
<1> QED
  BY <1>1, <1>3, <1>4

\* A node is in the chain of its name.
LEMMA ChainFacts ==
  ASSUME NEW t, IsTable(t), Orderly(t), NEW key \in Key
  PROVE  /\ Chain(t, key) \in Seq(Node) /\ NoNameTwice(Chain(t, key))
         /\ Members(Chain(t, key)) \subseteq Content(t)
         /\ \A x \in Content(t) : x.key = key => x \in Members(Chain(t, key))
<1>1. Index(t, key) \in 0..(t.capacity - 1) /\ Chain(t, key) \in Seq(Node)
  BY IndexFacts
<1>2. NoNameTwice(Chain(t, key)) /\ Members(Chain(t, key)) \subseteq Content(t)
  BY <1>1 DEF Chain, Orderly, Content
<1>3. ASSUME NEW x \in Content(t), x.key = key PROVE x \in Members(Chain(t, key))
  <2>1. PICK b \in 0..(t.capacity - 1) : x \in Members(t.buckets[b])
    BY DEF Content
  <2>2. Index(t, key) = b
    BY <1>3, <2>1 DEF Orderly
  <2> QED
    BY <2>1, <2>2 DEF Chain
<1> QED
  BY <1>1, <1>2, <1>3

\* A put that finds its name at the end of a chain, or not at all, replaces what
\* the name had and nothing else.
LEMMA InsertKeepsOrder ==
  ASSUME NEW t, IsTable(t), Orderly(t), NEW node \in Node,
         Place(Chain(t, node.key), node.key) \in {0, Len(Chain(t, node.key))}
  PROVE  /\ Orderly(PutAt(t, Index(t, node.key), node))
         /\ Content(PutAt(t, Index(t, node.key), node)) =
              {x \in Content(t) : x.key # node.key} \cup {node}
<1>1. node.key \in Key
  BY DEF Node
<1>2. PICK b \in 0..(t.capacity - 1) : b = Index(t, node.key)
  BY <1>1, IndexFacts
<1>3. PICK u : u = PutAt(t, b, node)
  OBVIOUS
<1>4. /\ IsTable(u) /\ u.capacity = t.capacity /\ u.buckets[b] = Link(t.buckets[b], node)
      /\ \A o \in 0..(t.capacity - 1) : o # b => u.buckets[o] = t.buckets[o]
  BY <1>3, PutAtFacts
<1>5. /\ NoNameTwice(u.buckets[b])
      /\ Members(u.buckets[b]) = {x \in Members(t.buckets[b]) : x.key # node.key} \cup {node}
  <2>1. t.buckets[b] \in Seq(Node) /\ NoNameTwice(t.buckets[b])
    BY TableFacts DEF Orderly
  <2>2. Place(t.buckets[b], node.key) \in {0, Len(t.buckets[b])}
    BY <1>2 DEF Chain
  <2> QED
    BY <1>4, <2>1, <2>2, LinkFacts
<1>6. \A key : Index(u, key) = Index(t, key)
  BY <1>4, IndexStays
<1>7. Orderly(u)
  <2> SUFFICES ASSUME NEW o \in 0..(t.capacity - 1)
               PROVE  /\ NoNameTwice(u.buckets[o])
                      /\ \A x \in Members(u.buckets[o]) : Index(t, x.key) = o
    BY <1>4, <1>6 DEF Orderly
  <2>1. CASE o = b
    BY <1>2, <1>5, <2>1 DEF Orderly
  <2>2. CASE o # b
    BY <1>4, <2>2 DEF Orderly
  <2> QED
    BY <2>1, <2>2
<1>8. ASSUME NEW x \in Content(u) PROVE x \in {y \in Content(t) : y.key # node.key} \cup {node}
  <2>1. PICK o \in 0..(t.capacity - 1) : x \in Members(u.buckets[o])
    BY <1>4 DEF Content
  <2>2. CASE o = b
    BY <1>5, <2>1, <2>2 DEF Content
  <2>3. CASE o # b
    <3>1. x \in Members(t.buckets[o]) /\ Index(t, x.key) = o
      BY <1>4, <2>1, <2>3 DEF Orderly
    <3>2. x.key # node.key
      BY <1>2, <2>3, <3>1
    <3> QED
      BY <3>1, <3>2 DEF Content
  <2> QED
    BY <2>2, <2>3
<1>9. ASSUME NEW x \in Content(t), x.key # node.key PROVE x \in Content(u)
  <2>1. PICK o \in 0..(t.capacity - 1) : x \in Members(t.buckets[o])
    BY DEF Content
  <2>2. x \in Members(u.buckets[o])
    BY <1>4, <1>5, <1>9, <2>1
  <2> QED
    BY <1>4, <2>2 DEF Content
<1>10. node \in Content(u)
  BY <1>4, <1>5 DEF Content
<1> QED
  BY <1>2, <1>3, <1>7, <1>8, <1>9, <1>10

\* The removal of a name that is there.
LEMMA RemoveKeepsOrder ==
  ASSUME NEW t, IsTable(t), NEW key \in Key, ht_contains(t, key), Len(Nodes(t)) =< t.size
  PROVE  /\ IsTable(ht_remove(t, key))
         /\ ht_remove(t, key).capacity = t.capacity
         /\ ht_remove(t, key).size = t.size - 1 /\ t.size > 0
         /\ Len(Nodes(t)) \in Nat /\ Len(Nodes(ht_remove(t, key))) = Len(Nodes(t)) - 1
         /\ Orderly(t) =>
              /\ Orderly(ht_remove(t, key))
              /\ Content(ht_remove(t, key)) = {x \in Content(t) : x.key # key}
<1>1. PICK b \in 0..(t.capacity - 1) : b = Index(t, key)
  BY IndexFacts
<1>2. PICK at : at = Place(t.buckets[b], key)
  OBVIOUS
<1>3. /\ t.buckets[b] \in Seq(Node) /\ at \in 1..Len(t.buckets[b]) /\ at # 0
      /\ t.buckets[b][at].key = key
  <2>1. t.buckets[b] \in Seq(Node) /\ at # 0
    BY <1>1, <1>2, TableFacts DEF ht_contains, Chain
  <2>2. at \in 0..Len(t.buckets[b]) /\ t.buckets[b][at].key = key
    BY <1>2, <2>1, PlaceFacts
  <2>3. Len(t.buckets[b]) \in Nat
    BY <2>1
  <2> QED
    BY <2>1, <2>2, <2>3
<1>4. Nodes(t) \in Seq(Node) /\ Members(Nodes(t)) = Content(t)
  BY NodesFacts
<1>5. t.size \in Nat /\ t.size > 0 /\ Len(Nodes(t)) \in Nat
  <2>1. t.buckets[b][at] \in Members(Nodes(t))
    <3>1. t.buckets[b][at] \in Members(t.buckets[b])
      BY <1>3 DEF Members
    <3>2. t.buckets[b][at] \in Content(t)
      BY <3>1 DEF Content
    <3> QED
      BY <1>4, <3>2
  <2>2. Len(Nodes(t)) \in Nat /\ t.size \in Nat
    BY <1>4, TableFacts
  <2>3. \E j \in 1..Len(Nodes(t)) : TRUE
    BY <2>1 DEF Members
  <2> QED
    BY <2>2, <2>3
<1>6. PICK u : u = ht_remove(t, key)
  OBVIOUS
<1>7. /\ IsTable(u) /\ u.capacity = t.capacity /\ u.size = t.size - 1
      /\ u.buckets[b] = RemoveAt(t.buckets[b], at)
      /\ \A o \in 0..(t.capacity - 1) : o # b => u.buckets[o] = t.buckets[o]
  BY <1>1, <1>2, <1>3, <1>5, <1>6, ht_removeFacts
<1>8. Len(Nodes(u)) = Len(Nodes(t)) - 1
  <2>1. /\ Len(Nodes(t)) \in Nat /\ Len(Nodes(u)) \in Nat
        /\ Len(Nodes(u)) - Len(Nodes(t)) = Len(u.buckets[b]) - Len(t.buckets[b])
    BY <1>7, NodesChange
  <2>2. Len(t.buckets[b]) \in Nat /\ Len(u.buckets[b]) = Len(t.buckets[b]) - 1
    <3>1. PICK chain : chain = t.buckets[b]
      OBVIOUS
    <3>2. chain \in Seq(Node) /\ at \in 1..Len(chain)
      BY <1>3, <3>1
    <3>3. Len(RemoveAt(chain, at)) = Len(chain) - 1 /\ Len(chain) \in Nat
      BY <3>2, RemoveFacts
    <3> QED
      BY <1>7, <3>1, <3>3
  <2> QED
    BY <2>1, <2>2
<1>9. ASSUME Orderly(t)
      PROVE  Orderly(u) /\ Content(u) = {x \in Content(t) : x.key # key}
  <2>1. /\ NoNameTwice(u.buckets[b])
        /\ Members(u.buckets[b]) = {x \in Members(t.buckets[b]) : x.key # key}
    <3>1. NoNameTwice(t.buckets[b])
      BY <1>9 DEF Orderly
    <3> QED
      BY <1>3, <1>7, <3>1, RemoveFacts
  <2>2. \A k : Index(u, k) = Index(t, k)
    BY <1>7, IndexStays
  <2>3. Orderly(u)
    <3> SUFFICES ASSUME NEW o \in 0..(t.capacity - 1)
                 PROVE  /\ NoNameTwice(u.buckets[o])
                        /\ \A x \in Members(u.buckets[o]) : Index(t, x.key) = o
      BY <1>7, <2>2 DEF Orderly
    <3>1. CASE o = b
      BY <1>9, <2>1, <3>1 DEF Orderly
    <3>2. CASE o # b
      BY <1>7, <1>9, <3>2 DEF Orderly
    <3> QED
      BY <3>1, <3>2
  <2>4. ASSUME NEW x \in Content(u) PROVE x \in Content(t) /\ x.key # key
    <3>1. PICK o \in 0..(t.capacity - 1) : x \in Members(u.buckets[o])
      BY <1>7 DEF Content
    <3>2. CASE o = b
      BY <2>1, <3>1, <3>2 DEF Content
    <3>3. CASE o # b
      <4>1. x \in Members(t.buckets[o]) /\ Index(t, x.key) = o
        BY <1>7, <1>9, <3>1, <3>3 DEF Orderly
      <4> QED
        BY <1>1, <3>3, <4>1 DEF Content
    <3> QED
      BY <3>2, <3>3
  <2>5. ASSUME NEW x \in Content(t), x.key # key PROVE x \in Content(u)
    <3>1. PICK o \in 0..(t.capacity - 1) : x \in Members(t.buckets[o])
      BY DEF Content
    <3>2. x \in Members(u.buckets[o])
      BY <1>7, <2>1, <2>5, <3>1
    <3> QED
      BY <1>7, <3>2 DEF Content
  <2> QED
    BY <2>3, <2>4, <2>5
<1> QED
  BY <1>5, <1>6, <1>7, <1>8, <1>9

\* The tables, as a set.
Tables == UNION {[capacity : {n}, size : Nat, buckets : [0..(n - 1) -> Seq(Node)]] :
                    n \in InitialCapacity..(MaxCapacity - 1)}

\* It has all of them.
LEMMA TablesFacts == \A t : t \in Tables <=> IsTable(t)
<1>1. ASSUME NEW t, t \in Tables PROVE IsTable(t)
  <2>1. PICK n \in InitialCapacity..(MaxCapacity - 1) :
          t \in [capacity : {n}, size : Nat, buckets : [0..(n - 1) -> Seq(Node)]]
    BY <1>1 DEF Tables
  <2>2. t.capacity = n
    BY <2>1
  <2> QED
    BY <2>1, <2>2 DEF IsTable
<1>2. ASSUME NEW t, IsTable(t) PROVE t \in Tables
  <2>1. PICK n : n = t.capacity
    OBVIOUS
  <2>2. /\ n \in InitialCapacity..(MaxCapacity - 1)
        /\ t \in [capacity : {n}, size : Nat, buckets : [0..(n - 1) -> Seq(Node)]]
    BY <1>2, <2>1 DEF IsTable
  <2> QED
    BY <2>2 DEF Tables
<1> QED
  BY <1>1, <1>2

\* A growing table, one node after the other.
LEMMA GrowSteps ==
  ASSUME NEW t, IsTable(t), CanGrow(t), NEW nodes \in Seq(Node), nodes = Nodes(t)
  PROVE  \E f \in [0..Len(nodes) -> Tables] :
           /\ f[0] = Empty(NewCapacity(t), t.size)
           /\ \A k \in 1..Len(nodes) : f[k] = Insert(f[k - 1], nodes[k])
           /\ Grow(t) = f[Len(nodes)]
<1>1. PICK n \in Nat : n = Len(nodes)
  OBVIOUS
<1>2. PICK e : e = Empty(NewCapacity(t), t.size)
  OBVIOUS
<1>3. e \in Tables
  <2>1. NewCapacity(t) \in InitialCapacity..(MaxCapacity - 1) /\ t.size \in Nat
    BY TableFacts, HashTableAssumption DEF NewCapacity, CanGrow
  <2> QED
    BY <1>2, <2>1, EmptyFacts, TablesFacts
<1>4. \A k \in 1..n : nodes[k] \in Node
  BY <1>1
<1>5. \A u \in Tables : \A k \in 1..n : Insert(u, nodes[k]) \in Tables
  <2> SUFFICES ASSUME NEW u \in Tables, NEW k \in 1..n PROVE Insert(u, nodes[k]) \in Tables
    OBVIOUS
  <2>1. IsTable(u) /\ nodes[k] \in Node /\ nodes[k].key \in Key
    BY <1>4, TablesFacts DEF Node
  <2>2. Index(u, nodes[k].key) \in 0..(u.capacity - 1)
    BY <2>1, IndexFacts
  <2>3. IsTable(Insert(u, nodes[k]))
    BY <2>1, <2>2, PutAtFacts DEF Insert
  <2> QED
    BY <2>3, TablesFacts
<1> DEFINE F == [k \in 1..n |-> [u \in Tables |-> Insert(u, nodes[k])]]
<1>6. F \in [1..n -> [Tables -> Tables]]
  BY <1>5
<1>7. \A k \in 1..n : \A u \in Tables : F[k][u] = Insert(u, nodes[k])
  OBVIOUS
<1> HIDE DEF F
<1>8. PICK f : Iterates(f, Tables, e, F, n)
  BY <1>3, <1>6, Iteration
<1>9. /\ f \in [0..n -> Tables] /\ f[0] = e
      /\ \A k \in 1..n : f[k] = F[k][f[k - 1]]
  BY <1>8 DEF Iterates
<1>10. \A k \in 1..n : f[k] = Insert(f[k - 1], nodes[k])
  <2> SUFFICES ASSUME NEW k \in 1..n PROVE f[k] = Insert(f[k - 1], nodes[k])
    OBVIOUS
  <2>1. k - 1 \in 0..n
    OBVIOUS
  <2>2. f[k - 1] \in Tables
    BY <1>9, <2>1
  <2> QED
    BY <1>7, <1>9, <2>2
<1> DEFINE IsGrown(h) ==
      h = [k \in 0..n |-> IF k = 0 THEN e ELSE Insert(h[k - 1], nodes[k])]
<1>11. IsGrown(f)
  <2>1. ASSUME NEW k \in 0..n PROVE f[k] = IF k = 0 THEN e ELSE Insert(f[k - 1], nodes[k])
    <3>1. CASE k = 0
      BY <1>9, <3>1
    <3>2. CASE k # 0
      <4>1. k \in 1..n
        BY <3>2
      <4> QED
        BY <1>10, <3>2, <4>1
    <3> QED
      BY <3>1, <3>2
  <2>2. f = [k \in 0..n |-> f[k]]
    BY <1>9
  <2> QED
    BY <2>1, <2>2
<1>12. PICK g : g = CHOOSE h : IsGrown(h)
  OBVIOUS
<1>13. IsGrown(g)
  BY <1>11, <1>12
<1>14. Grow(t) = g[n]
  BY <1>1, <1>2, <1>12 DEF Grow
<1>15. \A k \in 0..n : g[k] = IF k = 0 THEN e ELSE Insert(g[k - 1], nodes[k])
  BY <1>13
<1> HIDE DEF IsGrown
<1> DEFINE S == {k \in 0..n : g[k] = f[k]}
<1>16. 0 \in S
  <2>1. 0 \in 0..n /\ g[0] = e
    BY <1>15
  <2> QED
    BY <1>9, <2>1
<1>17. ASSUME NEW k \in 0..n, k \in S, k # n PROVE k + 1 \in S
  <2>1. k + 1 \in 1..n /\ k + 1 \in 0..n /\ (k + 1) - 1 = k /\ k + 1 # 0
    <3>1. k # n
      BY <1>17
    <3> QED
      BY <3>1
  <2>2. g[k + 1] = Insert(g[k], nodes[k + 1]) /\ f[k + 1] = Insert(f[k], nodes[k + 1])
    BY <1>10, <1>15, <2>1
  <2> QED
    BY <1>17, <2>1, <2>2
<1>18. n \in 0..n /\ n \in S
  <2> HIDE DEF S
  <2>1. \A k \in 0..n : k \in S
    BY <1>16, <1>17, UpToInduction
  <2>2. n \in 0..n
    OBVIOUS
  <2> QED
    BY <2>1, <2>2
<1>19. Grow(t) = f[n]
  BY <1>14, <1>18
<1> QED
  BY <1>1, <1>2, <1>9, <1>10, <1>19

\* A table that grows keeps its nodes, brings them in order, and counts them a
\* second time.
LEMMA GrowFacts ==
  ASSUME NEW t, IsTable(t), CanGrow(t)
  PROVE  /\ IsTable(Grow(t)) /\ Grow(t).capacity = 2 * t.capacity
         /\ Grow(t).size = t.size + Len(Nodes(t))
         /\ Len(Nodes(t)) \in Nat /\ Len(Nodes(Grow(t))) \in Nat
         /\ Len(Nodes(Grow(t))) =< Len(Nodes(t))
         /\ Orderly(t) => Orderly(Grow(t)) /\ Content(Grow(t)) = Content(t)
<1>1. PICK nodes \in Seq(Node) : nodes = Nodes(t)
  BY NodesFacts
<1>2. PICK n \in Nat : n = Len(nodes)
  OBVIOUS
<1>3. PICK f \in [0..n -> Tables] :
        /\ f[0] = Empty(NewCapacity(t), t.size)
        /\ \A k \in 1..n : f[k] = Insert(f[k - 1], nodes[k])
        /\ Grow(t) = f[n]
  BY <1>1, <1>2, GrowSteps
<1>4. PICK c, s : c = 2 * t.capacity /\ s = t.size
  OBVIOUS
<1>5. c \in InitialCapacity..(MaxCapacity - 1) /\ s \in Nat /\ f[0] = Empty(c, s)
  BY <1>3, <1>4, TableFacts, HashTableAssumption DEF NewCapacity, CanGrow
<1>6. \A k \in 1..n : nodes[k] \in Node /\ nodes[k].key \in Key
  BY <1>2 DEF Node
<1>7. Members(nodes) = Content(t) /\ (Orderly(t) => NoNameTwice(nodes))
  BY <1>1, NodesFacts
<1> DEFINE Upto(k) == {nodes[j] : j \in 1..k}
           S == {k \in 0..n : /\ IsTable(f[k]) /\ f[k].capacity = c /\ f[k].size = s + k
                              /\ Len(Nodes(f[k])) \in Nat /\ Len(Nodes(f[k])) =< k
                              /\ Orderly(t) => Orderly(f[k]) /\ Content(f[k]) = Upto(k)}
<1>8. 0 \in S
  <2>1. /\ IsTable(f[0]) /\ f[0].capacity = c /\ f[0].size = s
        /\ Len(Nodes(f[0])) = 0 /\ Orderly(f[0]) /\ Content(f[0]) = {}
    BY <1>5, EmptyFacts
  <2>2. Upto(0) = {} /\ s = s + 0 /\ 0 \in 0..n
    BY <1>5
  <2> QED
    BY <2>1, <2>2
<1>9. ASSUME NEW k \in 0..n, k \in S, k # n PROVE k + 1 \in S
  <2>1. k + 1 \in 1..n /\ k + 1 \in 0..n /\ (k + 1) - 1 = k
    <3>1. k # n
      BY <1>9
    <3> QED
      BY <3>1
  <2>2. PICK u, node, m : u = f[k] /\ node = nodes[k + 1] /\ m = Len(Nodes(f[k]))
    OBVIOUS
  <2>3. /\ IsTable(u) /\ u.capacity = c /\ u.size = s + k /\ m = Len(Nodes(u))
        /\ m \in Nat /\ m =< k
        /\ Orderly(t) => Orderly(u) /\ Content(u) = Upto(k)
    BY <1>9, <2>2
  <2>4. node \in Node /\ node.key \in Key
    BY <1>6, <2>1, <2>2
  <2>5. PICK v : v = Insert(u, node)
    OBVIOUS
  <2>6. f[k + 1] = v
    BY <1>3, <2>1, <2>2, <2>5
  <2>7. Index(u, node.key) \in 0..(u.capacity - 1)
    BY <2>3, <2>4, IndexFacts
  <2>8. /\ IsTable(v) /\ v.capacity = c /\ v.size = (s + k) + 1
        /\ Len(Nodes(v)) \in Nat /\ Len(Nodes(v)) =< m + 1
    BY <2>3, <2>4, <2>5, <2>7, PutAtFacts, PutAtNodes DEF Insert
  <2>9. v.size = s + (k + 1) /\ Len(Nodes(v)) =< k + 1
    BY <1>5, <2>3, <2>8
  <2>10. ASSUME Orderly(t) PROVE Orderly(v) /\ Content(v) = Upto(k + 1)
    <3>1. \A x \in Content(u) : x.key # node.key
      <4> SUFFICES ASSUME NEW x \in Content(u) PROVE x.key # node.key
        OBVIOUS
      <4>1. PICK j \in 1..k : x = nodes[j]
        BY <2>3, <2>10
      <4>2. j \in 1..n /\ j # k + 1
        BY <2>1
      <4>3. NoNameTwice(nodes)
        BY <1>7, <2>10
      <4> QED
        BY <1>2, <2>1, <2>2, <4>1, <4>2, <4>3 DEF NoNameTwice
    <3>2. Place(Chain(u, node.key), node.key) = 0
      <4>1. /\ Chain(u, node.key) \in Seq(Node)
            /\ Members(Chain(u, node.key)) \subseteq Content(u)
        BY <2>3, <2>4, <2>10, ChainFacts
      <4>2. \A j \in 1..Len(Chain(u, node.key)) : Chain(u, node.key)[j].key # node.key
        BY <3>1, <4>1 DEF Members
      <4> QED
        BY <4>1, <4>2, PlaceFacts
    <3>3. /\ Orderly(v)
          /\ Content(v) = {x \in Content(u) : x.key # node.key} \cup {node}
      BY <2>3, <2>4, <2>5, <2>10, <3>2, InsertKeepsOrder DEF Insert
    <3>4. Content(v) = Upto(k) \cup {node}
      BY <2>3, <2>10, <3>1, <3>3
    <3>5. Upto(k + 1) = Upto(k) \cup {node}
      <4>1. \A j : j \in 1..(k + 1) <=> j \in 1..k \/ j = k + 1
        OBVIOUS
      <4> QED
        BY <2>2, <4>1
    <3> QED
      BY <3>3, <3>4, <3>5
  <2> QED
    BY <2>1, <2>6, <2>8, <2>9, <2>10
<1>10. n \in 0..n /\ n \in S
  <2> HIDE DEF S
  <2>1. \A k \in 0..n : k \in S
    BY <1>8, <1>9, UpToInduction
  <2>2. n \in 0..n
    OBVIOUS
  <2> QED
    BY <2>1, <2>2
<1>11. PICK v : v = Grow(t)
  OBVIOUS
<1>12. /\ IsTable(v) /\ v.capacity = c /\ v.size = s + n
       /\ Len(Nodes(v)) \in Nat /\ Len(Nodes(v)) =< n
       /\ Orderly(t) => Orderly(v) /\ Content(v) = Upto(n)
  BY <1>3, <1>10, <1>11
<1>13. Upto(n) = Content(t)
  BY <1>2, <1>7 DEF Members
<1> QED
  BY <1>1, <1>2, <1>4, <1>11, <1>12, <1>13

-----------------------------------------------------------------------------
(* ht_put and fork_exported. *)

\* The new table.
LEMMA ht_newFacts ==
  /\ IsTable(ht_new) /\ Sound(ht_new) /\ Orderly(ht_new) /\ Content(ht_new) = {}
<1>1. InitialCapacity \in InitialCapacity..(MaxCapacity - 1) /\ 0 \in Nat
  BY HashTableAssumption
<1>2. PICK t : t = ht_new
  OBVIOUS
<1>3. /\ IsTable(t) /\ t.capacity = InitialCapacity /\ t.size = 0
      /\ Content(t) = {} /\ Orderly(t) /\ Len(Nodes(t)) = 0
  BY <1>1, <1>2, EmptyFacts DEF ht_new
<1>4. Sound(t)
  BY <1>3, HashTableAssumption DEF Sound, IsFull
<1> QED
  BY <1>2, <1>3, <1>4

\* A put into a table that is not full keeps the size sound: when it makes the
\* table full, a resize has room for all its nodes.
LEMMA RoomToPut ==
  ASSUME NEW c \in Nat, NEW s \in Nat, NEW n \in Nat, NEW m \in Nat,
         c % 4 = 0, n =< s, m =< n + 1, ~(4 * s >= 3 * c)
  PROVE  4 * s =< 3 * c /\ 4 * ((s + 1) + m - 1) < 3 * (2 * c)
<1>1. PICK q \in Nat : c = 4 * q
  <2>1. c = 4 * (c \div 4) /\ c \div 4 \in Nat
    OBVIOUS
  <2> QED
    BY <2>1
<1>2. s =< 3 * q - 1
  BY <1>1
<1>3. m =< s + 1
  OBVIOUS
<1>4. 4 * ((s + 1) + m - 1) =< 24 * q - 4
  BY <1>1, <1>2, <1>3
<1> QED
  BY <1>1, <1>2, <1>4

\* So does a put into a table that has grown for it.
LEMMA RoomAfterGrowth ==
  ASSUME NEW c \in Nat, NEW s \in Nat, NEW n \in Nat, NEW m \in Nat,
         c % 4 = 0, c >= 4, n =< s, m =< n + 1, 4 * (s - 1) =< 3 * c,
         4 * (s + n - 1) < 3 * (2 * c)
  PROVE  4 * (s + n) =< 3 * (2 * c) /\ 4 * ((s + n + 1) + m - 1) < 3 * (2 * (2 * c))
<1>1. PICK q \in Nat : c = 4 * q
  <2>1. c = 4 * (c \div 4) /\ c \div 4 \in Nat
    OBVIOUS
  <2> QED
    BY <2>1
<1>2. q >= 1 /\ s + n - 1 < 6 * q /\ s - 1 =< 3 * q
  BY <1>1
<1>3. s + n =< 6 * q /\ n =< 3 * q + 1
  BY <1>2
<1>4. (s + n + 1) + m - 1 =< 9 * q + 2
  BY <1>3
<1>5. 4 * ((s + n + 1) + m - 1) < 48 * q
  BY <1>2, <1>4
<1> QED
  BY <1>1, <1>3, <1>5

\* ht_put keeps the size sound; and unless it damages the table, it replaces
\* what the name had and nothing else.
LEMMA ht_putFacts ==
  ASSUME NEW t, IsTable(t), Sound(t), NEW node \in Node
  PROVE  /\ IsTable(ht_put(t, node)) /\ Sound(ht_put(t, node))
         /\ Orderly(t) /\ ~Damages(t, node.key) =>
              /\ Orderly(ht_put(t, node))
              /\ Content(ht_put(t, node)) = {x \in Content(t) : x.key # node.key} \cup {node}
<1>1. node.key \in Key
  BY DEF Node
<1>2. PICK b \in 0..(t.capacity - 1) : b = Index(t, node.key)
  BY <1>1, IndexFacts
<1>3. PICK c, s, n : c = t.capacity /\ s = t.size /\ n = Len(Nodes(t))
  OBVIOUS
<1>4. /\ c \in Nat /\ c >= 4 /\ s \in Nat /\ n \in Nat /\ n =< s /\ c % 4 = 0
      /\ 4 * (s - 1) =< 3 * c
  <2>1. Nodes(t) \in Seq(Node)
    BY NodesFacts
  <2>2. n \in Nat
    BY <1>3, <2>1
  <2> QED
    BY <1>3, <2>2, TableFacts DEF Sound
<1>5. PICK u : u = ht_put(t, node)
  OBVIOUS
<1>6. CASE ~IsFull(t)
  <2>1. u = PutAt(t, b, node)
    BY <1>2, <1>5, <1>6 DEF ht_put, Insert
  <2>2. PICK m : m = Len(Nodes(u))
    OBVIOUS
  <2>3. /\ IsTable(u) /\ u.capacity = c /\ u.size = s + 1 /\ m \in Nat /\ m =< n + 1
    BY <1>3, <2>1, <2>2, PutAtFacts, PutAtNodes
  <2>4. 4 * s =< 3 * c /\ 4 * ((s + 1) + m - 1) < 3 * (2 * c)
    BY <1>3, <1>4, <1>6, <2>3, RoomToPut DEF IsFull
  <2>5. m =< s + 1 /\ (s + 1) - 1 = s
    BY <1>4, <2>3
  <2>6. Sound(u)
    BY <1>4, <2>2, <2>3, <2>4, <2>5 DEF Sound, NewCapacity
  <2>7. Orderly(t) /\ ~Damages(t, node.key) =>
          /\ Orderly(u)
          /\ Content(u) = {x \in Content(t) : x.key # node.key} \cup {node}
    BY <1>2, <1>6, <2>1, InsertKeepsOrder DEF Damages
  <2> QED
    BY <1>5, <2>3, <2>6, <2>7
<1>7. CASE IsFull(t) /\ CanGrow(t)
  <2>1. PICK g : g = Grow(t)
    OBVIOUS
  <2>2. PICK l : l = Len(Nodes(g))
    OBVIOUS
  <2>3. /\ IsTable(g) /\ g.capacity = 2 * c /\ g.size = s + n /\ l \in Nat /\ l =< n
        /\ Orderly(t) => Orderly(g) /\ Content(g) = Content(t)
    BY <1>3, <1>7, <2>1, <2>2, GrowFacts
  <2>4. b \in 0..(g.capacity - 1)
    BY <1>3, <1>4, <2>3
  <2>5. u = PutAt(g, b, node)
    BY <1>2, <1>5, <1>7, <2>1 DEF ht_put
  <2>6. PICK m : m = Len(Nodes(u))
    OBVIOUS
  <2>7. /\ IsTable(u) /\ u.capacity = 2 * c /\ u.size = (s + n) + 1 /\ m \in Nat /\ m =< l + 1
    BY <2>2, <2>3, <2>4, <2>5, <2>6, PutAtFacts, PutAtNodes
  <2>8. m =< n + 1 /\ 4 * (s + n - 1) < 3 * (2 * c)
    BY <1>3, <1>4, <1>7, <2>3, <2>7 DEF Sound, NewCapacity
  <2>9. 4 * (s + n) =< 3 * (2 * c) /\ 4 * ((s + n + 1) + m - 1) < 3 * (2 * (2 * c))
    BY <1>4, <2>7, <2>8, RoomAfterGrowth
  <2>10. m =< s + n + 1 /\ (s + n + 1) - 1 = s + n /\ (2 * c) % 4 = 0
    BY <1>4, <2>7, <2>8
  <2>11. Sound(u)
    BY <1>4, <2>6, <2>7, <2>9, <2>10 DEF Sound, NewCapacity
  <2>12. ASSUME Orderly(t), ~Damages(t, node.key)
         PROVE  /\ Orderly(u)
                /\ Content(u) = {x \in Content(t) : x.key # node.key} \cup {node}
    <3>1. /\ b = Index(g, node.key)
          /\ Place(Chain(g, node.key), node.key) \in {0, Len(Chain(g, node.key))}
      BY <1>2, <1>7, <2>1, <2>12 DEF Damages
    <3> QED
      BY <2>3, <2>5, <2>12, <3>1, InsertKeepsOrder
  <2> QED
    BY <1>5, <2>7, <2>11, <2>12
<1>8. CASE IsFull(t) /\ ~CanGrow(t)
  BY <1>5, <1>8 DEF ht_put, Damages
<1> QED
  BY <1>6, <1>7, <1>8

\* What fork_exported makes of the nodes up to k, when moved is its table.
IsMoved(h, nodes) ==
    h = [k \in 0..Len(nodes) |->
            IF k = 0 THEN ht_new
            ELSE IF nodes[k].exported THEN ht_put(h[k - 1], nodes[k])
            ELSE h[k - 1]]

\* These tables, one node after the other.
LEMMA MoveSteps ==
  ASSUME NEW nodes \in Seq(Node), NEW g, g = CHOOSE h : IsMoved(h, nodes)
  PROVE  /\ \A k \in 0..Len(nodes) : IsTable(g[k]) /\ Sound(g[k])
         /\ g[0] = ht_new
         /\ \A k \in 1..Len(nodes) :
              g[k] = IF nodes[k].exported THEN ht_put(g[k - 1], nodes[k]) ELSE g[k - 1]
<1>1. PICK n \in Nat : n = Len(nodes)
  OBVIOUS
<1> DEFINE T == {u \in Tables : Sound(u)}
           Step(u, k) == IF nodes[k].exported THEN ht_put(u, nodes[k]) ELSE u
<1>2. ht_new \in T
  BY ht_newFacts, TablesFacts
<1>3. \A u \in T : \A k \in 1..n : Step(u, k) \in T
  <2> SUFFICES ASSUME NEW u \in T, NEW k \in 1..n PROVE Step(u, k) \in T
    OBVIOUS
  <2>1. IsTable(u) /\ Sound(u) /\ nodes[k] \in Node
    BY <1>1, TablesFacts
  <2>2. IsTable(ht_put(u, nodes[k])) /\ Sound(ht_put(u, nodes[k]))
    BY <2>1, ht_putFacts
  <2> QED
    BY <2>2, TablesFacts
<1>4. \A u \in T : IsTable(u) /\ Sound(u)
  BY TablesFacts
<1> HIDE DEF T, Step
<1> DEFINE F == [k \in 1..n |-> [u \in T |-> Step(u, k)]]
<1>5. F \in [1..n -> [T -> T]]
  BY <1>3
<1>6. \A k \in 1..n : \A u \in T : F[k][u] = Step(u, k)
  OBVIOUS
<1> HIDE DEF F
<1>7. PICK f : Iterates(f, T, ht_new, F, n)
  BY <1>2, <1>5, Iteration
<1>8. /\ f \in [0..n -> T] /\ f[0] = ht_new
      /\ \A k \in 1..n : f[k] = F[k][f[k - 1]]
  BY <1>7 DEF Iterates
<1>9. \A k \in 1..n : f[k] = Step(f[k - 1], k)
  <2> SUFFICES ASSUME NEW k \in 1..n PROVE f[k] = Step(f[k - 1], k)
    OBVIOUS
  <2>1. k - 1 \in 0..n
    OBVIOUS
  <2>2. f[k - 1] \in T
    BY <1>8, <2>1
  <2> QED
    BY <1>6, <1>8, <2>2
<1>10. IsMoved(f, nodes)
  <2>1. ASSUME NEW k \in 0..n
        PROVE  f[k] = IF k = 0 THEN ht_new
                      ELSE IF nodes[k].exported THEN ht_put(f[k - 1], nodes[k]) ELSE f[k - 1]
    <3>1. CASE k = 0
      BY <1>8, <3>1
    <3>2. CASE k # 0
      <4>1. k \in 1..n
        BY <3>2
      <4> QED
        BY <1>9, <3>2, <4>1 DEF Step
    <3> QED
      BY <3>1, <3>2
  <2>2. f = [k \in 0..n |-> f[k]]
    BY <1>8
  <2> QED
    BY <1>1, <2>1, <2>2 DEF IsMoved
<1>11. IsMoved(g, nodes)
  BY <1>10
<1>12. \A k \in 0..n :
         g[k] = IF k = 0 THEN ht_new
                ELSE IF nodes[k].exported THEN ht_put(g[k - 1], nodes[k]) ELSE g[k - 1]
  BY <1>1, <1>11 DEF IsMoved
<1>13. g[0] = ht_new
  <2>1. 0 \in 0..n
    OBVIOUS
  <2> QED
    BY <1>12, <2>1
<1>14. \A k \in 1..n : g[k] = Step(g[k - 1], k)
  <2> SUFFICES ASSUME NEW k \in 1..n PROVE g[k] = Step(g[k - 1], k)
    OBVIOUS
  <2>1. k \in 0..n /\ k # 0
    OBVIOUS
  <2> QED
    BY <1>12, <2>1 DEF Step
<1> DEFINE S == {k \in 0..n : g[k] \in T}
<1>15. 0 \in S
  <2>1. 0 \in 0..n
    OBVIOUS
  <2> QED
    BY <1>2, <1>13, <2>1
<1>16. ASSUME NEW k \in 0..n, k \in S, k # n PROVE k + 1 \in S
  <2>1. k + 1 \in 1..n /\ k + 1 \in 0..n /\ (k + 1) - 1 = k
    <3>1. k # n
      BY <1>16
    <3> QED
      BY <3>1
  <2>2. g[k + 1] = Step(g[k], k + 1)
    BY <1>14, <2>1
  <2> QED
    BY <1>3, <1>16, <2>1, <2>2
<1>17. \A k \in 0..n : g[k] \in T
  <2> HIDE DEF S
  <2>1. \A k \in 0..n : k \in S
    BY <1>15, <1>16, UpToInduction
  <2> QED
    BY <2>1 DEF S
<1> QED
  BY <1>1, <1>4, <1>13, <1>14, <1>17 DEF Step

\* If none of the moves damages the new table, it has the exported nodes.
LEMMA MoveFacts ==
  ASSUME NEW nodes \in Seq(Node), NEW g, g = CHOOSE h : IsMoved(h, nodes),
         NoNameTwice(nodes),
         \A k \in 1..Len(nodes) : nodes[k].exported => ~Damages(g[k - 1], nodes[k].key)
  PROVE  /\ Orderly(g[Len(nodes)])
         /\ Content(g[Len(nodes)]) = {x \in Members(nodes) : x.exported}
<1>1. PICK n \in Nat : n = Len(nodes)
  OBVIOUS
<1>2. /\ \A k \in 0..n : IsTable(g[k]) /\ Sound(g[k])
      /\ g[0] = ht_new
      /\ \A k \in 1..n :
           g[k] = IF nodes[k].exported THEN ht_put(g[k - 1], nodes[k]) ELSE g[k - 1]
  BY <1>1, MoveSteps
<1> DEFINE Upto(k) == {nodes[j] : j \in {l \in 1..k : nodes[l].exported}}
           S == {k \in 0..n : Orderly(g[k]) /\ Content(g[k]) = Upto(k)}
<1>3. 0 \in S
  <2>1. Upto(0) = {} /\ 0 \in 0..n
    OBVIOUS
  <2> QED
    BY <1>2, <2>1, ht_newFacts
<1>4. ASSUME NEW k \in 0..n, k \in S, k # n PROVE k + 1 \in S
  <2>1. k + 1 \in 1..n /\ k + 1 \in 0..n /\ (k + 1) - 1 = k
    <3>1. k # n
      BY <1>4
    <3> QED
      BY <3>1
  <2>2. PICK u, node : u = g[k] /\ node = nodes[k + 1]
    OBVIOUS
  <2>3. IsTable(u) /\ Sound(u) /\ Orderly(u) /\ Content(u) = Upto(k) /\ node \in Node
    <3>1. IsTable(u) /\ Sound(u)
      BY <1>2, <2>2
    <3>2. Orderly(u) /\ Content(u) = Upto(k)
      BY <1>4, <2>2
    <3>3. node \in Node
      BY <1>1, <2>1, <2>2
    <3> QED
      BY <3>1, <3>2, <3>3
  <2>4. \A j : j \in 1..(k + 1) <=> j \in 1..k \/ j = k + 1
    OBVIOUS
  <2>5. CASE ~node.exported
    <3>1. g[k + 1] = u
      BY <1>2, <2>1, <2>2, <2>5
    <3>2. Upto(k + 1) = Upto(k)
      BY <2>2, <2>4, <2>5
    <3> QED
      BY <2>1, <2>3, <3>1, <3>2
  <2>6. CASE node.exported
    <3>1. g[k + 1] = ht_put(u, node) /\ ~Damages(u, node.key)
      BY <1>1, <1>2, <2>1, <2>2, <2>6
    <3>2. /\ Orderly(g[k + 1])
          /\ Content(g[k + 1]) = {x \in Content(u) : x.key # node.key} \cup {node}
      BY <2>3, <3>1, ht_putFacts
    <3>3. \A x \in Content(u) : x.key # node.key
      <4> SUFFICES ASSUME NEW x \in Content(u) PROVE x.key # node.key
        OBVIOUS
      <4>1. PICK j \in 1..k : x = nodes[j]
        BY <2>3
      <4>2. j \in 1..n /\ j # k + 1
        BY <2>1
      <4> QED
        BY <1>1, <2>1, <2>2, <4>1, <4>2 DEF NoNameTwice
    <3>4. Upto(k + 1) = Upto(k) \cup {node}
      BY <2>2, <2>4, <2>6
    <3> QED
      BY <2>1, <2>3, <3>2, <3>3, <3>4
  <2> QED
    BY <2>5, <2>6
<1>5. n \in 0..n /\ n \in S
  <2> HIDE DEF S
  <2>1. \A k \in 0..n : k \in S
    BY <1>3, <1>4, UpToInduction
  <2>2. n \in 0..n
    OBVIOUS
  <2> QED
    BY <2>1, <2>2
<1>6. Upto(n) = {x \in Members(nodes) : x.exported}
  BY <1>1 DEF Members
<1> QED
  BY <1>1, <1>5, <1>6

-----------------------------------------------------------------------------
(* The calls. *)

\* What a lookup finds in an orderly table.
LEMMA LookupFacts ==
  ASSUME NEW t, IsTable(t), Orderly(t), NEW key \in Key
  PROVE  /\ ht_contains(t, key) => ht_get(t, key) \in Content(t) /\ ht_get(t, key).key = key
         /\ ~ht_contains(t, key) => \A x \in Content(t) : x.key # key
<1>1. PICK chain : chain = Chain(t, key)
  OBVIOUS
<1>2. /\ chain \in Seq(Node) /\ Members(chain) \subseteq Content(t)
      /\ \A x \in Content(t) : x.key = key => x \in Members(chain)
  BY <1>1, ChainFacts
<1>3. PICK at : at = Place(chain, key)
  OBVIOUS
<1>4. /\ at \in 0..Len(chain) /\ Len(chain) \in Nat
      /\ at = 0 <=> \A j \in 1..Len(chain) : chain[j].key # key
      /\ at # 0 => chain[at].key = key
  BY <1>2, <1>3, PlaceFacts
<1>5. ASSUME at # 0 PROVE chain[at] \in Content(t) /\ chain[at].key = key
  <2>1. at \in 1..Len(chain)
    BY <1>4, <1>5
  <2> QED
    BY <1>2, <1>4, <1>5, <2>1 DEF Members
<1>6. ASSUME at = 0 PROVE \A x \in Content(t) : x.key # key
  BY <1>2, <1>4, <1>6 DEF Members
<1> QED
  BY <1>1, <1>3, <1>5, <1>6 DEF ht_contains, ht_get

\* The table is the map, if it is in order.
LEMMA LooksUp ==
  ASSUME NEW t, IsTable(t), Orderly(t), NEW map, Holds(t, map), NEW name \in Key
  PROVE  (IF ht_contains(t, name) THEN Entry(ht_get(t, name)) ELSE None) = map[name]
<1>1. CASE ht_contains(t, name)
  BY <1>1, LookupFacts DEF Holds
<1>2. CASE ~ht_contains(t, name)
  BY <1>2, LookupFacts DEF Holds
<1> QED
  BY <1>1, <1>2

\* What the invariant says of a table, a map and a flag.
Fits(t, map) ==
    /\ IsTable(t) /\ Sound(t)
    /\ map \in [Key -> [value : Value \cup {None.value}, exported : BOOLEAN]]

Agrees(t, map) == Orderly(t) /\ Holds(t, map)

Right(t, map, d) == Fits(t, map) /\ d \in BOOLEAN /\ (~d => Agrees(t, map))

\* The invariant is that and the types of the rest.
LEMMA RightMeans ==
  IInv <=> /\ Right(table, current, damaged)
           /\ environ \in Seq(Key \X Value) /\ calls \in 0..MaxCalls
BY DEF IInv, Right, Fits, Agrees, TypeOK

\* It is so after a step.
LEMMA NextRightMeans ==
  (IInv <=> /\ Right(table, current, damaged)
            /\ environ \in Seq(Key \X Value) /\ calls \in 0..MaxCalls)'
BY RightMeans, PTL

\* Every put keeps it.
LEMMA PutRight ==
  ASSUME NEW t, NEW map, Fits(t, map), NEW node \in Node
  PROVE  /\ Fits(ht_put(t, node), [map EXCEPT ![node.key] = Entry(node)])
         /\ Agrees(t, map) /\ ~Damages(t, node.key)
               => Agrees(ht_put(t, node), [map EXCEPT ![node.key] = Entry(node)])
<1>1. PICK u : u = ht_put(t, node)
  OBVIOUS
<1>2. /\ IsTable(u) /\ Sound(u)
      /\ Orderly(t) /\ ~Damages(t, node.key) =>
           /\ Orderly(u) /\ Content(u) = {x \in Content(t) : x.key # node.key} \cup {node}
  BY <1>1, ht_putFacts DEF Fits
<1>3. PICK new : new = [map EXCEPT ![node.key] = Entry(node)]
  OBVIOUS
<1>4. /\ node.key \in Key
      /\ Entry(node) \in [value : Value \cup {None.value}, exported : BOOLEAN]
  BY DEF Node, Entry
<1>5. /\ map \in [Key -> [value : Value \cup {None.value}, exported : BOOLEAN]]
      /\ IsTable(t)
  BY DEF Fits
<1>6. /\ new \in [Key -> [value : Value \cup {None.value}, exported : BOOLEAN]]
      /\ new[node.key] = Entry(node)
      /\ \A name \in Key : name # node.key => new[name] = map[name]
  BY <1>3, <1>4, <1>5
<1>7. ASSUME Orderly(t), Holds(t, map), ~Damages(t, node.key)
      PROVE  Orderly(u) /\ Holds(u, new)
  <2>1. Orderly(u) /\ Content(u) = {x \in Content(t) : x.key # node.key} \cup {node}
    BY <1>2, <1>5, <1>7
  <2>2. \A x \in Content(t) : x.key \in Key
    <3>1. Nodes(t) \in Seq(Node) /\ Members(Nodes(t)) = Content(t)
      BY <1>5, NodesFacts
    <3>2. \A x \in Members(Nodes(t)) : x \in Node
      BY <3>1 DEF Members
    <3> QED
      BY <3>1, <3>2 DEF Node
  <2>3. \A x \in Content(u) : Entry(x) = new[x.key]
    BY <1>5, <1>6, <1>7, <2>1, <2>2 DEF Holds
  <2>4. ASSUME NEW name \in Key, \A x \in Content(u) : x.key # name PROVE new[name] = None
    <3>1. name # node.key /\ \A x \in Content(t) : x.key # name
      BY <2>1, <2>4
    <3> QED
      BY <1>5, <1>6, <1>7, <3>1 DEF Holds
  <2> QED
    BY <2>1, <2>3, <2>4 DEF Holds
<1>8. Fits(u, new)
  BY <1>2, <1>6 DEF Fits
<1>9. Agrees(t, map) /\ ~Damages(t, node.key) => Agrees(u, new)
  BY <1>7 DEF Agrees
<1> QED
  BY <1>1, <1>3, <1>8, <1>9

\* A put of one of the calls.
LEMMA PutKeeps ==
  ASSUME IInv, NEW name \in Key, NEW value \in Value, NEW exported \in BOOLEAN,
         Put(name, value, exported), environ' \in Seq(Key \X Value)
  PROVE  IInv'
<1>1. PICK node : node = [key |-> name, value |-> value, exported |-> exported]
  OBVIOUS
<1>2. node \in Node /\ node.key = name
  BY <1>1 DEF Node
<1>3. /\ calls < MaxCalls /\ calls' = calls + 1 /\ table' = ht_put(table, node)
      /\ current' = [current EXCEPT ![name] = Entry(node)]
      /\ damaged' = (damaged \/ Damages(table, name))
  BY <1>1 DEF Put
<1>4. PICK t, map, d : t = table /\ map = current /\ d = damaged
  OBVIOUS
<1>5. Right(t, map, d) /\ calls \in 0..MaxCalls
  BY <1>4, RightMeans
<1>6. /\ Fits(ht_put(t, node), [map EXCEPT ![node.key] = Entry(node)])
      /\ Agrees(t, map) /\ ~Damages(t, node.key)
            => Agrees(ht_put(t, node), [map EXCEPT ![node.key] = Entry(node)])
  <2>1. Fits(t, map)
    BY <1>5 DEF Right
  <2> QED
    BY <1>2, <2>1, PutRight
<1>7. Right(table', current', damaged')
  BY <1>2, <1>3, <1>4, <1>5, <1>6 DEF Right
<1>8. calls' \in 0..MaxCalls
  BY <1>3, <1>5, VarsAssumption
<1> QED
  BY <1>7, <1>8, NextRightMeans

\* The environment is read.
LEMMA ReadEnvironKeeps ==
  ASSUME IInv, ReadEnviron
  PROVE  IInv'
<1>1. /\ environ \in Seq(Key \X Value) /\ environ # <<>> /\ environ' = Tail(environ)
      /\ Put(Head(environ)[1], Head(environ)[2], TRUE)
  BY RightMeans DEF ReadEnviron
<1>2. Head(environ) \in Key \X Value /\ environ' \in Seq(Key \X Value)
  BY <1>1
<1>3. PICK name \in Key, value \in Value : name = Head(environ)[1] /\ value = Head(environ)[2]
  BY <1>2
<1> QED
  BY <1>1, <1>2, <1>3, PutKeeps

\* A variable is assigned, or exported.
LEMMA AssignKeeps ==
  ASSUME IInv, NEW name \in Key, NEW value \in Value,
         var_assign(name, value) \/ var_export(name, value)
  PROVE  IInv'
<1>1. environ' \in Seq(Key \X Value)
  BY RightMeans DEF var_assign, var_export
<1>2. Put(name, value, FALSE) \/ Put(name, value, TRUE)
  BY DEF var_assign, var_export
<1> QED
  BY <1>1, <1>2, PutKeeps

\* A variable is removed.
LEMMA var_unassignKeeps ==
  ASSUME IInv, NEW name \in Key, var_unassign(name)
  PROVE  IInv'
<1>1. /\ table' = IF ht_contains(table, name) THEN ht_remove(table, name) ELSE table
      /\ current' = [current EXCEPT ![name] = None]
      /\ environ' = environ /\ calls' = calls /\ damaged' = damaged
  BY DEF var_unassign
<1>2. PICK t, map, d : t = table /\ map = current /\ d = damaged
  OBVIOUS
<1>3. Right(t, map, d)
  BY <1>2, RightMeans
<1>4. PICK u, new : u = (IF ht_contains(t, name) THEN ht_remove(t, name) ELSE t)
                    /\ new = [map EXCEPT ![name] = None]
  OBVIOUS
<1>5. /\ IsTable(t) /\ Sound(t) /\ d \in BOOLEAN /\ (~d => Orderly(t) /\ Holds(t, map))
      /\ map \in [Key -> [value : Value \cup {None.value}, exported : BOOLEAN]]
  BY <1>3 DEF Right, Fits, Agrees
<1>6. /\ new \in [Key -> [value : Value \cup {None.value}, exported : BOOLEAN]]
      /\ new[name] = None
      /\ \A other \in Key : other # name => new[other] = map[other]
  <2>1. None \in [value : Value \cup {None.value}, exported : BOOLEAN]
    BY DEF None
  <2> QED
    BY <1>4, <1>5, <2>1
<1>7. CASE ht_contains(t, name)
  <2>1. /\ IsTable(u) /\ u.capacity = t.capacity /\ u.size = t.size - 1 /\ t.size > 0
        /\ Len(Nodes(t)) \in Nat /\ Len(Nodes(u)) = Len(Nodes(t)) - 1
        /\ Orderly(t) => Orderly(u) /\ Content(u) = {x \in Content(t) : x.key # name}
    BY <1>4, <1>5, <1>7, RemoveKeepsOrder DEF Sound
  <2>2. Sound(u)
    <3>1. PICK c, s, n : c = t.capacity /\ s = t.size /\ n = Len(Nodes(t))
      OBVIOUS
    <3>2. /\ c \in Nat /\ s \in Nat /\ n \in Nat /\ n =< s /\ 4 * (s - 1) =< 3 * c /\ c % 4 = 0
          /\ 4 * s >= 3 * c /\ 2 * c < MaxCapacity => 4 * (s + n - 1) < 3 * (2 * c)
      BY <1>5, <2>1, <3>1, TableFacts DEF Sound, IsFull, CanGrow, NewCapacity
    <3>3. u.capacity = c /\ u.size = s - 1 /\ Len(Nodes(u)) = n - 1
      BY <2>1, <3>1
    <3>4. n - 1 =< s - 1 /\ 4 * ((s - 1) - 1) =< 3 * c
      BY <3>2
    <3>5. 4 * (s - 1) >= 3 * c => 4 * s >= 3 * c
      BY <3>2
    <3>6. 4 * (s + n - 1) < 3 * (2 * c) => 4 * ((s - 1) + (n - 1) - 1) < 3 * (2 * c)
      BY <3>2
    <3> QED
      BY <3>2, <3>3, <3>4, <3>5, <3>6 DEF Sound, IsFull, CanGrow, NewCapacity
  <2>3. ASSUME ~d PROVE Orderly(u) /\ Holds(u, new)
    <3>1. /\ Orderly(u) /\ Content(u) = {x \in Content(t) : x.key # name} /\ Holds(t, map)
      BY <1>5, <2>1, <2>3
    <3>2. \A x \in Content(t) : x.key \in Key
      <4>1. Nodes(t) \in Seq(Node) /\ Members(Nodes(t)) = Content(t)
        BY <1>5, NodesFacts
      <4>2. \A x \in Members(Nodes(t)) : x \in Node
        BY <4>1 DEF Members
      <4> QED
        BY <4>1, <4>2 DEF Node
    <3>3. \A x \in Content(u) : Entry(x) = new[x.key]
      BY <1>6, <3>1, <3>2 DEF Holds
    <3>4. ASSUME NEW other \in Key, \A x \in Content(u) : x.key # other
          PROVE  new[other] = None
      BY <1>6, <3>1, <3>4 DEF Holds
    <3> QED
      BY <3>1, <3>3, <3>4 DEF Holds
  <2> QED
    BY <1>1, <1>2, <1>4, <1>5, <1>6, <2>1, <2>2, <2>3, RightMeans, NextRightMeans DEF Right, Fits, Agrees
<1>8. CASE ~ht_contains(t, name)
  <2>1. u = t
    BY <1>4, <1>8
  <2>2. ASSUME ~d PROVE Orderly(u) /\ Holds(u, new)
    <3>1. Orderly(t) /\ Holds(t, map) /\ \A x \in Content(t) : x.key # name
      BY <1>5, <1>8, <2>2, LookupFacts
    <3>2. \A x \in Content(t) : x.key \in Key
      <4>1. Nodes(t) \in Seq(Node) /\ Members(Nodes(t)) = Content(t)
        BY <1>5, NodesFacts
      <4>2. \A x \in Members(Nodes(t)) : x \in Node
        BY <4>1 DEF Members
      <4> QED
        BY <4>1, <4>2 DEF Node
    <3> QED
      BY <1>6, <2>1, <3>1, <3>2 DEF Holds
  <2> QED
    BY <1>1, <1>2, <1>4, <1>5, <1>6, <2>1, <2>2, RightMeans, NextRightMeans DEF Right, Fits, Agrees
<1> QED
  BY <1>7, <1>8

\* The exported variables are moved.
LEMMA fork_exportedKeeps ==
  ASSUME IInv, fork_exported
  PROVE  IInv'
<1>1. PICK t, map, d : t = table /\ map = current /\ d = damaged
  OBVIOUS
<1>2. Right(t, map, d) /\ environ \in Seq(Key \X Value) /\ calls \in 0..MaxCalls
  BY <1>1, RightMeans
<1>3. PICK nodes : nodes = Nodes(t)
  OBVIOUS
<1>4. PICK g : g = CHOOSE h : IsMoved(h, nodes)
  OBVIOUS
<1>5. /\ table' = g[Len(nodes)]
      /\ current' = [name \in Key |-> IF map[name].exported THEN map[name] ELSE None]
      /\ damaged' = (d \/ \E k \in 1..Len(nodes) :
                       nodes[k].exported /\ Damages(g[k - 1], nodes[k].key))
      /\ environ' = environ /\ calls' = calls
  BY <1>1, <1>3, <1>4 DEF fork_exported, IsMoved
<1>6. /\ IsTable(t) /\ d \in BOOLEAN /\ (~d => Orderly(t) /\ Holds(t, map))
      /\ map \in [Key -> [value : Value \cup {None.value}, exported : BOOLEAN]]
  BY <1>2 DEF Right, Fits, Agrees
<1>7. /\ nodes \in Seq(Node) /\ Len(nodes) \in Nat /\ Members(nodes) = Content(t)
      /\ Orderly(t) => NoNameTwice(nodes)
  BY <1>3, <1>6, NodesFacts
<1>8. PICK u, new, e : u = table' /\ new = current' /\ e = damaged'
  OBVIOUS
<1>9. IsTable(u) /\ Sound(u)
  <2>1. Len(nodes) \in 0..Len(nodes)
    BY <1>7
  <2> QED
    BY <1>4, <1>5, <1>7, <1>8, <2>1, MoveSteps
<1>10. new \in [Key -> [value : Value \cup {None.value}, exported : BOOLEAN]]
  <2>1. None \in [value : Value \cup {None.value}, exported : BOOLEAN]
    BY DEF None
  <2> QED
    BY <1>5, <1>6, <1>8, <2>1
<1>11. e \in BOOLEAN
  BY <1>5, <1>6, <1>8
<1>12. ASSUME ~e PROVE Orderly(u) /\ Holds(u, new)
  <2>1. /\ Orderly(t) /\ Holds(t, map) /\ NoNameTwice(nodes)
        /\ \A k \in 1..Len(nodes) : nodes[k].exported => ~Damages(g[k - 1], nodes[k].key)
    BY <1>5, <1>6, <1>7, <1>8, <1>12
  <2>2. Orderly(u) /\ Content(u) = {x \in Content(t) : x.exported}
    BY <1>4, <1>5, <1>7, <1>8, <2>1, MoveFacts
  <2>3. \A x \in Content(t) : x \in Node /\ x.key \in Key /\ Entry(x).exported = x.exported
    <3>1. ASSUME NEW x \in Content(t) PROVE x \in Node
      <4>1. x \in Members(nodes)
        BY <1>7
      <4> QED
        BY <1>7, <4>1 DEF Members
    <3>2. \A x \in Node : x.key \in Key /\ Entry(x).exported = x.exported
      BY DEF Node, Entry
    <3> QED
      BY <3>1, <3>2
  <2>4. \A x \in Content(u) : Entry(x) = new[x.key]
    <3> SUFFICES ASSUME NEW x \in Content(u) PROVE Entry(x) = new[x.key]
      OBVIOUS
    <3>1. x \in Content(t) /\ x.exported /\ Entry(x) = map[x.key] /\ x.key \in Key
      BY <2>1, <2>2, <2>3 DEF Holds
    <3>2. map[x.key].exported
      BY <2>3, <3>1
    <3> QED
      BY <1>5, <1>8, <3>1, <3>2
  <2>5. ASSUME NEW name \in Key, \A x \in Content(u) : x.key # name PROVE new[name] = None
    <3>1. CASE \E x \in Content(t) : x.key = name
      <4>1. PICK x \in Content(t) : x.key = name
        BY <3>1
      <4>2. ~x.exported /\ map[name] = Entry(x) /\ Entry(x).exported = x.exported
        BY <2>1, <2>2, <2>3, <2>5, <4>1 DEF Holds
      <4> QED
        BY <1>5, <1>8, <4>2
    <3>2. CASE \A x \in Content(t) : x.key # name
      <4>1. map[name] = None
        BY <2>1, <3>2 DEF Holds
      <4> QED
        BY <1>5, <1>8, <4>1
    <3> QED
      BY <3>1, <3>2
  <2> QED
    BY <2>2, <2>4, <2>5 DEF Holds
<1>13. Right(u, new, e)
  BY <1>9, <1>10, <1>11, <1>12 DEF Right, Fits, Agrees
<1> QED
  BY <1>2, <1>5, <1>8, <1>13, NextRightMeans

\* At the start the table is empty.
LEMMA InitKeeps == Init => IInv
<1> SUFFICES ASSUME Init PROVE IInv
  OBVIOUS
<1>1. /\ table = ht_new /\ environ \in Seq(Key \X Value) /\ calls \in 0..MaxCalls
      /\ current = [name \in Key |-> None] /\ damaged = FALSE
  BY VarsAssumption DEF Init
<1>2. current \in [Key -> [value : Value \cup {None.value}, exported : BOOLEAN]]
  <2>1. None \in [value : Value \cup {None.value}, exported : BOOLEAN]
    BY DEF None
  <2> QED
    BY <1>1, <2>1
<1>3. Holds(table, current)
  BY <1>1, ht_newFacts DEF Holds
<1>4. Right(table, current, damaged)
  BY <1>1, <1>2, <1>3, ht_newFacts DEF Right, Fits, Agrees
<1> QED
  BY <1>1, <1>4, RightMeans

\* Every call keeps the invariant.
LEMMA NextKeeps == IInv /\ [Next]_vars => IInv'
<1> SUFFICES ASSUME IInv, [Next]_vars PROVE IInv'
  OBVIOUS
<1>1. CASE ReadEnviron
  BY <1>1, ReadEnvironKeeps
<1>2. CASE \E name \in Key, value \in Value : var_assign(name, value) \/ var_export(name, value)
  BY <1>2, AssignKeeps
<1>3. CASE \E name \in Key : var_unassign(name)
  BY <1>3, var_unassignKeeps
<1>4. CASE fork_exported
  BY <1>4, fork_exportedKeeps
<1>5. CASE UNCHANGED vars
  BY <1>5, RightMeans, NextRightMeans DEF vars
<1> QED
  BY <1>1, <1>2, <1>3, <1>4, <1>5 DEF Next

-----------------------------------------------------------------------------
(* What is proved of any names, values, hash function and capacities. *)

\* The inductive invariant: until it is damaged, the table is in order and holds
\* what was assigned; its size is sound in any case.
THEOREM VarsInvariant == Spec => []IInv
BY InitKeeps, NextKeeps, PTL DEF Spec

\* The table has a bucket for each index, and chains of nodes in them.
THEOREM TypeCorrect == Spec => []TypeOK
<1>1. IInv => TypeOK
  BY DEF IInv
<1> QED
  BY <1>1, VarsInvariant, PTL

\* A variable has the value and the export flag it was last given, whatever
\* happened to the others, until one of the named events damages the table.
THEOREM TableIsMap == Spec => []IsMap
<1>1. IInv => IsMap
  <2> SUFFICES ASSUME IInv, ~damaged, NEW name \in Key PROVE var_lookup(name) = current[name]
    BY DEF IsMap
  <2>1. IsTable(table) /\ Orderly(table) /\ Holds(table, current)
    BY DEF IInv, TypeOK
  <2> QED
    BY <2>1, LooksUp DEF var_lookup
<1> QED
  BY <1>1, VarsInvariant, PTL

\* The size counts every node, exceeds the load factor by one put at most, and
\* leaves a resize room for all the nodes it puts: hashtable_resize never runs
\* inside itself.
THEOREM ResizeDoesNotNest == Spec => []SizeIsSound
<1>1. IInv => SizeIsSound
  BY DEF IInv, Sound, SizeIsSound
<1> QED
  BY <1>1, VarsInvariant, PTL
=============================================================================
