--------------------------- MODULE CompletionProofs --------------------------
(***************************************************************************)
(* Completion is right for every table of builtins, every PATH, every      *)
(* script and every size of the registry.                                  *)
(*                                                                         *)
(* What makes the completion of a later word right is Cache: what the      *)
(* static variables of external_completer_generator hold in the middle of  *)
(* a completion, and what is left of it between two.  What makes the       *)
(* completion of the first word right is Phases: readline has got          *)
(* everything that fits up to the place the generators have reached.       *)
(***************************************************************************)
EXTENDS Completion, SequenceTheorems, WellFoundedInduction, TLAPS

\* The script's candidates: between two completions an index that is not zero
\* is left only by a completion that was given up; in the middle of one
\* readline has the lines before the index, back to the first that was given.
Cache ==
    /\ completions = Null => cmp_idx = 0
    /\ clean /\ ~(tab.is = "external" /\ matches # <<>>) => cmp_idx = 0
    /\ tab.is = "external" /\ matches = <<>> => printed = <<>>
    /\ tab.is = "external" /\ matches # <<>> =>
         /\ completions = Pointer(printed)
         /\ Len(matches) =< cmp_idx /\ cmp_idx =< Len(printed)
         /\ clean => cmp_idx = Len(matches)
         /\ \A k \in 1..Len(matches) : matches[k] = printed[cmp_idx - Len(matches) + k]

\* The first word's: the fitting builtins before the place in their table, or
\* all of them and the fitting executables before the place on the PATH.
Phases ==
    tab.is = "first" /\ matches # <<>> =>
      \/ /\ phase = 0
         /\ list_index \in 1..(Len(Builtins) - 1)
         /\ matches = Fitting(Builtins, tab.text, list_index)
      \/ /\ phase = 1
         /\ path_pos \in 1..Len(OnPath)
         /\ matches = Fitting(Builtins, tab.text, Len(Builtins) - 1)
                        \o Fitting(OnPath, tab.text, path_pos)

IInv == TypeOK /\ RegistryIsMap /\ Cache /\ Phases

-----------------------------------------------------------------------------
(* Numbers, and the names that fit. *)

\* A set of numbers has a least element.
LEMMA LeastNumber ==
  ASSUME NEW S \in SUBSET Nat, S # {}
  PROVE  \E x \in S : \A y \in S : x =< y
<1>1. PICK x \in S : \A y \in S : ~ (<<y, x>> \in OpToRel(<, Nat))
  BY NatLessThanWellFounded, WFMin, Zenon
<1>2. \A y, z \in Nat : y < z => <<y, z>> \in OpToRel(<, Nat)
  BY Zenon DEF OpToRel
<1>3. \A y \in S : x =< y
  <2> SUFFICES ASSUME NEW y \in S PROVE x =< y
    OBVIOUS
  <2>1. ~ (y < x)
    BY <1>1, <1>2, Zenon
  <2> QED
    BY <2>1
<1> QED
  BY <1>3

\* Induction over the numbers of a set.
LEMMA SetInduction ==
  ASSUME NEW S \in SUBSET Nat, 0 \in S, \A k \in S : k + 1 \in S
  PROVE  \A k \in Nat : k \in S
<1>1. ASSUME NEW k \in Nat, k \notin S PROVE FALSE
  <2> DEFINE T == Nat \ S
  <2>1. PICK x \in T : \A y \in T : x =< y
    <3> HIDE DEF T
    <3>1. T \in SUBSET Nat /\ T # {}
      BY <1>1 DEF T
    <3> QED
      BY <3>1, LeastNumber
  <2>2. x \in Nat /\ x # 0 /\ x-1 \in Nat /\ x-1 \in S
    BY <2>1
  <2>3. (x-1) + 1 \in S /\ (x-1) + 1 = x
    BY <2>2
  <2> QED
    BY <2>1, <2>3
<1> QED
  BY <1>1

\* Min is that element.
LEMMA MinInSet ==
  ASSUME NEW S \in SUBSET Nat, S # {}
  PROVE  Min(S) \in S /\ \A y \in S : Min(S) =< y
BY LeastNumber DEF Min

\* One more name: what the recursion in Fitting adds to what it has.
More(names, text, i, found) ==
    IF names[i] \in Begins[text] THEN Append(found, names[i]) ELSE found

\* f is the function that Fitting defines, up to m.
IsUpTo(f, names, text, m) ==
    f = [i \in 0..m |-> IF i = 0 THEN <<>> ELSE More(names, text, i, f[i-1])]

UpTo(names, text) == CHOOSE f : IsUpTo(f, names, text, Len(names))

\* The function that Fitting defines by recursion exists: the one up to m can
\* be continued by one.
LEMMA FittingExists ==
  ASSUME NEW names, NEW text, Len(names) \in Nat
  PROVE  IsUpTo(UpTo(names, text), names, text, Len(names))
<1> DEFINE Good == {m \in Nat : \E f : IsUpTo(f, names, text, m)}
<1>1. 0 \in Good
  <2> DEFINE f == [i \in 0..0 |-> <<>>]
  <2>1. IsUpTo(f, names, text, 0)
    BY DEF IsUpTo
  <2> QED
    BY <2>1
<1>2. ASSUME NEW l \in Good PROVE l + 1 \in Good
  <2> DEFINE m == l + 1
  <2>1. l \in Nat
    OBVIOUS
  <2>2. PICK f : IsUpTo(f, names, text, l)
    OBVIOUS
  <2> DEFINE g == [i \in 0..m |-> IF i = m THEN More(names, text, m, f[l]) ELSE f[i]]
  <2>3. \A i \in 0..l : f[i] = IF i = 0 THEN <<>> ELSE More(names, text, i, f[i-1])
    BY <2>2 DEF IsUpTo
  <2>4. \A i \in 0..l : g[i] = f[i]
    BY <2>1
  <2>5. g[m] = More(names, text, m, g[m-1])
    BY <2>1, <2>4
  <2>6. \A i \in 0..m : g[i] = IF i = 0 THEN <<>> ELSE More(names, text, i, g[i-1])
    <3> SUFFICES ASSUME NEW i \in 0..m
                 PROVE  g[i] = IF i = 0 THEN <<>> ELSE More(names, text, i, g[i-1])
      OBVIOUS
    <3> HIDE DEF g
    <3>1. CASE i = m
      BY <3>1, <2>1, <2>5
    <3>2. CASE i = 0
      BY <3>2, <2>1, <2>3, <2>4
    <3>3. CASE i # m /\ i # 0
      <4>1. i \in 0..l /\ i-1 \in 0..l
        BY <2>1, <3>3
      <4>2. g[i] = f[i] /\ g[i-1] = f[i-1] /\ f[i] = More(names, text, i, f[i-1])
        BY <2>3, <2>4, <4>1, <3>3
      <4> QED
        BY <4>2, <3>3
    <3> QED
      BY <3>1, <3>2, <3>3
  <2>7. g = [i \in 0..m |-> g[i]]
    OBVIOUS
  <2>8. IsUpTo(g, names, text, m)
    <3> HIDE DEF g
    <3> QED BY <2>6, <2>7 DEF IsUpTo
  <2> QED
    BY <2>1, <2>8
<1>3. Len(names) \in Good
  <2> HIDE DEF Good
  <2>1. Good \in SUBSET Nat
    BY DEF Good
  <2> QED
    BY <1>1, <1>2, <2>1, SetInduction
<1> QED
  BY <1>3 DEF UpTo

\* Fitting, one name at a time.
LEMMA FittingSteps ==
  ASSUME NEW names \in Seq(Candidate), NEW text
  PROVE  /\ Fitting(names, text, 0) = <<>>
         /\ \A k \in 1..Len(names) :
              Fitting(names, text, k) = More(names, text, k, Fitting(names, text, k-1))
<1>1. \A k : Fitting(names, text, k) = UpTo(names, text)[k]
  BY DEF Fitting, UpTo, IsUpTo, More
<1> DEFINE f == UpTo(names, text)
<1>2. f = [i \in 0..Len(names) |-> IF i = 0 THEN <<>> ELSE More(names, text, i, f[i-1])]
  BY FittingExists, Len(names) \in Nat DEF IsUpTo
<1> HIDE DEF f
<1>3. f[0] = <<>>
  BY <1>2
<1>4. \A k \in 1..Len(names) : f[k] = More(names, text, k, f[k-1])
  BY <1>2
<1> QED
  BY <1>1, <1>3, <1>4 DEF f

\* The names that fit are names.
LEMMA FittingTyped ==
  ASSUME NEW names \in Seq(Candidate), NEW text
  PROVE  \A k \in 0..Len(names) : Fitting(names, text, k) \in Seq(Candidate)
<1> DEFINE S == {k \in Nat : k =< Len(names) => Fitting(names, text, k) \in Seq(Candidate)}
<1>1. 0 \in S
  <2>1. Fitting(names, text, 0) = <<>> /\ <<>> \in Seq(Candidate)
    BY FittingSteps, EmptySeq, Zenon
  <2> QED
    BY <2>1
<1>2. ASSUME NEW k \in S PROVE k + 1 \in S
  <2>1. k \in Nat /\ (k =< Len(names) => Fitting(names, text, k) \in Seq(Candidate))
    OBVIOUS
  <2>2. CASE k + 1 =< Len(names)
    <3>1. k + 1 \in 1..Len(names) /\ (k + 1) - 1 = k /\ k =< Len(names)
      BY <2>1, <2>2
    <3>2. Fitting(names, text, k + 1) = More(names, text, k + 1, Fitting(names, text, k))
      BY <3>1, FittingSteps
    <3>3. names[k + 1] \in Candidate
      BY <3>1
    <3>4. ASSUME NEW found \in Seq(Candidate)
          PROVE  More(names, text, k + 1, found) \in Seq(Candidate)
      BY <3>3 DEF More
    <3>5. Fitting(names, text, k + 1) \in Seq(Candidate)
      BY <2>1, <3>1, <3>2, <3>4, Zenon
    <3> QED
      BY <2>1, <3>5
  <2>3. CASE ~ (k + 1 =< Len(names))
    BY <2>1, <2>3
  <2> QED
    BY <2>2, <2>3
<1>3. \A k \in Nat : k \in S
  <2> HIDE DEF S
  <2>1. S \in SUBSET Nat
    BY DEF S
  <2> QED
    BY <1>1, <1>2, <2>1, SetInduction
<1> QED
  BY <1>3

\* Names that do not fit are passed over.
LEMMA FittingSkips ==
  ASSUME NEW names \in Seq(Candidate), NEW text,
         NEW a \in 0..Len(names), NEW b \in a..Len(names),
         \A k \in (a+1)..b : names[k] \notin Begins[text]
  PROVE  Fitting(names, text, b) = Fitting(names, text, a)
<1> DEFINE S == {d \in Nat : a + d =< b => Fitting(names, text, a + d) = Fitting(names, text, a)}
<1>1. 0 \in S
  BY a \in Nat
<1>2. ASSUME NEW d \in S PROVE d + 1 \in S
  <2>1. d \in Nat /\ (a + d =< b => Fitting(names, text, a + d) = Fitting(names, text, a))
    OBVIOUS
  <2>2. CASE a + (d + 1) =< b
    <3> DEFINE k == a + (d + 1)
    <3>1. k \in 1..Len(names) /\ k \in (a+1)..b /\ k-1 = a + d /\ a + d =< b
      BY <2>1, <2>2
    <3> HIDE DEF k
    <3>2. Fitting(names, text, k) = More(names, text, k, Fitting(names, text, a + d))
      BY <3>1, FittingSteps
    <3>3. Fitting(names, text, k) = Fitting(names, text, a)
      BY <2>1, <3>1, <3>2 DEF More
    <3> QED
      BY <2>1, <3>3 DEF k
  <2>3. CASE ~ (a + (d + 1) =< b)
    BY <2>1, <2>3
  <2> QED
    BY <2>2, <2>3
<1>3. \A d \in Nat : d \in S
  <2> HIDE DEF S
  <2>1. S \in SUBSET Nat
    BY DEF S
  <2> QED
    BY <1>1, <1>2, <2>1, SetInduction
<1>4. b - a \in Nat /\ a + (b - a) = b
  OBVIOUS
<1>5. b - a \in S
  BY <1>3, <1>4
<1> QED
  BY <1>4, <1>5

\* The next name that fits ends a stretch of names that do not.
LEMMA FittingNext ==
  ASSUME NEW names \in Seq(Candidate), NEW text,
         NEW a \in 0..Len(names), NEW b \in (a+1)..Len(names),
         \A k \in (a+1)..(b-1) : names[k] \notin Begins[text],
         names[b] \in Begins[text]
  PROVE  Fitting(names, text, b) = Append(Fitting(names, text, a), names[b])
<1>1. b-1 \in a..Len(names) /\ b \in 1..Len(names)
  OBVIOUS
<1>2. Fitting(names, text, b-1) = Fitting(names, text, a)
  BY <1>1, FittingSkips
<1> QED
  BY <1>1, <1>2, FittingSteps DEF More

\* A name put at the end of two lists is put at the end of the second.
LEMMA AppendToBoth ==
  ASSUME NEW s \in Seq(Candidate), NEW t \in Seq(Candidate), NEW e \in Candidate
  PROVE  Append(s \o t, e) = s \o Append(t, e)
<1>1. /\ s \o t \in Seq(Candidate) /\ Len(s \o t) = Len(s) + Len(t)
      /\ \A k \in 1..(Len(s) + Len(t)) :
           (s \o t)[k] = IF k =< Len(s) THEN s[k] ELSE t[k - Len(s)]
  BY ConcatProperties
<1>2. /\ Append(t, e) \in Seq(Candidate) /\ Len(Append(t, e)) = Len(t) + 1
      /\ \A k \in 1..Len(t) : Append(t, e)[k] = t[k]
      /\ Append(t, e)[Len(t) + 1] = e
  BY AppendProperties
<1> DEFINE u == Append(t, e)
           v == s \o t
<1> HIDE DEF u, v
<1>3. /\ s \o u \in Seq(Candidate) /\ Len(s \o u) = Len(s) + Len(u)
      /\ \A k \in 1..(Len(s) + Len(u)) :
           (s \o u)[k] = IF k =< Len(s) THEN s[k] ELSE u[k - Len(s)]
  BY <1>2, ConcatProperties DEF u
<1>4. /\ Append(v, e) \in Seq(Candidate) /\ Len(Append(v, e)) = Len(v) + 1
      /\ \A k \in 1..Len(v) : Append(v, e)[k] = v[k]
      /\ Append(v, e)[Len(v) + 1] = e
  BY <1>1, AppendProperties DEF v
<1>5. Len(s) \in Nat /\ Len(t) \in Nat
  OBVIOUS
<1>6. Len(Append(v, e)) = Len(s \o u)
  BY <1>1, <1>2, <1>3, <1>4, <1>5 DEF u, v
<1>7. ASSUME NEW k \in 1..Len(Append(v, e)) PROVE Append(v, e)[k] = (s \o u)[k]
  <2>1. Len(v) = Len(s) + Len(t) /\ Len(u) = Len(t) + 1
    BY <1>1, <1>2 DEF u, v
  <2>2. k \in 1..(Len(s) + Len(t) + 1)
    BY <1>4, <2>1
  <2>3. CASE k =< Len(s)
    <3>1. k \in 1..Len(v) /\ k \in 1..(Len(s) + Len(u))
      BY <1>5, <2>1, <2>2, <2>3
    <3> QED
      BY <1>1, <1>3, <1>4, <2>1, <2>3, <3>1 DEF v
  <2>4. CASE k > Len(s) /\ k =< Len(s) + Len(t)
    <3>1. k \in 1..Len(v) /\ k \in 1..(Len(s) + Len(u)) /\ k - Len(s) \in 1..Len(t)
      BY <1>5, <2>1, <2>2, <2>4
    <3>2. ~(k =< Len(s))
      BY <1>5, <2>2, <2>4
    <3>3. Append(v, e)[k] = t[k - Len(s)]
      BY <1>1, <1>4, <2>1, <3>1, <3>2 DEF v
    <3>4. (s \o u)[k] = u[k - Len(s)] /\ u[k - Len(s)] = t[k - Len(s)]
      BY <1>2, <1>3, <3>1, <3>2 DEF u
    <3> QED
      BY <3>3, <3>4
  <2>5. CASE k = Len(s) + Len(t) + 1
    <3>1. k = Len(v) + 1 /\ k \in 1..(Len(s) + Len(u)) /\ k - Len(s) = Len(t) + 1
      BY <1>5, <2>1, <2>2, <2>5
    <3>2. ~(k =< Len(s))
      BY <1>5, <2>5
    <3>3. (s \o u)[k] = u[Len(t) + 1]
      BY <1>3, <3>1, <3>2
    <3> QED
      BY <1>2, <1>4, <3>1, <3>3 DEF u
  <2>6. \/ k =< Len(s)
        \/ k > Len(s) /\ k =< Len(s) + Len(t)
        \/ k = Len(s) + Len(t) + 1
    BY <1>5, <2>2
  <2> QED
    BY <2>3, <2>4, <2>5, <2>6, Zenon
<1>8. Append(v, e) = s \o u
  BY <1>3, <1>4, <1>6, <1>7, SeqEqual
<1> QED
  BY <1>8 DEF u, v

\* A suffix, element by element.
LEMMA SuffixByElements ==
  ASSUME NEW s \in Seq(Candidate), NEW t \in Seq(Candidate), Len(s) =< Len(t),
         \A k \in 1..Len(s) : s[k] = t[Len(t) - Len(s) + k]
  PROVE  IsSuffix(s, t)
<1> DEFINE a == Reverse(s)
           b == Reverse(t)
<1>1. Len(s) \in Nat /\ Len(t) \in Nat
  OBVIOUS
<1>2. Len(a) = Len(s) /\ Len(b) = Len(t)
  BY <1>1 DEF Reverse
<1>3. \A k \in 1..Len(s) : a[k] = b[k]
  <2> SUFFICES ASSUME NEW k \in 1..Len(s) PROVE a[k] = b[k]
    OBVIOUS
  <2>1. a[k] = s[(Len(s) - k) + 1] /\ b[k] = t[(Len(t) - k) + 1]
    BY <1>1 DEF Reverse
  <2>2. (Len(s) - k) + 1 \in 1..Len(s)
    BY <1>1
  <2>3. Len(t) - Len(s) + ((Len(s) - k) + 1) = (Len(t) - k) + 1
    BY <1>1
  <2> QED
    BY <2>1, <2>2, <2>3
<1> HIDE DEF a, b
<1>4. SubSeq(a, 1, Len(s)) = SubSeq(b, 1, Len(s))
  BY <1>1, <1>3
<1>5. IsPrefix(a, b)
  BY <1>1, <1>2, <1>4 DEF IsPrefix
<1> QED
  BY <1>5 DEF IsSuffix, a, b

-----------------------------------------------------------------------------
(* The registry. *)

\* The constants.
LEMMA Constants ==
  /\ Builtins \in Seq(Candidate) /\ Len(Builtins) \in Nat /\ Len(Builtins) >= 1
  /\ OnPath \in Seq(Candidate) /\ Len(OnPath) \in Nat
  /\ \A lines \in Outputs : lines \in Seq(Candidate) /\ Len(lines) \in Nat
  /\ MaxCompletions \in Nat /\ MaxCompletions >= 1
<1>1. Len(Builtins) # 0
  BY CompletionAssumption, EmptySeq
<1> QED
  BY <1>1, CompletionAssumption

\* lookup_completion finds the entry of a command, if there is one.
LEMMA SlotFinds ==
  ASSUME TypeOK, NEW c \in Command
  PROVE  /\ Slot(c) \in 0..Len(registry)
         /\ Slot(c) = 0 => \A i \in 1..Len(registry) : registry[i].command # c
         /\ Slot(c) # 0 => registry[Slot(c)].command = c
<1> DEFINE fits == {i \in 1..Len(registry) : registry[i].command = c}
<1>1. Slot(c) = IF fits # {} THEN Min(fits) ELSE 0
  BY DEF Slot, SelectInSeq
<1>2. Len(registry) \in Nat
  BY DEF TypeOK
<1>3. fits # {} => Min(fits) \in fits
  <2>1. fits \in SUBSET Nat
    BY <1>2
  <2> HIDE DEF fits
  <2> QED
    BY <2>1, MinInSet
<1> QED
  BY <1>1, <1>2, <1>3

\* What a registration leaves is a map, and no larger than the array.
LEMMA RegistrationKeepsMap ==
  ASSUME TypeOK, RegistryIsMap, NEW c \in Command, NEW s \in Script
  PROVE  /\ Registered(c, s) \in Seq([command : Command, script : Script])
         /\ Len(Registered(c, s)) =< MaxCompletions
         /\ \A i, j \in DOMAIN Registered(c, s) :
              Registered(c, s)[i].command = Registered(c, s)[j].command => i = j
<1> DEFINE Entry == [command : Command, script : Script]
           new   == Registered(c, s)
<1>1. registry \in Seq(Entry) /\ Len(registry) \in Nat /\ Len(registry) =< MaxCompletions
  BY DEF TypeOK
<1>2. \A i, j \in 1..Len(registry) : registry[i].command = registry[j].command => i = j
  BY <1>1 DEF RegistryIsMap
<1>3. CASE Slot(c) # 0
  <2> DEFINE e == [registry[Slot(c)] EXCEPT !.script = s]
  <2>1. Slot(c) \in 1..Len(registry) /\ registry[Slot(c)] \in Entry
    <3>1. Slot(c) \in 0..Len(registry)
      BY SlotFinds
    <3>2. Slot(c) \in 1..Len(registry)
      BY <1>1, <1>3, <3>1
    <3> HIDE DEF Entry
    <3> QED
      BY <1>1, <3>2
  <2>2. e \in Entry /\ e.command = registry[Slot(c)].command
    BY <2>1
  <2>3. new = [registry EXCEPT ![Slot(c)] = e]
    BY <1>3 DEF Registered
  <2> HIDE DEF e, new
  <2>4. /\ new \in Seq(Entry) /\ Len(new) = Len(registry)
        /\ \A i \in 1..Len(registry) : new[i].command = registry[i].command
    BY <1>1, <2>1, <2>2, <2>3
  <2> QED
    BY <1>1, <1>2, <2>4 DEF new
<1>4. CASE Slot(c) = 0 /\ Len(registry) >= MaxCompletions
  <2>1. new = registry
    BY <1>4 DEF Registered
  <2> QED
    BY <1>1, <1>2, <2>1
<1>5. CASE Slot(c) = 0 /\ ~(Len(registry) >= MaxCompletions)
  <2> DEFINE e == Registration(c, s)
  <2>1. new = Append(registry, e)
    BY <1>5 DEF Registered
  <2>2. e \in Entry /\ e.command = c
    BY DEF Registration
  <2> HIDE DEF e, new
  <2>3. /\ new \in Seq(Entry) /\ Len(new) = Len(registry) + 1
        /\ \A i \in 1..Len(registry) : new[i] = registry[i]
        /\ new[Len(registry) + 1] = e
    BY <1>1, <2>1, <2>2
  <2>4. \A i \in 1..Len(registry) : registry[i].command # c
    BY <1>5, SlotFinds
  <2>5. Len(new) =< MaxCompletions
    BY <1>1, <1>5, <2>3, Constants
  <2>6. \A i, j \in 1..Len(new) : new[i].command = new[j].command => i = j
    BY <1>1, <1>2, <2>2, <2>3, <2>4
  <2> QED
    BY <1>1, <2>3, <2>5, <2>6 DEF new
<1> QED
  BY <1>3, <1>4, <1>5

\* Closing the gap of a removed entry leaves a map.
LEMMA RemovalKeepsMap ==
  ASSUME TypeOK, RegistryIsMap, NEW g \in 1..Len(registry)
  PROVE  /\ RemoveAt(registry, g) \in Seq([command : Command, script : Script])
         /\ Len(RemoveAt(registry, g)) =< MaxCompletions
         /\ \A i, j \in DOMAIN RemoveAt(registry, g) :
              RemoveAt(registry, g)[i].command = RemoveAt(registry, g)[j].command => i = j
<1> DEFINE Entry == [command : Command, script : Script]
           front == SubSeq(registry, 1, g-1)
           back  == SubSeq(registry, g+1, Len(registry))
           new   == RemoveAt(registry, g)
           old(i) == IF i < g THEN i ELSE i + 1
<1>1. registry \in Seq(Entry) /\ Len(registry) \in Nat /\ Len(registry) =< MaxCompletions
  BY DEF TypeOK
<1>2. \A i \in 1..Len(registry) : registry[i] \in Entry
  <2> HIDE DEF Entry
  <2> QED BY <1>1
<1>3. \A i, j \in 1..Len(registry) : registry[i].command = registry[j].command => i = j
  BY <1>1 DEF RegistryIsMap
<1>4. /\ front \in Seq(Entry) /\ Len(front) = g-1
      /\ \A i \in 1..(g-1) : front[i] = registry[i]
  <2> HIDE DEF Entry
  <2>1. \A i \in 1..(g-1) : registry[i] \in Entry
    BY <1>1, <1>2
  <2>2. /\ front \in Seq(Entry) /\ Len(front) = IF 1 =< g-1 THEN (g-1)-1+1 ELSE 0
        /\ \A i \in 1..((g-1)-1+1) : front[i] = registry[1+i-1]
    BY <1>1, <2>1, SubSeqProperties
  <2> HIDE DEF front
  <2> QED
    BY <1>1, <2>2
<1>5. /\ back \in Seq(Entry) /\ Len(back) = Len(registry) - g
      /\ \A i \in 1..(Len(registry) - g) : back[i] = registry[g + i]
  <2> HIDE DEF Entry
  <2>1. \A i \in (g+1)..Len(registry) : registry[i] \in Entry
    BY <1>1, <1>2
  <2>2. /\ back \in Seq(Entry)
        /\ Len(back) = IF g+1 =< Len(registry) THEN Len(registry)-(g+1)+1 ELSE 0
        /\ \A i \in 1..(Len(registry)-(g+1)+1) : back[i] = registry[(g+1)+i-1]
    BY <1>1, <2>1, SubSeqProperties
  <2> HIDE DEF back
  <2> QED
    BY <1>1, <2>2
<1>6. new = front \o back
  BY DEF RemoveAt
<1> HIDE DEF front, back, new
<1>7. /\ new \in Seq(Entry) /\ Len(new) = Len(registry) - 1
      /\ \A i \in 1..(Len(registry) - 1) :
           new[i] = IF i =< g-1 THEN front[i] ELSE back[i - (g-1)]
  <2> HIDE DEF Entry
  <2>1. /\ new \in Seq(Entry) /\ Len(new) = Len(front) + Len(back)
        /\ \A i \in 1..(Len(front) + Len(back)) :
             new[i] = IF i =< Len(front) THEN front[i] ELSE back[i - Len(front)]
    BY <1>4, <1>5, <1>6, ConcatProperties
  <2>2. Len(front) + Len(back) = Len(registry) - 1
    BY <1>1, <1>4, <1>5
  <2> QED
    BY <1>4, <2>1, <2>2
<1>8. \A i \in 1..(Len(registry) - 1) : new[i] = registry[old(i)] /\ old(i) \in 1..Len(registry)
  <2> SUFFICES ASSUME NEW i \in 1..(Len(registry) - 1)
               PROVE  new[i] = registry[old(i)] /\ old(i) \in 1..Len(registry)
    OBVIOUS
  <2>1. CASE i < g
    BY <1>1, <1>4, <1>7, <2>1
  <2>2. CASE ~(i < g)
    <3>1. i - (g-1) \in 1..(Len(registry) - g) /\ g + (i - (g-1)) = i + 1 /\ ~(i =< g-1)
      BY <1>1, <2>2
    <3> QED
      BY <1>1, <1>5, <1>7, <2>2, <3>1
  <2> QED
    BY <2>1, <2>2
<1>9. \A i, j \in 1..(Len(registry) - 1) : old(i) = old(j) => i = j
  BY <1>1
<1>10. \A i, j \in 1..(Len(registry) - 1) : new[i].command = new[j].command => i = j
  <2> HIDE DEF old
  <2> QED BY <1>3, <1>8, <1>9
<1>11. Len(new) =< MaxCompletions /\ DOMAIN new = 1..(Len(registry) - 1)
  BY <1>1, <1>7, Constants
<1> QED
  BY <1>7, <1>10, <1>11 DEF new

-----------------------------------------------------------------------------
(* The invariant, one operation at a time. *)

\* At first there is nothing.
LEMMA InvInit == Init => IInv
<1> SUFFICES ASSUME Init PROVE IInv
  OBVIOUS
<1>1. /\ registry = <<>> /\ completions = <<>> /\ cmp_idx = 0
      /\ phase = 0 /\ list_index = 0 /\ path_pos = 0
      /\ tab \in Tab /\ tab.is = "idle" /\ matches = <<>> /\ printed = <<>> /\ clean = TRUE
  BY DEF Init, Null
<1>2. <<>> \in Seq([command : Command, script : Script]) /\ Len(registry) = 0
  BY <1>1, EmptySeq, Zenon
<1>3. matches \in Seq(Candidate)
  BY <1>1, EmptySeq, Zenon
<1>4. TypeOK
  <2>1. list_index \in 0..Len(Builtins) /\ path_pos \in 0..Len(OnPath)
    BY <1>1, Constants
  <2>2. registry \in Seq([command : Command, script : Script])
    BY <1>1, <1>2
  <2>3. Len(registry) =< MaxCompletions /\ cmp_idx \in Nat
    BY <1>1, <1>2, Constants
  <2> QED
    BY <1>1, <1>3, <2>1, <2>2, <2>3, Zenon DEF TypeOK, Null
<1>5. RegistryIsMap
  BY <1>1 DEF RegistryIsMap
<1>6. Cache /\ Phases
  BY <1>1 DEF Cache, Phases, Null
<1> QED
  BY <1>4, <1>5, <1>6 DEF IInv

\* A step that leaves the registry alone keeps it a map.
LEMMA MapKept ==
  ASSUME RegistryIsMap, registry' = registry
  PROVE  RegistryIsMap'
BY DEF RegistryIsMap

\* Only completing changes what Cache and Phases speak of.
LEMMA RestKept ==
  ASSUME Cache, Phases, UNCHANGED <<statics, tab, matches, printed, clean>>
  PROVE  Cache' /\ Phases'
<1>1. /\ completions' = completions /\ cmp_idx' = cmp_idx /\ phase' = phase
      /\ list_index' = list_index /\ path_pos' = path_pos /\ tab' = tab
      /\ matches' = matches /\ printed' = printed /\ clean' = clean
  BY DEF statics
<1>2. Cache'
  BY <1>1 DEF Cache
<1>3. Phases'
  BY <1>1 DEF Phases
<1> QED
  BY <1>2, <1>3

\* A registration, new or repeated or one too many.
LEMMA RegisterKeeps ==
  ASSUME IInv, NEW c \in Command, NEW s \in Script, register_completion(c, s)
  PROVE  IInv'
<1>1. TypeOK /\ RegistryIsMap /\ Cache /\ Phases
  BY DEF IInv
<1>2. registry' = Registered(c, s) /\ UNCHANGED <<statics, tab, matches, printed, clean>>
  BY DEF register_completion
<1>3. Cache' /\ Phases'
  BY <1>1, <1>2, RestKept
<1>4. RegistryIsMap'
  BY <1>1, <1>2, RegistrationKeepsMap DEF RegistryIsMap
<1>5. TypeOK'
  BY <1>1, <1>2, RegistrationKeepsMap, Zenon DEF TypeOK, statics
<1> QED
  BY <1>3, <1>4, <1>5 DEF IInv

\* Removing a registration, or finding none.
LEMMA UnregisterKeeps ==
  ASSUME IInv, NEW c \in Command, unregister_completion(c)
  PROVE  IInv'
<1>1. TypeOK /\ RegistryIsMap /\ Cache /\ Phases
  BY DEF IInv
<1>2. UNCHANGED <<statics, tab, matches, printed, clean>>
  BY DEF unregister_completion
<1>3. Cache' /\ Phases'
  BY <1>1, <1>2, RestKept
<1>4. CASE HasScript(c)
  <2>1. Slot(c) \in 1..Len(registry)
    <3>1. Slot(c) \in 0..Len(registry) /\ Slot(c) # 0 /\ Len(registry) \in Nat
      BY <1>1, <1>4, SlotFinds DEF HasScript, TypeOK
    <3> QED
      BY <3>1
  <2>2. registry' = RemoveAt(registry, Slot(c))
    BY <1>4 DEF unregister_completion
  <2>3. RegistryIsMap'
    BY <1>1, <2>1, <2>2, RemovalKeepsMap DEF RegistryIsMap
  <2>4. TypeOK'
    BY <1>1, <1>2, <2>1, <2>2, RemovalKeepsMap, Zenon DEF TypeOK, statics
  <2> QED
    BY <1>3, <2>3, <2>4 DEF IInv
<1>5. CASE ~HasScript(c)
  <2>1. registry' = registry
    BY <1>5 DEF unregister_completion
  <2>2. RegistryIsMap' /\ TypeOK'
    BY <1>1, <1>2, <2>1, MapKept, Zenon DEF TypeOK, statics
  <2> QED
    BY <1>3, <2>2 DEF IInv
<1> QED
  BY <1>4, <1>5

\* A new completion begins with nothing collected.
LEMMA PressTabKeeps ==
  ASSUME IInv, NEW t \in Text, NEW c \in Command, NEW w \in Where,
         NEW start \in {0, 1}, NEW rel \in BOOLEAN, PressTab(t, c, w, start, rel)
  PROVE  IInv'
<1>1. TypeOK /\ RegistryIsMap /\ Cache /\ Phases
  BY DEF IInv
<1>2. tab.is \in {"idle", "done"}
  BY DEF PressTab, AtPrompt
<1>3. tab' \in Tab /\ matches' = <<>> /\ printed' = <<>>
  BY DEF PressTab, Tab
<1>4. registry' = registry /\ UNCHANGED statics /\ clean' = clean
  BY DEF PressTab
<1>5. /\ completions' = completions /\ cmp_idx' = cmp_idx /\ phase' = phase
      /\ list_index' = list_index /\ path_pos' = path_pos
  BY <1>4 DEF statics
<1>6. matches' \in Seq(Candidate)
  BY <1>3, EmptySeq, Zenon
<1>7. TypeOK'
  BY <1>1, <1>3, <1>4, <1>5, <1>6, Zenon DEF TypeOK
<1>8. Cache'
  BY <1>1, <1>2, <1>3, <1>4, <1>5 DEF Cache
<1>9. Phases'
  BY <1>3 DEF Phases
<1> QED
  BY <1>1, <1>4, <1>7, <1>8, <1>9, MapKept DEF IInv

\* A list of candidates of which the next is given or, at the end, none is:
\* lines is what the script printed, cmp_idx where the last one ended.
LEMMA NextLineKeeps ==
  ASSUME IInv, tab.is = "external",
         NEW lines \in {<<>>} \cup Outputs, NextLine(lines), printed' = lines,
         matches # <<>> => printed = lines,
         UNCHANGED <<registry, phase, list_index, path_pos>>
  PROVE  IInv' /\ (tab'.is = "done" =>
                     IF clean THEN matches' = printed' ELSE IsSuffix(matches', printed'))
<1>1. TypeOK /\ RegistryIsMap /\ Cache /\ Phases
  BY DEF IInv
<1>2. /\ matches \in Seq(Candidate) /\ Len(matches) \in Nat /\ cmp_idx \in Nat
      /\ lines \in Seq(Candidate) /\ Len(lines) \in Nat /\ tab \in Tab
  <2>1. lines \in Seq(Candidate)
    BY Constants, EmptySeq, Zenon
  <2> QED
    BY <1>1, <2>1 DEF TypeOK
<1>3. /\ Len(matches) =< cmp_idx
      /\ clean => cmp_idx = Len(matches)
      /\ matches # <<>> =>
           /\ cmp_idx =< Len(lines)
           /\ \A k \in 1..Len(matches) : matches[k] = lines[cmp_idx - Len(matches) + k]
  <2>1. CASE matches = <<>>
    BY <1>1, <1>2, <2>1 DEF Cache
  <2>2. CASE matches # <<>>
    BY <1>1, <2>2 DEF Cache
  <2> QED
    BY <2>1, <2>2
<1>4. registry' = registry /\ phase' = phase /\ list_index' = list_index /\ path_pos' = path_pos
  OBVIOUS
<1>5. CASE cmp_idx >= Len(lines)
  <2>1. /\ completions' = Null /\ cmp_idx' = 0 /\ clean' = TRUE
        /\ tab' = [tab EXCEPT !.is = "done"] /\ matches' = matches
    BY <1>5 DEF NextLine, Finish
  <2>2. tab' \in Tab /\ tab'.is = "done"
    BY <1>2, <2>1 DEF Tab
  <2>3. TypeOK'
    BY <1>1, <1>4, <2>1, <2>2, Zenon DEF TypeOK
  <2>4. Cache' /\ Phases'
    BY <2>1, <2>2 DEF Cache, Phases
  <2>5. IInv'
    BY <1>1, <1>4, <2>3, <2>4, MapKept DEF IInv
  <2>6. /\ Len(matches) =< Len(lines)
        /\ \A k \in 1..Len(matches) : matches[k] = lines[Len(lines) - Len(matches) + k]
    <3>1. CASE matches = <<>>
      BY <1>2, <3>1
    <3>2. CASE matches # <<>>
      <4>1. cmp_idx = Len(lines)
        BY <1>2, <1>3, <1>5, <3>2
      <4> QED
        BY <1>3, <3>2, <4>1
    <3> QED
      BY <3>1, <3>2
  <2>7. ASSUME clean PROVE matches = lines
    <3>1. Len(matches) = Len(lines)
      BY <1>2, <1>3, <1>5, <2>6, <2>7
    <3>2. \A k \in 1..Len(matches) : matches[k] = lines[k]
      BY <1>2, <2>6, <3>1
    <3> QED
      BY <1>2, <3>1, <3>2, SeqEqual
  <2>8. IsSuffix(matches, lines)
    BY <1>2, <2>6, SuffixByElements
  <2> QED
    BY <2>1, <2>5, <2>7, <2>8
<1>6. CASE ~(cmp_idx >= Len(lines))
  <2> DEFINE e == lines[cmp_idx + 1]
  <2>1. /\ completions' = Pointer(lines) /\ cmp_idx' = cmp_idx + 1
        /\ tab' = tab /\ matches' = Append(matches, e) /\ clean' = clean
    BY <1>6 DEF NextLine, Collect
  <2>2. cmp_idx + 1 \in 1..Len(lines) /\ cmp_idx + 1 \in Nat
    BY <1>2, <1>6
  <2>3. e \in Candidate
    BY <1>2, <2>2, ElementOfSeq
  <2>4. lines \in Outputs
    BY <1>2, <1>6
  <2> HIDE DEF e
  <2>5. /\ matches' \in Seq(Candidate) /\ matches' # <<>> /\ Len(matches') = Len(matches) + 1
        /\ \A k \in 1..Len(matches) : matches'[k] = matches[k]
        /\ matches'[Len(matches) + 1] = e
    BY <1>2, <2>1, <2>3, AppendProperties
  <2>6. TypeOK'
    BY <1>1, <1>4, <2>1, <2>2, <2>4, <2>5, Zenon DEF TypeOK
  <2>7. ASSUME NEW k \in 1..Len(matches')
        PROVE  matches'[k] = lines[cmp_idx' - Len(matches') + k]
    <3>1. CASE k = Len(matches) + 1
      <4>1. cmp_idx' - Len(matches') + k = cmp_idx + 1
        BY <1>2, <2>1, <2>5, <3>1
      <4> QED
        BY <2>5, <3>1, <4>1 DEF e
    <3>2. CASE k # Len(matches) + 1
      <4>1. k \in 1..Len(matches) /\ matches # <<>>
            /\ cmp_idx' - Len(matches') + k = cmp_idx - Len(matches) + k
        BY <1>2, <2>1, <2>5, <3>2
      <4> QED
        BY <1>3, <2>5, <4>1
    <3> QED
      BY <3>1, <3>2
  <2>8. Len(matches') =< cmp_idx' /\ cmp_idx' =< Len(lines) /\ (clean => cmp_idx' = Len(matches'))
    BY <1>2, <1>3, <2>1, <2>2, <2>5
  <2>9. completions' # Null
    BY <2>1 DEF Null, Pointer
  <2>10. Cache'
    BY <2>1, <2>5, <2>7, <2>8, <2>9 DEF Cache
  <2>11. Phases'
    BY <2>1 DEF Phases
  <2>12. tab'.is # "done"
    BY <2>1
  <2> QED
    BY <1>1, <1>4, <2>6, <2>10, <2>11, <2>12, MapKept DEF IInv
<1> QED
  BY <1>5, <1>6

\* The first call runs the script, whatever an earlier completion left.
LEMMA ScriptRunsKeeps ==
  ASSUME IInv, ScriptRuns
  PROVE  IInv' /\ (tab'.is = "done" =>
                     IF clean THEN matches' = printed' ELSE IsSuffix(matches', printed'))
<1>1. PICK lines \in Outputs : printed' = lines /\ NextLine(lines)
  BY DEF ScriptRuns
<1>2. tab.is = "external" /\ Len(matches) = 0
  BY DEF ScriptRuns, state
<1>3. matches = <<>>
  BY <1>2, EmptySeq DEF IInv, TypeOK
<1>4. UNCHANGED <<registry, phase, list_index, path_pos>>
  BY DEF ScriptRuns
<1> QED
  BY <1>1, <1>2, <1>3, <1>4, NextLineKeeps

\* A later call goes on with the lines of the first.
LEMMA NextCallKeeps ==
  ASSUME IInv, NextCall
  PROVE  IInv' /\ (tab'.is = "done" =>
                     IF clean THEN matches' = printed' ELSE IsSuffix(matches', printed'))
<1>1. /\ tab.is = "external" /\ Len(matches) # 0 /\ NextLine(completions[1])
      /\ printed' = printed /\ UNCHANGED <<registry, phase, list_index, path_pos>>
  BY DEF NextCall, state
<1>2. matches # <<>>
  BY <1>1
<1>3. completions = Pointer(printed) /\ printed \in {<<>>} \cup Outputs
  BY <1>1, <1>2 DEF IInv, Cache, TypeOK
<1>4. NextLine(printed)
  BY <1>1, <1>3 DEF Pointer
<1> QED
  BY <1>1, <1>3, <1>4, NextLineKeeps

\* Without a pipe or a child there are no candidates, and none were printed.
LEMMA ScriptFailsKeeps ==
  ASSUME IInv, ScriptFails
  PROVE  IInv' /\ matches' = <<>> /\ printed' = <<>>
<1>1. TypeOK /\ RegistryIsMap /\ Cache
  BY DEF IInv
<1>2. /\ tab.is = "external" /\ Len(matches) = 0 /\ completions' = Null /\ clean' = TRUE
      /\ cmp_idx' = IF completions = Null THEN cmp_idx ELSE 0
      /\ tab' = [tab EXCEPT !.is = "done"] /\ matches' = matches /\ printed' = printed
      /\ registry' = registry /\ phase' = phase /\ list_index' = list_index
      /\ path_pos' = path_pos
  BY DEF ScriptFails, Finish, state
<1>3. matches = <<>> /\ printed = <<>>
  BY <1>1, <1>2, EmptySeq DEF TypeOK, Cache
<1>4. cmp_idx' = 0
  BY <1>1, <1>2 DEF Cache
<1>5. tab' \in Tab /\ tab'.is = "done"
  BY <1>1, <1>2 DEF TypeOK, Tab
<1>6. TypeOK'
  <2>1. cmp_idx' \in Nat
    BY <1>4
  <2> QED
    BY <1>1, <1>2, <1>5, <2>1, Zenon DEF TypeOK
<1>7. Cache' /\ Phases'
  BY <1>4, <1>5 DEF Cache, Phases
<1> QED
  BY <1>1, <1>2, <1>3, <1>6, <1>7, MapKept DEF IInv

\* find_current_word does not return.
LEMMA HangKeeps ==
  ASSUME IInv, Hang
  PROVE  IInv' /\ tab'.is = "hung"
<1>1. TypeOK /\ RegistryIsMap /\ Cache
  BY DEF IInv
<1>2. /\ tab.is = "external" /\ Len(matches) = 0 /\ tab' = [tab EXCEPT !.is = "hung"]
      /\ UNCHANGED <<registry, statics, matches, printed, clean>>
  BY DEF Hang, state
<1>3. matches = <<>> /\ tab' \in Tab /\ tab'.is = "hung"
  BY <1>1, <1>2, EmptySeq DEF TypeOK, Tab
<1>4. TypeOK'
  BY <1>1, <1>2, <1>3, Zenon DEF TypeOK, statics
<1>5. Cache' /\ Phases'
  BY <1>1, <1>2, <1>3 DEF Cache, Phases, statics
<1> QED
  BY <1>1, <1>2, <1>3, <1>4, <1>5, MapKept DEF IInv

\* Readline gives a completion up: what the static variables hold stays.
LEMMA GiveUpKeeps ==
  ASSUME IInv, GiveUp
  PROVE  IInv' /\ tab'.is = "idle"
<1>1. TypeOK /\ RegistryIsMap /\ Cache
  BY DEF IInv
<1>2. /\ tab.is \in {"first", "external"} /\ tab' = [tab EXCEPT !.is = "idle"]
      /\ matches' = <<>> /\ clean' = (clean /\ tab.is = "first")
      /\ UNCHANGED <<registry, statics, printed>>
  BY DEF GiveUp, InTab
<1>3. tab' \in Tab /\ tab'.is = "idle" /\ matches' \in Seq(Candidate) /\ clean' \in BOOLEAN
  BY <1>1, <1>2, EmptySeq DEF TypeOK, Tab
<1>4. TypeOK'
  BY <1>1, <1>2, <1>3, Zenon DEF TypeOK, statics
<1>5. Cache' /\ Phases'
  BY <1>1, <1>2, <1>3 DEF Cache, Phases, statics
<1> QED
  BY <1>1, <1>2, <1>3, <1>4, <1>5, MapKept DEF IInv

-----------------------------------------------------------------------------
(* The first word. *)

\* NextBuiltin is the next builtin that fits, the last of the table aside.
LEMMA NextBuiltinFits ==
  ASSUME TypeOK, NEW from \in Nat, from = IF state = 0 THEN 0 ELSE list_index
  PROVE  /\ NextBuiltin = 0 =>
              \A k \in (from + 1)..(Len(Builtins) - 1) : Builtins[k] \notin Begins[tab.text]
         /\ NextBuiltin # 0 =>
              /\ NextBuiltin \in (from + 1)..(Len(Builtins) - 1)
              /\ Builtins[NextBuiltin] \in Begins[tab.text]
              /\ \A k \in (from + 1)..(NextBuiltin - 1) : Builtins[k] \notin Begins[tab.text]
<1> DEFINE fits == {k \in (from + 1)..(Len(Builtins) - 1) : Builtins[k] \in Begins[tab.text]}
<1>1. NextBuiltin = IF fits = {} THEN 0 ELSE Min(fits)
  BY DEF NextBuiltin
<1>2. fits # {} => Min(fits) \in fits /\ \A k \in fits : Min(fits) =< k
  <2>1. fits \in SUBSET Nat
    BY Constants
  <2> HIDE DEF fits
  <2> QED
    BY <2>1, MinInSet
<1>3. CASE fits = {}
  BY <1>1, <1>3
<1>4. CASE fits # {}
  <2>1. NextBuiltin \in fits /\ \A k \in fits : NextBuiltin =< k
    BY <1>1, <1>2, <1>4
  <2>2. NextBuiltin # 0
    BY <2>1, Constants
  <2>3. \A k \in (from + 1)..(NextBuiltin - 1) : k \notin fits /\ k \in (from + 1)..(Len(Builtins) - 1)
    BY <2>1, Constants
  <2> QED
    BY <2>1, <2>2, <2>3
<1> QED
  BY <1>3, <1>4

\* NextOnPath is the next executable that fits.
LEMMA NextOnPathFits ==
  ASSUME NEW from \in Nat
  PROVE  /\ NextOnPath(from) = 0 =>
              \A k \in (from + 1)..Len(OnPath) : OnPath[k] \notin Begins[tab.text]
         /\ NextOnPath(from) # 0 =>
              /\ NextOnPath(from) \in (from + 1)..Len(OnPath)
              /\ OnPath[NextOnPath(from)] \in Begins[tab.text]
              /\ \A k \in (from + 1)..(NextOnPath(from) - 1) : OnPath[k] \notin Begins[tab.text]
<1> DEFINE fits == {k \in (from + 1)..Len(OnPath) : OnPath[k] \in Begins[tab.text]}
           next == NextOnPath(from)
<1>1. next = IF fits = {} THEN 0 ELSE Min(fits)
  BY DEF NextOnPath
<1>2. fits # {} => Min(fits) \in fits /\ \A k \in fits : Min(fits) =< k
  <2>1. fits \in SUBSET Nat
    BY Constants
  <2> HIDE DEF fits
  <2> QED
    BY <2>1, MinInSet
<1>3. CASE fits = {}
  BY <1>1, <1>3
<1>4. CASE fits # {}
  <2>1. next \in fits /\ \A k \in fits : next =< k
    BY <1>1, <1>2, <1>4
  <2>2. next # 0
    BY <2>1, Constants
  <2>3. \A k \in (from + 1)..(next - 1) : k \notin fits /\ k \in (from + 1)..Len(OnPath)
    BY <2>1, Constants
  <2> QED
    BY <2>1, <2>2, <2>3
<1> QED
  BY <1>3, <1>4

\* Where builtin_generator goes on, readline has the builtins before.
LEMMA BuiltinsSoFar ==
  ASSUME IInv, tab.is = "first", PhaseNow = 0,
         NEW from, from = IF state = 0 THEN 0 ELSE list_index
  PROVE  /\ from \in 0..(Len(Builtins) - 1)
         /\ matches = Fitting(Builtins, tab.text, from)
<1>1. CASE state = 0
  <2>1. matches = <<>> /\ from = 0
    BY <1>1, EmptySeq DEF state, IInv, TypeOK
  <2> QED
    BY <2>1, Constants, FittingSteps
<1>2. CASE state # 0
  <2>1. matches # <<>> /\ from = list_index /\ phase = 0
    BY <1>2 DEF state, PhaseNow
  <2> QED
    BY <2>1, Constants DEF IInv, Phases
<1> QED
  BY <1>1, <1>2

\* Once they have come to their end, readline has all of them and the
\* executables before the place where path_generator goes on.
LEMMA BuiltinsDone ==
  ASSUME IInv, tab.is = "first", ~(PhaseNow = 0 /\ NextBuiltin # 0),
         NEW from, from = IF PhaseNow = 0 \/ state = 0 THEN 0 ELSE path_pos
  PROVE  /\ from \in 0..Len(OnPath)
         /\ matches = Fitting(Builtins, tab.text, Len(Builtins) - 1)
                        \o Fitting(OnPath, tab.text, from)
<1>1. CASE PhaseNow = 0
  <2> DEFINE b == IF state = 0 THEN 0 ELSE list_index
             last == Len(Builtins) - 1
  <2>1. b \in 0..last /\ matches = Fitting(Builtins, tab.text, b)
    BY <1>1, BuiltinsSoFar
  <2>2. \A k \in (b + 1)..last : Builtins[k] \notin Begins[tab.text]
    <3>1. b \in Nat /\ TypeOK /\ NextBuiltin = 0
      BY <1>1, <2>1 DEF IInv
    <3> QED
      BY <3>1, NextBuiltinFits
  <2>3. Fitting(Builtins, tab.text, last) = Fitting(Builtins, tab.text, b)
    <3>1. b \in 0..Len(Builtins) /\ last \in b..Len(Builtins)
      BY <2>1, Constants
    <3> HIDE DEF b, last
    <3> QED
      BY <2>2, <3>1, Constants, FittingSkips
  <2>4. matches \in Seq(Candidate)
    BY DEF IInv, TypeOK
  <2>5. from = 0 /\ Fitting(OnPath, tab.text, 0) = <<>>
    BY <1>1, Constants, FittingSteps
  <2>6. matches = matches \o <<>>
    BY <2>4, ConcatEmptySeq
  <2>7. from \in 0..Len(OnPath)
    BY <2>5, Constants
  <2> QED
    BY <2>1, <2>3, <2>5, <2>6, <2>7, Zenon
<1>2. CASE PhaseNow # 0
  <2>1. state # 0 /\ phase # 0 /\ matches # <<>> /\ from = path_pos
    BY <1>2 DEF PhaseNow, state
  <2> QED
    BY <2>1, Constants DEF IInv, Phases
<1> QED
  BY <1>1, <1>2

\* first_word_generator gives the next builtin or executable that fits, or
\* null when readline has them all.
LEMMA FirstWordKeeps ==
  ASSUME IInv, FirstWordCall
  PROVE  IInv' /\ (tab'.is = "done" => matches' = FirstWords)
<1>1. TypeOK /\ RegistryIsMap /\ Cache /\ Phases /\ tab.is = "first"
  BY DEF IInv, FirstWordCall
<1>2. /\ registry' = registry /\ completions' = completions /\ cmp_idx' = cmp_idx
      /\ printed' = printed
  BY DEF FirstWordCall
<1>3. matches \in Seq(Candidate) /\ tab \in Tab
  BY <1>1 DEF TypeOK
<1>4. \A k \in 1..Len(Builtins) : Builtins[k] \in Candidate
  BY Constants, ElementOfSeq
<1>5. \A k \in 1..Len(OnPath) : OnPath[k] \in Candidate
  BY Constants, ElementOfSeq
<1>6. CASE PhaseNow = 0 /\ NextBuiltin # 0
  <2> DEFINE from == IF state = 0 THEN 0 ELSE list_index
             next == NextBuiltin
             e    == Builtins[next]
  <2>1. /\ phase' = 0 /\ list_index' = next /\ path_pos' = path_pos
        /\ matches' = Append(matches, e) /\ tab' = tab /\ clean' = clean
    BY <1>6 DEF FirstWordCall, Collect
  <2>2. from \in 0..(Len(Builtins) - 1) /\ matches = Fitting(Builtins, tab.text, from)
    BY <1>1, <1>6, BuiltinsSoFar
  <2>3. /\ next \in (from + 1)..(Len(Builtins) - 1) /\ e \in Begins[tab.text]
        /\ \A k \in (from + 1)..(next - 1) : Builtins[k] \notin Begins[tab.text]
    <3>1. from \in Nat
      BY <2>2
    <3> QED
      BY <1>1, <1>6, <3>1, NextBuiltinFits
  <2> HIDE DEF from, next
  <2>4. /\ next \in 1..(Len(Builtins) - 1) /\ next \in 0..Len(Builtins)
        /\ next \in (from + 1)..Len(Builtins) /\ from \in 0..Len(Builtins)
        /\ next \in 1..Len(Builtins)
    BY <2>2, <2>3, Constants
  <2>5. Fitting(Builtins, tab.text, next) = Append(matches, e)
    BY <2>2, <2>3, <2>4, Constants, FittingNext
  <2>6. matches' \in Seq(Candidate) /\ matches' # <<>>
    BY <1>3, <1>4, <2>1, <2>4, AppendProperties
  <2>7. TypeOK'
    BY <1>1, <1>2, <2>1, <2>4, <2>6 DEF TypeOK
  <2>8. Cache'
    BY <1>1, <1>2, <2>1 DEF Cache
  <2>9. Phases'
    BY <2>1, <2>4, <2>5 DEF Phases
  <2> QED
    BY <1>1, <1>2, <2>1, <2>7, <2>8, <2>9, MapKept DEF IInv
<1>7. CASE ~(PhaseNow = 0 /\ NextBuiltin # 0)
  <2> DEFINE from == IF PhaseNow = 0 \/ state = 0 THEN 0 ELSE path_pos
             next == NextOnPath(from)
             e    == OnPath[next]
             all  == Fitting(Builtins, tab.text, Len(Builtins) - 1)
  <2>1. /\ phase' = 1 /\ list_index' = (IF PhaseNow = 0 THEN Len(Builtins) ELSE list_index)
        /\ path_pos' = next
        /\ IF next # 0 THEN Collect(e) ELSE Finish /\ clean' = clean
    BY <1>7 DEF FirstWordCall
  <2>2. /\ from \in 0..Len(OnPath)
        /\ matches = all \o Fitting(OnPath, tab.text, from)
    BY <1>1, <1>7, BuiltinsDone
  <2>3. /\ next = 0 => \A k \in (from + 1)..Len(OnPath) : OnPath[k] \notin Begins[tab.text]
        /\ next # 0 =>
             /\ next \in (from + 1)..Len(OnPath)
             /\ e \in Begins[tab.text]
             /\ \A k \in (from + 1)..(next - 1) : OnPath[k] \notin Begins[tab.text]
    <3>1. from \in Nat
      BY <2>2
    <3> HIDE DEF from
    <3> QED
      BY <3>1, NextOnPathFits
  <2> HIDE DEF from, next
  <2>4. list_index' \in 0..Len(Builtins) /\ phase' \in {0, 1}
    BY <1>1, <2>1, Constants DEF TypeOK
  <2>5. CASE next # 0
    <3>1. matches' = Append(matches, e) /\ tab' = tab /\ clean' = clean
      BY <2>1, <2>5 DEF Collect
    <3>2. next \in 1..Len(OnPath) /\ next \in 0..Len(OnPath)
      BY <2>2, <2>3, <2>5, Constants
    <3>3. Fitting(OnPath, tab.text, next) = Append(Fitting(OnPath, tab.text, from), e)
      BY <2>2, <2>3, <2>5, Constants, FittingNext
    <3>4. e \in Candidate
      BY <1>5, <3>2
    <3>5. all \in Seq(Candidate) /\ Fitting(OnPath, tab.text, from) \in Seq(Candidate)
      <4>1. Len(Builtins) - 1 \in 0..Len(Builtins)
        BY Constants
      <4> QED
        BY <2>2, <4>1, Constants, FittingTyped
    <3> HIDE DEF all, e
    <3>6. matches' = all \o Fitting(OnPath, tab.text, next)
      BY <2>2, <3>1, <3>3, <3>4, <3>5, AppendToBoth
    <3>7. matches' \in Seq(Candidate) /\ matches' # <<>>
      BY <1>3, <3>1, <3>4, AppendProperties
    <3>8. TypeOK'
      BY <1>1, <1>2, <2>1, <2>4, <3>1, <3>2, <3>7, Zenon DEF TypeOK
    <3>9. Cache'
      BY <1>1, <1>2, <3>1 DEF Cache
    <3>10. Phases'
      BY <2>1, <3>1, <3>2, <3>6 DEF Phases, all
    <3> QED
      BY <1>1, <1>2, <3>1, <3>8, <3>9, <3>10, MapKept DEF IInv
  <2>6. CASE next = 0
    <3>1. tab' = [tab EXCEPT !.is = "done"] /\ matches' = matches /\ clean' = clean
      BY <2>1, <2>6 DEF Finish
    <3>2. tab' \in Tab /\ tab'.is = "done"
      BY <1>3, <3>1 DEF Tab
    <3>3. Fitting(OnPath, tab.text, Len(OnPath)) = Fitting(OnPath, tab.text, from)
      <4>1. Len(OnPath) \in from..Len(OnPath)
        BY <2>2, Constants
      <4> QED
        BY <2>2, <2>3, <2>6, <4>1, Constants, FittingSkips
    <3>4. matches' = FirstWords
      BY <2>2, <3>1, <3>3 DEF FirstWords
    <3>5. path_pos' \in 0..Len(OnPath)
      BY <2>1, <2>6, Constants
    <3>6. TypeOK'
      BY <1>1, <1>2, <2>4, <3>1, <3>2, <3>5, Zenon DEF TypeOK
    <3>7. Cache' /\ Phases'
      BY <1>1, <1>2, <3>1, <3>2 DEF Cache, Phases
    <3> QED
      BY <1>1, <1>2, <3>4, <3>6, <3>7, MapKept DEF IInv
  <2> QED
    BY <2>5, <2>6
<1> QED
  BY <1>6, <1>7

-----------------------------------------------------------------------------
(* The theorems. *)

\* Every step keeps the invariant.
LEMMA NextKeeps == IInv /\ [Next]_vars => IInv'
<1> SUFFICES ASSUME IInv, [Next]_vars PROVE IInv'
  OBVIOUS
<1>1. CASE \E c \in Command, s \in Script : register_completion(c, s)
  BY <1>1, RegisterKeeps
<1>2. CASE \E c \in Command : unregister_completion(c)
  BY <1>2, UnregisterKeeps
<1>3. CASE \E t \in Text, c \in Command, w \in Where, start \in {0, 1}, rel \in BOOLEAN :
             PressTab(t, c, w, start, rel)
  BY <1>3, PressTabKeeps
<1>4. CASE GeneratorCall
  BY <1>4, FirstWordKeeps, ScriptRunsKeeps, ScriptFailsKeeps, HangKeeps, NextCallKeeps
     DEF GeneratorCall
<1>5. CASE GiveUp
  BY <1>5, GiveUpKeeps
<1>6. CASE UNCHANGED vars
  <2>1. registry' = registry /\ UNCHANGED <<statics, tab, matches, printed, clean>>
    BY <1>6 DEF vars
  <2>2. Cache' /\ Phases' /\ RegistryIsMap'
    BY <2>1, RestKept, MapKept DEF IInv
  <2>3. TypeOK'
    BY <2>1, Zenon DEF IInv, TypeOK, statics
  <2> QED
    BY <2>2, <2>3 DEF IInv
<1> QED
  BY <1>1, <1>2, <1>3, <1>4, <1>5, <1>6, Zenon DEF Next

\* The inductive invariant holds in every reachable state.
THEOREM CompletionInvariant == Spec => []IInv
BY InvInit, NextKeeps, PTL DEF Spec

\* The static variables of the generators stay within the tables they index,
\* and the registry within its array, for every MAX_COMPLETIONS.
THEOREM TypeCorrect == Spec => []TypeOK
<1>1. IInv => TypeOK
  BY DEF IInv
<1> QED
  BY <1>1, CompletionInvariant, PTL

\* No sequence of complete -C and complete -r leaves two entries for a command
\* (register_completion, unregister_completion).
THEOREM OneScriptEach == Spec => []RegistryIsMap
<1>1. IInv => RegistryIsMap
  BY DEF IInv
<1> QED
  BY <1>1, CompletionInvariant, PTL

\* A completion by a script offers what this script has just printed, whatever
\* the script and the completions before (external_completer_generator).
THEOREM ScriptsAreObeyed == Spec => OffersWhatWasPrinted
<1> DEFINE A == tab.is = "external" /\ tab'.is = "done" =>
                  IF clean THEN matches' = printed' ELSE IsSuffix(matches', printed')
<1>1. IInv /\ [Next]_vars => [A]_vars
  <2> SUFFICES ASSUME IInv, Next, tab.is = "external", tab'.is = "done"
               PROVE  A
    OBVIOUS
  <2>1. ~AtPrompt /\ tab' # tab
    BY DEF AtPrompt
  <2>2. GeneratorCall \/ GiveUp
    BY <2>1 DEF Next, register_completion, unregister_completion, PressTab, vars
  <2>3. CASE ScriptRuns \/ NextCall
    BY <2>3, ScriptRunsKeeps, NextCallKeeps
  <2>4. CASE ScriptFails
    <3>1. matches' = <<>> /\ printed' = <<>>
      BY <2>4, ScriptFailsKeeps
    <3>2. <<>> \in Seq(Candidate)
      BY EmptySeq
    <3>3. ASSUME NEW e \in Seq(Candidate) PROVE IsSuffix(e, e)
      <4>1. Len(e) \in Nat /\ \A k \in 1..Len(e) : Len(e) - Len(e) + k = k
        OBVIOUS
      <4> QED
        BY <4>1, SuffixByElements
    <3>4. IsSuffix(matches', printed')
      BY <3>1, <3>2, <3>3, Zenon
    <3> QED
      BY <3>1, <3>4
  <2>5. ~FirstWordCall /\ ~Hang /\ ~GiveUp
    BY HangKeeps, GiveUpKeeps DEF FirstWordCall
  <2> QED
    BY <2>2, <2>3, <2>4, <2>5 DEF GeneratorCall
<1> QED
  BY <1>1, CompletionInvariant, PTL DEF Spec, OffersWhatWasPrinted

\* The first word is completed with all that fits, for every table, PATH and
\* text, and whatever completions were given up before
\* (first_word_generator, builtin_generator, path_generator).
THEOREM FirstWordsAreComplete == Spec => FirstWordIsComplete
<1> DEFINE A == tab.is = "first" /\ tab'.is = "done" => matches' = FirstWords
<1>1. IInv /\ [Next]_vars => [A]_vars
  <2> SUFFICES ASSUME IInv, Next, tab.is = "first", tab'.is = "done"
               PROVE  matches' = FirstWords
    OBVIOUS
  <2>1. ~AtPrompt /\ tab' # tab
    BY DEF AtPrompt
  <2>2. GeneratorCall \/ GiveUp
    BY <2>1 DEF Next, register_completion, unregister_completion, PressTab, vars
  <2>3. FirstWordCall
    BY <2>2, GiveUpKeeps DEF GeneratorCall, ScriptRuns, ScriptFails, Hang, NextCall
  <2> QED
    BY <2>3, FirstWordKeeps
<1> QED
  BY <1>1, CompletionInvariant, PTL DEF Spec, FirstWordIsComplete
=============================================================================
