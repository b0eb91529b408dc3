------------------------------ MODULE EvalProofs -----------------------------
(***************************************************************************)
(* What a line asks for is what is run, for lines of any length and any    *)
(* number of processes: no pipeline twice by the shell and those it        *)
(* forked, nor by a copy that came back from execvp and those that one     *)
(* forked; each process in the order of the text; and a chain in the       *)
(* processes its separator asks for, without operators to its end.         *)
(*                                                                         *)
(* Built says what the parser has made of the tokens it has read: the      *)
(* pipelines begin where they stand in the text, and each separator is     *)
(* that of the element before it.  UnderWay says of each process where it  *)
(* is in the list (Place), that what is left to it lies behind the token   *)
(* it was forked at (Ahead), and how it stands to those of the same root   *)
(* (Kin): one of them runs the list, each other an element the list is     *)
(* past.  Ran says that every pipeline that was run lies behind the place  *)
(* of the process that ran it, and Served the converse for chains of one   *)
(* pipeline.                                                               *)
(*                                                                         *)
(* The second part is about the words: none is dropped, and each is        *)
(* expanded behind the assignments it waits for.  FlattenSeq, with which   *)
(* the model walks over all commands, is unfolded at its end, where the    *)
(* parser adds; Held says that the words of a command stand together in    *)
(* the text, and Expansion what the first commands have left behind.       *)
(***************************************************************************)
EXTENDS Eval, SequenceTheorems, WellFoundedInduction, TLAPS

Start(i, j) == list[i].andor[j].pipeline.start
Links(i)    == 1..Len(list[i].andor)

\* The line: only its last token is "eof".
Text ==
    /\ Len(tokens) \in 1..(MaxElements + 1)
    /\ \A k \in Position : tokens[k] = "eof" <=> k = Len(tokens)

\* Pipelines begin further and further to the right.
Increasing ==
    /\ \A i \in Elements : \A j \in Links(i) : Start(i, j) =< pos
    /\ \A i \in Elements : \A j, k \in Links(i) : j < k => Start(i, j) < Start(i, k)
    /\ \A i, m \in Elements : i < m =>
         \A j \in Links(i), k \in Links(m) : Start(i, j) < Start(m, k)

\* The element of the text that ends with "&" is the one the list marks.
Marked == \A i \in Elements : LastToken(i) = "amp" <=> list[i].sep = "amp"

\* The last pipeline of a chain has no operator on its right.
LastIsPlain == \A i \in Elements : list[i].andor[Len(list[i].andor)].op = "none"

\* While the parser works the last element has no separator yet, and there
\* are not more elements than tokens.
Open ==
    pc[Shell] = "parse" => list[Len(list)].sep = "none" /\ Len(list) =< pos

Built == Increasing /\ Marked /\ LastIsPlain /\ Open

\* Until the list is executed no process has moved.
Fresh ==
    pc[Shell] \in {"parse", "segv", "expand"} =>
      /\ local = [p \in Proc |-> FirstFrame(p)] /\ ran = <<>>
      /\ \A p \in Proc : p # Shell => pc[p] = "unborn"
      /\ pc[Shell] # "expand" => expanded = 0

Born(p) == pc[p] # "unborn"

\* Element i is for process p: "&" gives it to the children forked for it.
Mine(p, i) == local[p].job = IF list[i].sep = "amp" THEN i ELSE 0

\* Process p is past pipeline j of element i, and if the element is its own,
\* the pipeline lies behind it.
Passed(p, i, j) ==
    \/ i < local[p].li
    \/ /\ i = local[p].li /\ pc[p] \in {"andor", "pipes", "exited", "ended"}
       /\ j < local[p].ai

Behind(p, i, j) == Mine(p, i) /\ Passed(p, i, j)

\* Where a process is: in a chain that is for it, in the list or behind it if
\* it was forked for no chain, and at that chain if it was.
Place(p) ==
    /\ local[p].li =< Len(list) + 1
    /\ pc[p] \in {"andor", "pipes"} => local[p].li =< Len(list) /\ Mine(p, local[p].li)
    /\ pc[p] = "pipes" => local[p].ai - 1 \in Links(local[p].li)
    /\ pc[p] \in {"list", "done"} => local[p].job = 0
    /\ pc[p] = "done" => local[p].li = Len(list) + 1
    /\ pc[p] = "exited" => local[p].job # 0
    /\ local[p].job # 0 =>
         /\ local[p].li = local[p].job /\ local[p].job =< Len(list)
         /\ pc[p] \in {"exited", "ended"} /\ Len(list[local[p].job].andor) = 1 =>
              local[p].ai > 1

\* All that a process has still to come to lies behind the token it was
\* forked at.
Ahead(p) ==
    pc[p] \in {"list", "andor", "pipes"} =>
      \A i \in Elements : \A j \in Links(i) :
        ~Passed(p, i, j) => local[p].after < Start(i, j)

\* Of those that came of the same process none but one runs the list, and each
\* of the others was forked for another element, which that one is past.
Kin(p, q) ==
    local[p].root = local[q].root =>
      /\ local[p].job = local[q].job => p = q
      /\ local[p].job = 0 /\ local[q].job # 0 => local[q].job < local[p].li

UnderWay ==
    \A p \in Proc : Born(p) =>
      /\ Place(p) /\ Ahead(p) /\ Born(local[p].root)
      /\ \A q \in Proc : Born(q) => Kin(p, q)

Ran ==
    \A a \in 1..Len(ran) : \E p \in Proc, i \in Elements : \E j \in Links(i) :
      /\ ran[a].proc = p /\ ran[a].start = Start(i, j)
      /\ ~Empty(list[i].andor[j].pipeline)
      /\ Born(p) /\ Behind(p, i, j) /\ local[p].after < Start(i, j)

\* A chain of one pipeline that lies behind a process, and not behind the
\* token the process was forked at, has been run by it.
ServedBy(p) ==
    \A i \in Elements :
      Len(list[i].andor) = 1 /\ Behind(p, i, 1) /\ local[p].after < Start(i, 1) =>
        Asked(i) \subseteq RanBy(p)

Served == \A p \in Proc : Born(p) => ServedBy(p)

IInv == TypeOK /\ Text /\ Built /\ Fresh /\ UnderWay /\ Ran /\ Served /\ InOrderOnce

-----------------------------------------------------------------------------
(* Numbers, and sequences of sequences. *)

\* A set of numbers has a least element.
LEMMA LeastNumber ==
  ASSUME NEW S \in SUBSET Nat, S # {}
  PROVE  \E x \in S : \A y \in S : x =< y
<1>1. PICK x \in S : \A y \in S : ~ (<<y, x>> \in OpToRel(<, Nat))
  BY NatLessThanWellFounded, WFMin, Zenon
<1>2. \A y, z \in Nat : y < z => <<y, z>> \in OpToRel(<, Nat)
  BY Zenon DEF OpToRel
<1>3. \A y \in S : x =< y
  <2> SUFFICES ASSUME NEW y \in S PROVE x =< y
    OBVIOUS
  <2>1. ~ (y < x)
    BY <1>1, <1>2, Zenon
  <2> QED
    BY <2>1
<1> QED
  BY <1>3

\* Induction over the numbers of a set, from 1.
LEMMA SetInduction ==
  ASSUME NEW S \in SUBSET Nat, 1 \in S, \A k \in S : k + 1 \in S
  PROVE  \A k \in Nat \ {0} : k \in S
<1>1. ASSUME NEW k \in Nat \ {0}, k \notin S PROVE FALSE
  <2> DEFINE T == (Nat \ {0}) \ S
  <2>1. PICK x \in T : \A y \in T : x =< y
    <3> HIDE DEF T
    <3>1. T \in SUBSET Nat /\ T # {}
      BY <1>1 DEF T
    <3> QED
      BY <3>1, LeastNumber
  <2>2. x \in Nat \ {0} /\ x # 1 /\ x-1 \in Nat \ {0} /\ x-1 \in S
    BY <2>1
  <2>3. (x-1) + 1 \in S /\ (x-1) + 1 = x
    BY <2>2
  <2> QED
    BY <2>1, <2>3
<1> QED
  BY <1>1

\* f is the function that FlattenSeq defines, up to m.
IsFlat(f, seqs, m) ==
    f = [i \in 1..m |-> IF i = 1 THEN seqs[i] ELSE f[i-1] \o seqs[i]]

Flat(seqs) == CHOOSE f : IsFlat(f, seqs, Len(seqs))

\* The function that FlattenSeq defines by recursion exists: the one up to m
\* can be continued by one.
LEMMA FlatExists ==
  ASSUME NEW seqs, Len(seqs) \in Nat \ {0}
  PROVE  IsFlat(Flat(seqs), seqs, Len(seqs))
<1> DEFINE Good == {m \in Nat \ {0} : \E f : IsFlat(f, seqs, m)}
<1>1. 1 \in Good
  <2> DEFINE f == [i \in 1..1 |-> seqs[1]]
  <2>1. IsFlat(f, seqs, 1)
    BY DEF IsFlat
  <2> QED
    BY <2>1
<1>2. ASSUME NEW l \in Good PROVE l + 1 \in Good
  <2> DEFINE m == l + 1
  <2>1. l \in Nat \ {0}
    OBVIOUS
  <2>2. PICK f : IsFlat(f, seqs, l)
    OBVIOUS
  <2> DEFINE g == [i \in 1..m |-> IF i = m THEN f[l] \o seqs[m] ELSE f[i]]
  <2>3. \A i \in 1..l : f[i] = IF i = 1 THEN seqs[i] ELSE f[i-1] \o seqs[i]
    BY <2>2 DEF IsFlat
  <2>4. \A i \in 1..l : g[i] = f[i]
    BY <2>1
  <2>5. g[m] = g[m-1] \o seqs[m]
    <3>1. m-1 = l /\ l \in 1..l /\ m \in 1..m
      BY <2>1
    <3>2. g[l] = f[l] /\ g[m] = f[l] \o seqs[m]
      BY <2>4, <3>1
    <3> QED
      BY <3>1, <3>2
  <2>6. \A i \in 1..m : g[i] = IF i = 1 THEN seqs[i] ELSE g[i-1] \o seqs[i]
    <3> SUFFICES ASSUME NEW i \in 1..m
                 PROVE  g[i] = IF i = 1 THEN seqs[i] ELSE g[i-1] \o seqs[i]
      OBVIOUS
    <3> HIDE DEF g
    <3>1. CASE i = m
      <4>1. i # 1
        BY <3>1, <2>1
      <4> QED
        BY <3>1, <4>1, <2>5
    <3>2. CASE i = 1
      <4>1. 1 \in 1..l
        BY <2>1
      <4> QED
        BY <3>2, <4>1, <2>3, <2>4
    <3>3. CASE i # m /\ i # 1
      <4>1. i \in 1..l /\ i-1 \in 1..l
        BY <2>1, <3>3
      <4>2. g[i] = f[i] /\ g[i-1] = f[i-1] /\ f[i] = f[i-1] \o seqs[i]
        BY <2>3, <2>4, <4>1, <3>3
      <4> QED
        BY <4>2, <3>3
    <3> QED
      BY <3>1, <3>2, <3>3
  <2>7. g = [i \in 1..m |-> g[i]]
    OBVIOUS
  <2>8. IsFlat(g, seqs, m)
    <3> HIDE DEF g
    <3> QED BY <2>6, <2>7 DEF IsFlat
  <2> QED
    BY <2>1, <2>8
<1>3. Len(seqs) \in Good
  <2> HIDE DEF Good
  <2>1. Good \in SUBSET Nat
    BY DEF Good
  <2> QED
    BY <1>1, <1>2, <2>1, SetInduction
<1> QED
  BY <1>3 DEF Flat

\* A flattened sequence holds what the sequences in it hold.
LEMMA FlattenTyped ==
  ASSUME NEW S, NEW seqs \in Seq(Seq(S))
  PROVE  FlattenSeq(seqs) \in Seq(S)
<1>1. CASE Len(seqs) = 0
  <2>1. FlattenSeq(seqs) = seqs
    BY <1>1 DEF FlattenSeq
  <2>2. seqs = <<>>
    BY <1>1
  <2> QED
    BY <2>1, <2>2
<1>2. CASE Len(seqs) # 0
  <2> DEFINE f    == Flat(seqs)
             Good == {m \in Nat \ {0} : m =< Len(seqs) => f[m] \in Seq(S)}
  <2>1. Len(seqs) \in Nat \ {0}
    BY <1>2
  <2>2. FlattenSeq(seqs) = f[Len(seqs)]
    BY <1>2 DEF FlattenSeq, Flat, IsFlat
  <2>3. \A i \in 1..Len(seqs) : f[i] = IF i = 1 THEN seqs[i] ELSE f[i-1] \o seqs[i]
    <3>1. f = [i \in 1..Len(seqs) |-> IF i = 1 THEN seqs[i] ELSE f[i-1] \o seqs[i]]
      BY <2>1, FlatExists DEF IsFlat
    <3> HIDE DEF f
    <3> QED
      BY <3>1
  <2>4. \A i \in 1..Len(seqs) : seqs[i] \in Seq(S)
    BY ElementOfSeq
  <2> HIDE DEF f
  <2>5. 1 \in Good
    BY <2>1, <2>3, <2>4
  <2>6. ASSUME NEW k \in Good PROVE k + 1 \in Good
    <3>1. k \in Nat \ {0} /\ (k =< Len(seqs) => f[k] \in Seq(S))
      OBVIOUS
    <3>2. CASE k + 1 =< Len(seqs)
      <4>1. k + 1 \in 1..Len(seqs) /\ k =< Len(seqs) /\ k + 1 # 1 /\ (k+1)-1 = k
        BY <2>1, <3>1, <3>2
      <4>2. f[k+1] = f[k] \o seqs[k+1] /\ f[k] \in Seq(S) /\ seqs[k+1] \in Seq(S)
        BY <2>3, <2>4, <3>1, <4>1
      <4>3. f[k+1] \in Seq(S)
        BY <4>2, ConcatProperties
      <4> QED
        BY <3>1, <4>3
    <3>3. CASE ~(k + 1 =< Len(seqs))
      BY <3>1, <3>3
    <3> QED
      BY <3>2, <3>3
  <2>7. Len(seqs) \in Good
    <3> HIDE DEF Good
    <3>1. Good \in SUBSET Nat
      BY DEF Good
    <3> QED
      BY <2>1, <2>5, <2>6, <3>1, SetInduction
  <2> QED
    BY <2>1, <2>2, <2>7
<1> QED
  BY <1>1, <1>2

-----------------------------------------------------------------------------
(* The list. *)

\* What a list under construction is made of.
LEMMA ListFacts ==
  ASSUME TypeOK
  PROVE  /\ Len(list) \in Nat /\ Len(list) >= 1 /\ Len(list) =< MaxElements
         /\ Elements = 1..Len(list)
         /\ \A i \in Elements :
              /\ list[i] \in Element
              /\ list[i].sep \in {"none", "semi", "amp"}
              /\ list[i].andor \in Seq(Link)
              /\ Len(list[i].andor) \in Nat /\ Len(list[i].andor) >= 1
              /\ \A j \in Links(i) :
                   /\ list[i].andor[j] \in Link
                   /\ list[i].andor[j].op \in {"none", "and", "or"}
                   /\ list[i].andor[j].pipeline \in Pipeline
                   /\ Start(i, j) \in Position
                   /\ list[i].andor[j].pipeline.commands \in Seq(Command)
                   /\ list[i].andor[j].pipeline.commands # <<>>
<1>1. list \in Seq(Element) /\ Len(list) \in 1..MaxElements /\ MaxElements \in Nat
  BY LinesAssumption DEF TypeOK
<1>2. Elements = 1..Len(list)
  BY DEF Elements
<1>3. ASSUME NEW i \in Elements PROVE list[i] \in Element
  BY <1>1, <1>2, <1>3, ElementOfSeq
<1>4. ASSUME NEW i \in Elements
      PROVE  /\ list[i].sep \in {"none", "semi", "amp"}
             /\ list[i].andor \in Seq(Link)
             /\ Len(list[i].andor) \in Nat /\ Len(list[i].andor) >= 1
  <2>1. list[i].sep \in {"none", "semi", "amp"} /\ list[i].andor \in Seq(Link) \ {<<>>}
    BY <1>3 DEF Element
  <2> QED
    BY <2>1, EmptySeq
<1>5. ASSUME NEW i \in Elements, NEW j \in Links(i)
      PROVE  /\ list[i].andor[j] \in Link
             /\ list[i].andor[j].op \in {"none", "and", "or"}
             /\ list[i].andor[j].pipeline \in Pipeline
             /\ Start(i, j) \in Position
             /\ list[i].andor[j].pipeline.commands \in Seq(Command)
             /\ list[i].andor[j].pipeline.commands # <<>>
  <2>1. list[i].andor[j] \in Link
    BY <1>4, ElementOfSeq DEF Links
  <2> QED
    BY <2>1 DEF Link, Pipeline, Start
<1> QED
  BY <1>1, <1>2, <1>3, <1>4, <1>5

\* What stands under construction: the last chain, pipeline and command.
LEMMA CurrentFacts ==
  ASSUME TypeOK
  PROVE  /\ Len(list) \in Elements
         /\ CurrentChain = list[Len(list)].andor
         /\ CurrentChain \in Seq(Link) /\ Len(CurrentChain) \in Links(Len(list))
         /\ CurrentPipeline = CurrentChain[Len(CurrentChain)].pipeline
         /\ CurrentPipeline \in Pipeline
         /\ CurrentPipeline.commands \in Seq(Command)
         /\ Len(CurrentPipeline.commands) \in 1..Len(CurrentPipeline.commands)
         /\ Current = CurrentPipeline.commands[Len(CurrentPipeline.commands)]
         /\ Current \in Command
<1>1. Len(list) \in Elements
  BY ListFacts
<1>2. CurrentChain = list[Len(list)].andor
  BY DEF CurrentChain, Last
<1>3. CurrentChain \in Seq(Link) /\ Len(CurrentChain) \in Links(Len(list))
  BY <1>1, <1>2, ListFacts DEF Links
<1>4. CurrentPipeline = CurrentChain[Len(CurrentChain)].pipeline
  BY DEF CurrentPipeline, Last
<1>5. CurrentPipeline \in Pipeline
  BY <1>1, <1>2, <1>3, <1>4, ListFacts
<1>6. CurrentPipeline.commands \in Seq(Command) /\ CurrentPipeline.commands # <<>>
  BY <1>5 DEF Pipeline
<1>7. Len(CurrentPipeline.commands) \in 1..Len(CurrentPipeline.commands)
  BY <1>6, EmptySeq
<1>8. Current = CurrentPipeline.commands[Len(CurrentPipeline.commands)]
  BY DEF Current, Last
<1>9. Current \in Command
  BY <1>6, <1>7, <1>8, ElementOfSeq
<1> QED
  BY <1>1, <1>2, <1>3, <1>4, <1>5, <1>6, <1>7, <1>8, <1>9

\* The last chain changed, the rest of the list is the same.
LEMMA ChainChanged ==
  ASSUME TypeOK, NEW ch \in Seq(Link), ch # <<>>
  PROVE  /\ WithChain(ch) \in Seq(Element) /\ Len(WithChain(ch)) = Len(list)
         /\ \A i \in Elements : i # Len(list) => WithChain(ch)[i] = list[i]
         /\ WithChain(ch)[Len(list)].sep = list[Len(list)].sep
         /\ WithChain(ch)[Len(list)].andor = ch
<1> DEFINE L == Len(list)
           e == [list[L] EXCEPT !.andor = ch]
<1>1. L \in 1..Len(list) /\ list \in Seq(Element)
  BY ListFacts DEF TypeOK
<1>2. list[L] \in Element
  BY <1>1, ElementOfSeq
<1>3. e \in Element /\ e.sep = list[L].sep /\ e.andor = ch
  BY <1>2 DEF Element
<1>4. WithChain(ch) = [list EXCEPT ![L] = e]
  BY DEF WithChain
<1> HIDE DEF e
<1>5. /\ WithChain(ch) \in Seq(Element) /\ Len(WithChain(ch)) = Len(list)
      /\ \A i \in 1..Len(list) : WithChain(ch)[i] = IF i = L THEN e ELSE list[i]
  BY <1>1, <1>3, <1>4, ExceptSeq
<1> QED
  BY <1>1, <1>3, <1>5 DEF Elements

\* Two lists that differ in the commands of their pipelines only.
Alike(l) ==
    /\ Len(l) = Len(list)
    /\ \A i \in Elements :
         /\ l[i].sep = list[i].sep
         /\ Len(l[i].andor) = Len(list[i].andor)
         /\ \A j \in Links(i) : /\ l[i].andor[j].op = list[i].andor[j].op
                                /\ l[i].andor[j].pipeline.start = Start(i, j)

\* And have the same commands in all pipelines but the last, which has cs.
DifferAtEnd(l, cs) ==
    LET M == Len(CurrentChain)
    IN /\ \A i \in 1..(Len(list) - 1) : l[i] = list[i]
       /\ Len(l[Len(list)].andor) = M
       /\ \A j \in 1..(M - 1) : l[Len(list)].andor[j] = CurrentChain[j]
       /\ l[Len(list)].andor[M].pipeline.commands = cs

\* The commands of the last pipeline changed.
LEMMA CommandsChanged ==
  ASSUME TypeOK, NEW cs \in Seq(Command), cs # <<>>
  PROVE  /\ WithCommands(cs) \in Seq(Element) /\ Alike(WithCommands(cs))
         /\ DifferAtEnd(WithCommands(cs), cs)
<1> DEFINE L  == Len(list)
           ch == CurrentChain
           M  == Len(ch)
           pl == [CurrentPipeline EXCEPT !.commands = cs]
           k  == [ch[M] EXCEPT !.pipeline = pl]
           c1 == [ch EXCEPT ![M] = k]
           l  == WithCommands(cs)
<1>1. /\ L \in Elements /\ ch = list[L].andor /\ ch \in Seq(Link) /\ M \in 1..Len(ch)
      /\ CurrentPipeline = ch[M].pipeline /\ CurrentPipeline \in Pipeline
  BY CurrentFacts DEF Links
<1>2. pl \in Pipeline /\ pl.start = CurrentPipeline.start /\ pl.commands = cs
  BY <1>1 DEF Pipeline
<1>3. ch[M] \in Link
  BY <1>1, ElementOfSeq
<1>4. /\ k \in Link /\ k.op = ch[M].op /\ k.pipeline.start = ch[M].pipeline.start
      /\ k.pipeline.commands = cs
  <2> HIDE DEF pl
  <2> QED BY <1>1, <1>2, <1>3 DEF Link
<1>5. l = WithChain(c1)
  BY DEF WithCommands, WithPipeline
<1> HIDE DEF k, l, ch
<1>6. /\ c1 \in Seq(Link) /\ Len(c1) = Len(ch)
      /\ \A j \in 1..Len(ch) : c1[j] = IF j = M THEN k ELSE ch[j]
  BY <1>1, <1>4, ExceptSeq
<1>7. c1 # <<>>
  BY <1>1, <1>6, EmptySeq
<1> HIDE DEF c1
<1>8. /\ l \in Seq(Element) /\ Len(l) = Len(list)
      /\ \A i \in Elements : i # L => l[i] = list[i]
      /\ l[L].sep = list[L].sep /\ l[L].andor = c1
  BY <1>5, <1>6, <1>7, ChainChanged
<1>9. ASSUME NEW i \in Elements
      PROVE  /\ l[i].sep = list[i].sep
             /\ Len(l[i].andor) = Len(list[i].andor)
             /\ \A j \in Links(i) : /\ l[i].andor[j].op = list[i].andor[j].op
                                    /\ l[i].andor[j].pipeline.start = Start(i, j)
  <2>1. CASE i # L
    BY <1>8, <2>1 DEF Start
  <2>2. CASE i = L
    BY <1>1, <1>4, <1>6, <1>8, <2>2 DEF Start, Links
  <2> QED
    BY <2>1, <2>2
<1>10. Alike(l)
  BY <1>8, <1>9 DEF Alike
<1>11. DifferAtEnd(l, cs)
  <2>1. \A i \in 1..(L - 1) : l[i] = list[i]
    <3>1. L \in Nat /\ Elements = 1..L
      BY ListFacts
    <3> QED
      BY <1>8, <3>1
  <2>2. Len(c1) = M /\ \A j \in 1..(M - 1) : c1[j] = ch[j]
    BY <1>1, <1>6
  <2>3. c1[M].pipeline.commands = cs
    BY <1>1, <1>4, <1>6
  <2> QED
    BY <1>8, <2>1, <2>2, <2>3 DEF DifferAtEnd, ch
<1> QED
  BY <1>8, <1>10, <1>11 DEF l

\* The last command changed.
LEMMA CommandChanged ==
  ASSUME TypeOK, NEW c \in Command
  PROVE  WithCommand(c) \in Seq(Element) /\ Alike(WithCommand(c))
<1> DEFINE old == CurrentPipeline.commands
           cs  == [old EXCEPT ![Len(old)] = c]
<1>1. old \in Seq(Command) /\ Len(old) \in 1..Len(old)
  BY CurrentFacts
<1> HIDE DEF old
<1>2. cs \in Seq(Command) /\ Len(cs) = Len(old)
  BY <1>1, ExceptSeq
<1>3. cs # <<>>
  BY <1>1, <1>2, EmptySeq
<1>4. WithCommand(c) = WithCommands(cs)
  BY DEF WithCommand, old
<1> QED
  BY <1>2, <1>3, <1>4, CommandsChanged

\* An unchanged list is alike.
LEMMA SameIsAlike == Alike(list)
BY DEF Alike, Start

\* All commands of the list are commands.
LEMMA CommandsTyped == list \in Seq(Element) => Commands \in Seq(Command)
<1> SUFFICES ASSUME list \in Seq(Element) PROVE Commands \in Seq(Command)
  OBVIOUS
<1> DEFINE of(i)  == [j \in DOMAIN list[i].andor |-> list[i].andor[j].pipeline.commands]
           all    == [i \in Elements |-> of(i)]
<1>1. ASSUME NEW i \in Elements PROVE of(i) \in Seq(Seq(Command))
  <2>1. list[i].andor \in Seq(Link)
    <3>1. list[i] \in Element
      BY <1>1, ElementOfSeq DEF Elements
    <3> QED
      BY <3>1 DEF Element
  <2>2. \A j \in 1..Len(list[i].andor) : list[i].andor[j] \in Link
    BY <2>1, ElementOfSeq
  <2>3. \A j \in 1..Len(list[i].andor) : list[i].andor[j].pipeline.commands \in Seq(Command)
    BY <2>2 DEF Link, Pipeline
  <2>4. of(i) \in [1..Len(list[i].andor) -> Seq(Command)]
    BY <2>1, <2>3
  <2> HIDE DEF of
  <2> QED
    BY <2>1, <2>4
<1>2. all \in Seq(Seq(Seq(Command)))
  <2>1. Elements = 1..Len(list) /\ Len(list) \in Nat
    BY DEF Elements
  <2> HIDE DEF of
  <2>2. all \in [1..Len(list) -> Seq(Seq(Command))]
    BY <1>1, <2>1
  <2> HIDE DEF all
  <2> QED
    BY <2>1, <2>2
<1>3. Commands = FlattenSeq(FlattenSeq(all))
  BY DEF Commands
<1> HIDE DEF all
<1>4. FlattenSeq(all) \in Seq(Seq(Command))
  BY <1>2, FlattenTyped
<1> QED
  BY <1>3, <1>4, FlattenTyped

\* So they are after a step.
LEMMA NextCommandsTyped == (list \in Seq(Element) => Commands \in Seq(Command))'
BY CommandsTyped, PTL

-----------------------------------------------------------------------------
(* The parser. *)

\* Before the last token the stream goes on by one.
LEMMA ReadOn ==
  ASSUME TypeOK, Text, tokens[pos] # "eof"
  PROVE  /\ pos \in Position /\ Read(pos) = pos + 1 /\ pos + 1 \in Position
         /\ pos < Len(tokens) /\ Len(tokens) \in Nat /\ pos \in Nat
<1>1. pos \in Position /\ Len(tokens) \in Nat
  BY DEF TypeOK
<1>2. pos # Len(tokens)
  BY <1>1 DEF Text
<1> QED
  BY <1>1, <1>2 DEF Position, Read

\* Types and positions do not change with the line.
LEMMA LineStays ==
  ASSUME tokens' = tokens
  PROVE  /\ Position' = Position /\ Command' = Command /\ Pipeline' = Pipeline
         /\ Link' = Link /\ Element' = Element /\ Frame' = Frame /\ (Text => Text')
<1>1. Position' = Position
  BY DEF Position
<1>2. Command' = Command
  BY <1>1 DEF Command
<1>3. Pipeline' = Pipeline
  BY <1>1, <1>2 DEF Pipeline
<1>4. Link' = Link
  BY <1>3 DEF Link
<1>5. Element' = Element
  BY <1>4 DEF Element
<1>6. Text => Text'
  BY <1>1 DEF Text
<1>7. Frame' = Frame
  BY <1>2 DEF Frame
<1> QED
  BY <1>1, <1>2, <1>3, <1>4, <1>5, <1>6, <1>7

\* While the list is not executed nothing has been run, by nobody.
LEMMA FreshIsUnderWay ==
  /\ TypeOK
  /\ pc[Shell] \in {"parse", "segv", "expand"}
  /\ Fresh
  => UnderWay /\ Ran /\ Served /\ InOrderOnce
<1> SUFFICES ASSUME TypeOK, pc[Shell] \in {"parse", "segv", "expand"}, Fresh
             PROVE  UnderWay /\ Ran /\ Served /\ InOrderOnce
  OBVIOUS
<1>1. /\ ran = <<>> /\ Len(ran) = 0
      /\ \A p \in Proc : local[p] = FirstFrame(p)
      /\ \A p \in Proc : Born(p) <=> p = Shell
  BY EmptySeq DEF Fresh, Born
<1>2. Len(list) \in 1..MaxElements /\ Shell \in Proc
  BY LinesAssumption, MaxForksAssumption DEF TypeOK, Proc, Shell
<1>3. local[Shell] = FirstFrame(Shell)
  BY <1>1, <1>2
<1>4. /\ local[Shell].li = 1 /\ local[Shell].job = 0 /\ local[Shell].root = Shell
  BY <1>3 DEF FirstFrame
<1>5. Place(Shell) /\ Ahead(Shell) /\ Kin(Shell, Shell)
  BY <1>2, <1>4 DEF Place, Ahead, Kin
<1>6. UnderWay
  BY <1>1, <1>2, <1>4, <1>5 DEF UnderWay
<1>7. Ran /\ InOrderOnce
  BY <1>1 DEF Ran, InOrderOnce
<1>8. \A i \in Elements : ~Behind(Shell, i, 1)
  <2>1. ASSUME NEW i \in Elements PROVE ~(i < 1)
    BY <1>2 DEF Elements
  <2> QED
    BY <1>4, <2>1 DEF Behind, Passed
<1>9. Served
  BY <1>1, <1>8 DEF Served, ServedBy
<1> QED
  BY <1>6, <1>7, <1>9

\* And after a step.
LEMMA NextFreshIsUnderWay ==
  /\ TypeOK'
  /\ (pc[Shell] \in {"parse", "segv", "expand"})'
  /\ Fresh'
  => UnderWay' /\ Ran' /\ Served' /\ InOrderOnce'
BY FreshIsUnderWay, PTL

\* The parser's work is to keep Built: the rest follows.
LEMMA ParserKeeps ==
  ASSUME IInv, pc[Shell] = "parse",
         UNCHANGED <<tokens, expansion, local, ran>>,
         pc' = pc \/ pc' = [pc EXCEPT ![Shell] = "segv"] \/ pc' = [pc EXCEPT ![Shell] = "expand"],
         pos' \in Position, list' \in Seq(Element), Len(list') \in 1..MaxElements,
         Built'
  PROVE  IInv'
<1>1. TypeOK /\ Text /\ Fresh
  BY DEF IInv
<1>2. /\ tokens' = tokens /\ expanded' = expanded /\ assigned' = assigned /\ seen' = seen
      /\ local' = local /\ ran' = ran
  BY DEF expansion
<1>3. /\ Position' = Position /\ Command' = Command /\ Element' = Element
      /\ Frame' = Frame /\ Text'
  BY <1>1, <1>2, LineStays
<1>4. /\ pc'[Shell] \in {"parse", "segv", "expand"}
      /\ \A p \in Proc : p # Shell => pc'[p] = pc[p]
      /\ pc' \in [Proc -> {"parse", "segv", "expand", "list", "andor", "pipes", "unborn",
                           "done", "exited", "ended"}]
  <2>1. Shell \in Proc
    BY MaxForksAssumption DEF Shell, Proc
  <2>2. pc \in [Proc -> {"parse", "segv", "expand", "list", "andor", "pipes", "unborn",
                         "done", "exited", "ended"}]
    BY <1>1 DEF TypeOK
  <2> QED
    BY <2>1, <2>2
<1>5. expanded' = 0 /\ expanded' \in 0..Len(Commands')
  <2>1. expanded = 0
    BY <1>1 DEF Fresh
  <2>2. Commands' \in Seq(Command)
    BY <1>3, NextCommandsTyped
  <2> QED
    BY <1>2, <2>1, <2>2
<1>6. TypeOK'
  BY <1>1, <1>2, <1>3, <1>4, <1>5, Zenon DEF TypeOK
<1>7. Fresh'
  BY <1>1, <1>2, <1>4, <1>5 DEF Fresh
<1>8. UnderWay' /\ Ran' /\ Served' /\ InOrderOnce'
  BY <1>4, <1>6, <1>7, NextFreshIsUnderWay
<1> QED
  BY <1>3, <1>6, <1>7, <1>8 DEF IInv

\* More of the last pipeline has been read.
LEMMA FillKeeps ==
  ASSUME IInv, pc[Shell] = "parse", tokens' = tokens,
         pos' \in Position, pos < pos', tokens[pos'-1] # "amp", Alike(list')
  PROVE  Built' /\ Len(list') \in 1..MaxElements
<1>1. TypeOK /\ Increasing /\ Marked /\ LastIsPlain /\ Open
  BY DEF IInv, Built
<1>2. /\ Len(list') = Len(list) /\ Elements' = Elements /\ Elements = 1..Len(list)
      /\ Len(list) \in 1..MaxElements /\ MaxElements \in Nat /\ Len(list) \in Nat
  BY <1>1, LinesAssumption, ListFacts DEF Alike, Elements
<1>3. /\ \A i \in Elements :
           /\ list'[i].sep = list[i].sep
           /\ Len(list'[i].andor) = Len(list[i].andor)
           /\ Links(i)' = Links(i)
           /\ 1 \in Links(i) /\ Len(list[i].andor) \in Links(i)
           /\ \A j \in Links(i) : /\ list'[i].andor[j].op = list[i].andor[j].op
                                  /\ Start(i, j)' = Start(i, j)
                                  /\ Start(i, j) \in Nat
  <2> SUFFICES ASSUME NEW i \in Elements
               PROVE  /\ list'[i].sep = list[i].sep
                      /\ Len(list'[i].andor) = Len(list[i].andor)
                      /\ Links(i)' = Links(i)
                      /\ 1 \in Links(i) /\ Len(list[i].andor) \in Links(i)
                      /\ \A j \in Links(i) : /\ list'[i].andor[j].op = list[i].andor[j].op
                                             /\ Start(i, j)' = Start(i, j)
                                             /\ Start(i, j) \in Nat
    OBVIOUS
  <2>1. list'[i].sep = list[i].sep /\ Len(list'[i].andor) = Len(list[i].andor)
    BY DEF Alike
  <2>2. Links(i)' = Links(i)
    BY <2>1 DEF Links
  <2>3. Len(list[i].andor) \in Nat /\ Len(list[i].andor) >= 1
    BY <1>1, ListFacts
  <2>4. 1 \in Links(i) /\ Len(list[i].andor) \in Links(i)
    BY <2>3 DEF Links
  <2>5. ASSUME NEW j \in Links(i)
        PROVE  /\ list'[i].andor[j].op = list[i].andor[j].op
               /\ Start(i, j)' = Start(i, j) /\ Start(i, j) \in Nat
    <3>1. Start(i, j) \in Position
      BY <1>1, <2>5, ListFacts
    <3>2. list'[i].andor[j].op = list[i].andor[j].op
          /\ list'[i].andor[j].pipeline.start = Start(i, j)
      BY <2>5 DEF Alike
    <3> QED
      BY <3>1, <3>2 DEF Start, Position
  <2> QED
    BY <2>1, <2>2, <2>4, <2>5
<1>4. pos \in Nat /\ pos' \in Nat
  BY <1>1 DEF TypeOK, Position
<1>5. Increasing'
  <2>1. \A i \in Elements : \A j \in Links(i) : Start(i, j) =< pos'
    BY <1>1, <1>3, <1>4 DEF Increasing
  <2> QED
    BY <1>1, <1>2, <1>3, <2>1 DEF Increasing
<1>6. LastIsPlain'
  <2> SUFFICES ASSUME NEW i \in Elements
               PROVE  list'[i].andor[Len(list'[i].andor)].op = "none"
    BY <1>2 DEF LastIsPlain
  <2>1. list[i].andor[Len(list[i].andor)].op = "none"
    BY <1>1 DEF LastIsPlain
  <2> QED
    BY <1>3, <2>1
<1>7. Open'
  BY <1>1, <1>2, <1>3, <1>4 DEF Open
<1>8. \A i \in Elements : StartOf(i)' = StartOf(i) /\ StartOf(i) = Start(i, 1)
  BY <1>3 DEF StartOf, Start
<1>9. Marked'
  <2> SUFFICES ASSUME NEW i \in Elements
               PROVE  LastToken(i)' = "amp" <=> list'[i].sep = "amp"
    BY <1>2 DEF Marked
  <2>1. LastToken(i) = "amp" <=> list[i].sep = "amp"
    BY <1>1 DEF Marked
  <2>2. CASE i < Len(list)
    <3>1. i + 1 \in Elements
      BY <1>2, <2>2
    <3>2. LastToken(i)' = LastToken(i)
      BY <1>2, <1>8, <2>2, <3>1 DEF LastToken
    <3> QED
      BY <1>3, <2>1, <3>2
  <2>3. CASE ~(i < Len(list))
    <3>1. i = Len(list)
      BY <1>2, <2>3
    <3>2. list[i].sep = "none"
      BY <1>1, <3>1 DEF Open
    <3>3. LastToken(i)' = IF StartOf(i) < pos' THEN tokens[pos'-1] ELSE "none"
      BY <1>2, <1>8, <2>3 DEF LastToken
    <3> QED
      BY <1>3, <3>2, <3>3
  <2> QED
    BY <2>2, <2>3
<1> QED
  BY <1>2, <1>5, <1>6, <1>7, <1>9 DEF Built

\* A word goes to the command under construction.
LEMMA WordKeeps ==
  ASSUME IInv, Parse, ParseWord \/ ParseAssignment \/ ParsePipe
  PROVE  IInv'
<1>1. TypeOK /\ Text /\ pc[Shell] = "parse"
      /\ UNCHANGED <<tokens, expansion, local, ran>>
  BY DEF IInv, Parse
<1>2. /\ Peek \in {"word", "assignment", "pipe"} /\ pos' = Read(pos) /\ pc' = pc
      /\ Peek = tokens[pos]
  BY DEF ParseWord, ParseAssignment, ParsePipe, Peek
<1>3. /\ pos \in Position /\ pos' = pos + 1 /\ pos' \in Position
      /\ pos < pos' /\ pos'-1 = pos
  BY <1>1, <1>2, ReadOn
<1>4. list' \in Seq(Element) /\ Alike(list')
  <2>1. CASE ParseWord
    <3> DEFINE c == [Current EXCEPT !.argv = Append(@, pos)]
    <3>1. c \in Command
      <4>1. Current \in Command
        BY <1>1, CurrentFacts
      <4>2. Append(Current.argv, pos) \in Seq(Position)
        BY <1>3, <4>1, AppendProperties DEF Command
      <4> QED
        BY <4>1, <4>2 DEF Command
    <3>2. list' = WithCommand(c)
      BY <2>1 DEF ParseWord
    <3> HIDE DEF c
    <3> QED
      BY <1>1, <3>1, <3>2, CommandChanged
  <2>2. CASE ParseAssignment
    <3> DEFINE c == [Current EXCEPT !.assignments = Append(@, pos)]
    <3>1. c \in Command
      <4>1. Current \in Command
        BY <1>1, CurrentFacts
      <4>2. Append(Current.assignments, pos) \in Seq(Position)
        BY <1>3, <4>1, AppendProperties DEF Command
      <4> QED
        BY <4>1, <4>2 DEF Command
    <3>2. list' = WithCommand(c)
      BY <2>2 DEF ParseAssignment
    <3> HIDE DEF c
    <3> QED
      BY <1>1, <3>1, <3>2, CommandChanged
  <2>3. CASE ParsePipe
    <3> DEFINE cs == Append(CurrentPipeline.commands, EmptyCommand)
    <3>1. EmptyCommand \in Command
      <4>1. <<>> \in Seq(Position)
        BY EmptySeq, Zenon
      <4> QED
        BY <4>1 DEF EmptyCommand, Command
    <3>2. CurrentPipeline.commands \in Seq(Command)
      BY <1>1, CurrentFacts
    <3>3. cs \in Seq(Command) /\ cs # <<>>
      BY <3>1, <3>2, AppendProperties
    <3>4. list' = WithCommands(cs)
      BY <2>3 DEF ParsePipe
    <3> HIDE DEF cs
    <3> QED
      BY <1>1, <3>3, <3>4, CommandsChanged
  <2> QED
    BY <2>1, <2>2, <2>3
<1>5. tokens[pos'-1] # "amp" /\ tokens' = tokens
  BY <1>1, <1>2, <1>3
<1>6. Built' /\ Len(list') \in 1..MaxElements
  BY <1>1, <1>3, <1>4, <1>5, FillKeeps
<1> QED
  BY <1>1, <1>2, <1>3, <1>4, <1>6, ParserKeeps

\* A redirection takes the word behind it, or the shell crashes.
LEMMA RedirectKeeps ==
  ASSUME IInv, Parse, ParseRedirect
  PROVE  IInv'
<1>1. TypeOK /\ Text /\ pc[Shell] = "parse"
      /\ UNCHANGED <<tokens, expansion, local, ran>>
  BY DEF IInv, Parse
<1>2. tokens[pos] = "redir" /\ tokens' = tokens
  BY <1>1 DEF ParseRedirect, Peek
<1>3. /\ pos \in Position /\ Read(pos) = pos + 1 /\ pos + 1 \in Position
      /\ pos \in Nat /\ Len(tokens) \in Nat
  BY <1>1, <1>2, ReadOn
<1>4. CASE tokens[Read(pos)] = "word"
  <2> DEFINE c == [Current EXCEPT !.targets = Append(@, Read(pos))]
  <2>1. list' = WithCommand(c) /\ pos' = Read(Read(pos)) /\ pc' = pc
    BY <1>4 DEF ParseRedirect
  <2>2. pos + 1 # Len(tokens)
    BY <1>1, <1>3, <1>4 DEF Text
  <2>3. pos' = pos + 2 /\ pos' \in Position /\ pos < pos' /\ pos'-1 = pos + 1
    BY <1>3, <2>1, <2>2 DEF Read, Position
  <2>4. c \in Command
    <3>1. Current \in Command
      BY <1>1, CurrentFacts
    <3>2. Append(Current.targets, pos + 1) \in Seq(Position)
      BY <1>3, <3>1, AppendProperties DEF Command
    <3> QED
      BY <1>3, <3>1, <3>2 DEF Command
  <2> HIDE DEF c
  <2>5. list' \in Seq(Element) /\ Alike(list')
    BY <1>1, <2>1, <2>4, CommandChanged
  <2>6. tokens[pos'-1] # "amp"
    BY <1>3, <1>4, <2>3
  <2>7. Built' /\ Len(list') \in 1..MaxElements
    BY <1>1, <1>2, <2>3, <2>5, <2>6, FillKeeps
  <2> QED
    BY <1>1, <2>1, <2>3, <2>5, <2>7, ParserKeeps
<1>5. CASE tokens[Read(pos)] # "word"
  <2>1. list' = list /\ pos' = pos + 1 /\ pc' = [pc EXCEPT ![Shell] = "segv"]
    BY <1>3, <1>5 DEF ParseRedirect
  <2>2. list' \in Seq(Element) /\ Alike(list')
    BY <1>1, <2>1, SameIsAlike DEF TypeOK
  <2>3. pos' \in Position /\ pos < pos' /\ pos'-1 = pos /\ tokens[pos'-1] # "amp"
    BY <1>2, <1>3, <2>1
  <2>4. Built' /\ Len(list') \in 1..MaxElements
    BY <1>1, <1>2, <2>2, <2>3, FillKeeps
  <2> QED
    BY <1>1, <2>1, <2>2, <2>3, <2>4, ParserKeeps
<1> QED
  BY <1>4, <1>5

\* The line is at an end, for the parser.
LEMMA EndKeeps ==
  ASSUME IInv, Parse, ParseEnd
  PROVE  IInv'
<1>1. /\ TypeOK /\ Text /\ Increasing /\ Marked /\ LastIsPlain /\ pc[Shell] = "parse"
      /\ UNCHANGED <<tokens, expansion, local, ran>>
  BY DEF IInv, Parse, Built
<1>2. /\ tokens' = tokens /\ pos' = pos /\ list' = list /\ pc' = [pc EXCEPT ![Shell] = "expand"]
  BY <1>1 DEF ParseEnd
<1>3. pc'[Shell] = "expand"
  <2>1. Shell \in Proc
    BY MaxForksAssumption DEF Shell, Proc
  <2> QED
    BY <1>1, <1>2, <2>1 DEF TypeOK
<1>4. Increasing'
  <2>1. Elements' = Elements
    BY <1>2 DEF Elements
  <2>2. \A i \in Elements : /\ Links(i)' = Links(i)
                            /\ \A j \in Links(i) : Start(i, j)' = Start(i, j)
    BY <1>2 DEF Links, Start
  <2> QED
    BY <1>1, <1>2, <2>1, <2>2 DEF Increasing
<1>5. Marked'
  BY <1>1, <1>2 DEF Marked, Elements, LastToken, StartOf
<1>6. LastIsPlain' /\ Open'
  BY <1>1, <1>2, <1>3 DEF LastIsPlain, Elements, Open
<1>7. pos' \in Position /\ list' \in Seq(Element) /\ Len(list') \in 1..MaxElements
  BY <1>1, <1>2 DEF TypeOK
<1> QED
  BY <1>1, <1>2, <1>4, <1>5, <1>6, <1>7, ParserKeeps DEF Built

\* An operator is stored in the last link of the chain and opens the next.
LEMMA AndOrKeeps ==
  ASSUME IInv, Parse, ParseAndOr
  PROVE  IInv'
<1>1. /\ TypeOK /\ Text /\ Increasing /\ Marked /\ LastIsPlain /\ Open /\ pc[Shell] = "parse"
      /\ UNCHANGED <<tokens, expansion, local, ran>>
  BY DEF IInv, Parse, Built
<1>2. tokens[pos] \in {"and", "or"} /\ Peek = tokens[pos] /\ tokens' = tokens /\ pc' = pc
  BY <1>1 DEF ParseAndOr, Peek
<1>3. /\ pos \in Position /\ Read(pos) = pos + 1 /\ pos + 1 \in Position
      /\ pos \in Nat /\ Len(tokens) \in Nat
  BY <1>1, <1>2, ReadOn
<1>l. PICK L : L = Len(list)
  OBVIOUS
<1>m. PICK M : M = Len(CurrentChain)
  OBVIOUS
<1> DEFINE ch  == CurrentChain
           k   == [ch[M] EXCEPT !.op = Peek]
           c1  == [ch EXCEPT ![M] = k]
           new == NewAndOr(pos + 1)
           c2  == c1 \o new
<1>4. pos' = pos + 1 /\ list' = WithChain(c2)
  BY <1>3, <1>m DEF ParseAndOr
<1>5. /\ L \in Elements /\ ch = list[L].andor /\ ch \in Seq(Link) /\ M \in 1..Len(ch)
      /\ M = Len(list[L].andor) /\ M = Len(ch) /\ M \in Nat /\ M >= 1 /\ ch[M] \in Link
      /\ Elements = 1..L /\ L \in Nat /\ L >= 1 /\ L =< MaxElements /\ MaxElements \in Nat
  <2>1. /\ L \in Elements /\ ch = list[L].andor /\ ch \in Seq(Link) /\ M \in 1..Len(ch)
        /\ M = Len(list[L].andor) /\ M = Len(ch)
    BY <1>1, <1>l, <1>m, CurrentFacts DEF Links
  <2>2. Elements = 1..L /\ L \in Nat /\ L >= 1 /\ L =< MaxElements /\ MaxElements \in Nat
    BY <1>1, <1>l, ListFacts, LinesAssumption
  <2> HIDE DEF ch
  <2>3. ch[M] \in Link
    BY <2>1, ElementOfSeq
  <2> QED
    BY <2>1, <2>2, <2>3
<1> HIDE DEF ch
<1>6. k \in Link /\ k.pipeline = ch[M].pipeline
  BY <1>2, <1>5 DEF Link
<1>7. new \in Seq(Link) /\ Len(new) = 1 /\ new[1].op = "none" /\ new[1].pipeline.start = pos + 1
  <2> DEFINE e == [op |-> "none", pipeline |-> NewPipeline(pos + 1)]
  <2>1. EmptyCommand \in Command
    <3>1. <<>> \in Seq(Position)
      BY EmptySeq, Zenon
    <3> QED
      BY <3>1 DEF EmptyCommand, Command
  <2>2. <<EmptyCommand>> \in Seq(Command) \ {<<>>}
    BY <2>1
  <2>3. NewPipeline(pos + 1) \in Pipeline /\ NewPipeline(pos + 1).start = pos + 1
    BY <1>3, <2>2 DEF NewPipeline, Pipeline
  <2>4. e \in Link /\ e.op = "none" /\ e.pipeline.start = pos + 1
    BY <2>3 DEF Link
  <2>5. new = <<e>>
    BY DEF NewAndOr
  <2> HIDE DEF e, new
  <2> QED
    BY <2>4, <2>5
<1> HIDE DEF k, new
<1>8. /\ c1 \in Seq(Link) /\ Len(c1) = M
      /\ \A j \in 1..M : c1[j] = IF j = M THEN k ELSE ch[j]
  BY <1>5, <1>6, ExceptSeq
<1> HIDE DEF c1, c2
<1>9. /\ c2 \in Seq(Link) /\ Len(c2) = M + 1 /\ M \in Nat /\ M >= 1
      /\ \A j \in 1..(M + 1) : c2[j] = IF j =< M THEN c1[j] ELSE new[j - M]
  <2>1. /\ c2 \in Seq(Link) /\ Len(c2) = Len(c1) + Len(new)
        /\ \A j \in 1..(Len(c1) + Len(new)) :
             c2[j] = IF j =< Len(c1) THEN c1[j] ELSE new[j - Len(c1)]
    BY <1>7, <1>8, ConcatProperties, Zenon DEF c2
  <2> QED
    BY <1>5, <1>7, <1>8, <2>1
<1>10. /\ list' \in Seq(Element) /\ Len(list') = L
       /\ \A i \in Elements : i # L => list'[i] = list[i]
       /\ list'[L].sep = list[L].sep /\ list'[L].andor = c2
  <2>1. c2 # <<>>
    BY <1>9, EmptySeq
  <2> QED
    BY <1>1, <1>4, <1>9, <1>l, <2>1, ChainChanged
<1>11. Elements' = Elements /\ pos' \in Position /\ Len(list') \in 1..MaxElements
  BY <1>3, <1>4, <1>5, <1>10, <1>l DEF Elements
<1>12. \A i \in Elements : i # L =>
         Links(i)' = Links(i) /\ \A j \in Links(i) : Start(i, j)' = Start(i, j)
  BY <1>10 DEF Links, Start
<1>13. \A i \in Elements : i = L => Links(i) = 1..M /\ Links(i)' = 1..(M + 1)
  BY <1>5, <1>9, <1>10 DEF Links
<1>14. \A i \in Elements : i = L => \A j \in 1..M : Start(i, j)' = Start(i, j)
  <2> SUFFICES ASSUME NEW j \in 1..M PROVE c2[j].pipeline.start = ch[j].pipeline.start
    BY <1>5, <1>10 DEF Start
  <2>1. c2[j] = c1[j]
    BY <1>9
  <2> QED
    BY <1>6, <1>8, <2>1
<1>15. \A i \in Elements : i = L => \A j \in Links(i)' : j = M + 1 => Start(i, j)' = pos + 1
  <2>1. c2[M + 1] = new[1]
    BY <1>9
  <2> QED
    BY <1>7, <1>10, <2>1 DEF Start
<1>16. \A i \in Elements : \A j \in Links(i) : Start(i, j) =< pos /\ Start(i, j) \in Nat
  BY <1>1, ListFacts DEF Increasing, Position
<1>17. Increasing'
  <2>1. ASSUME NEW i \in Elements, NEW j \in Links(i)' PROVE Start(i, j)' =< pos'
    <3>1. CASE i # L
      BY <1>3, <1>4, <1>12, <1>16, <2>1, <3>1
    <3>2. CASE i = L /\ j = M + 1
      BY <1>3, <1>4, <1>15, <3>2
    <3>3. CASE i = L /\ j # M + 1
      <4>1. j \in 1..M
        BY <1>9, <1>13, <2>1, <3>3
      <4>2. j \in Links(i) /\ Start(i, j)' = Start(i, j)
        BY <1>13, <1>14, <3>3, <4>1
      <4> QED
        BY <1>3, <1>4, <1>16, <4>2
    <3> QED
      BY <3>1, <3>2, <3>3
  <2>2. ASSUME NEW i \in Elements, NEW j \in Links(i)', NEW m \in Links(i)', j < m
        PROVE  Start(i, j)' < Start(i, m)'
    <3>1. CASE i # L
      BY <1>1, <1>12, <2>2, <3>1 DEF Increasing
    <3>2. CASE i = L
      <4>1. j \in 1..M
        BY <1>9, <1>13, <2>2, <3>2
      <4>2. CASE m = M + 1
        <5>1. j \in Links(i) /\ Start(i, j)' = Start(i, j)
          BY <1>13, <1>14, <3>2, <4>1
        <5>2. Start(i, m)' = pos + 1
          BY <1>15, <2>2, <3>2, <4>2
        <5> QED
          BY <1>3, <1>16, <5>1, <5>2
      <4>3. CASE m # M + 1
        <5>1. m \in 1..M
          BY <1>9, <1>13, <2>2, <3>2, <4>3
        <5>2. j \in Links(i) /\ Start(i, j)' = Start(i, j)
          BY <1>13, <1>14, <3>2, <4>1
        <5>3. m \in Links(i) /\ Start(i, m)' = Start(i, m)
          BY <1>13, <1>14, <3>2, <5>1
        <5> QED
          BY <1>1, <2>2, <5>2, <5>3 DEF Increasing
      <4> QED
        BY <4>2, <4>3
    <3> QED
      BY <3>1, <3>2
  <2>3. ASSUME NEW i \in Elements, NEW m \in Elements, i < m,
               NEW j \in Links(i)', NEW l \in Links(m)'
        PROVE  Start(i, j)' < Start(m, l)'
    <3>1. i # L
      BY <1>5, <2>3
    <3>2. j \in Links(i) /\ Start(i, j)' = Start(i, j) /\ Start(i, j) =< pos /\ Start(i, j) \in Nat
      BY <1>12, <1>16, <2>3, <3>1
    <3>3. CASE m # L
      BY <1>1, <1>12, <2>3, <3>2, <3>3 DEF Increasing
    <3>4. CASE m = L /\ l = M + 1
      BY <1>3, <1>15, <3>2, <3>4
    <3>5. CASE m = L /\ l # M + 1
      <4>1. l \in 1..M /\ l \in Links(m)
        BY <1>9, <1>13, <2>3, <3>5
      <4>2. Start(i, j) < Start(m, l)
        BY <1>1, <2>3, <3>2, <4>1 DEF Increasing
      <4> QED
        BY <1>14, <3>2, <3>5, <4>1, <4>2
    <3> QED
      BY <3>3, <3>4, <3>5
  <2> QED
    BY <1>11, <2>1, <2>2, <2>3 DEF Increasing
<1>18. LastIsPlain'
  <2> SUFFICES ASSUME NEW i \in Elements
               PROVE  list'[i].andor[Len(list'[i].andor)].op = "none"
    BY <1>11 DEF LastIsPlain
  <2>1. CASE i # L
    BY <1>1, <1>10, <2>1 DEF LastIsPlain
  <2>2. CASE i = L
    <3>1. c2[M + 1] = new[1]
      BY <1>9
    <3> QED
      BY <1>7, <1>9, <1>10, <2>2, <3>1
  <2> QED
    BY <2>1, <2>2
<1>19. Open'
  BY <1>1, <1>2, <1>3, <1>4, <1>5, <1>10, <1>l DEF Open
<1>20. Marked'
  <2> SUFFICES ASSUME NEW i \in Elements
               PROVE  LastToken(i)' = "amp" <=> list'[i].sep = "amp"
    BY <1>11 DEF Marked
  <2>1. LastToken(i) = "amp" <=> list[i].sep = "amp"
    BY <1>1 DEF Marked
  <2>2. \A m \in Elements : StartOf(m)' = StartOf(m) /\ StartOf(m) = Start(m, 1) /\ 1 \in Links(m)
    <3>1. \A m \in Elements : 1 \in Links(m)
      BY <1>1, ListFacts DEF Links
    <3>2. \A m \in Elements : StartOf(m) = Start(m, 1) /\ StartOf(m)' = Start(m, 1)'
      BY DEF StartOf, Start
    <3>3. \A m \in Elements : Start(m, 1)' = Start(m, 1)
      BY <1>12, <1>13, <1>14, <3>1
    <3> QED
      BY <3>1, <3>2, <3>3
  <2>3. CASE i < L
    <3>1. i + 1 \in Elements /\ i # L
      BY <1>5, <2>3
    <3>2. LastToken(i)' = LastToken(i)
      BY <1>2, <1>10, <2>2, <2>3, <1>l, <3>1 DEF LastToken
    <3> QED
      BY <1>10, <2>1, <3>1, <3>2
  <2>4. CASE ~(i < L)
    <3>1. i = L
      BY <1>5, <2>4
    <3>2. list'[i].sep = "none"
      BY <1>1, <1>10, <1>l, <3>1 DEF Open
    <3>3. StartOf(i) < pos'
      BY <1>3, <1>4, <1>16, <2>2
    <3>4. LastToken(i)' = tokens[pos]
      BY <1>2, <1>3, <1>4, <1>10, <1>l, <2>2, <2>4, <3>3 DEF LastToken
    <3> QED
      BY <1>2, <3>2, <3>4
  <2> QED
    BY <2>3, <2>4
<1>21. Built'
  BY <1>17, <1>18, <1>19, <1>20 DEF Built
<1> QED
  BY <1>1, <1>2, <1>10, <1>11, <1>21, ParserKeeps

\* What a separator does to the list: it marks the last element, and behind it
\* may stand a new one that begins after the separator.
Separated(l) ==
    /\ Len(l) \in {Len(list), Len(list) + 1}
    /\ \A i \in Elements : /\ l[i].andor = list[i].andor
                           /\ l[i].sep = IF i = Len(list) THEN Peek ELSE list[i].sep
    /\ \A i \in 1..Len(l) : i \notin Elements =>
         /\ l[i].sep = "none"
         /\ Len(l[i].andor) = 1
         /\ l[i].andor[1].op = "none" /\ l[i].andor[1].pipeline.start = pos + 1

\* It leaves a list that says what the text says.
LEMMA SeparatorBuilds ==
  ASSUME IInv, pc[Shell] = "parse", tokens' = tokens, Peek \in {"semi", "amp"},
         pos' = pos + 1, Separated(list'),
         Len(list') = Len(list) => pc'[Shell] # "parse"
  PROVE  Built'
<1>1. TypeOK /\ Increasing /\ Marked /\ LastIsPlain /\ Open /\ pos \in Nat /\ pos' \in Nat
  BY DEF IInv, Built, TypeOK, Position
<1>l. PICK L : L = Len(list)
  OBVIOUS
<1>2. L \in Nat /\ L >= 1 /\ Elements = 1..L /\ L \in Elements
  BY <1>1, <1>l, ListFacts
<1>3. Elements' = 1..Len(list') /\ Len(list') \in {L, L + 1} /\ Elements \subseteq Elements'
  BY <1>2, <1>l DEF Separated, Elements
<1>4. \A i \in Elements : /\ Links(i)' = Links(i) /\ list'[i].andor = list[i].andor
                          /\ 1 \in Links(i)
                          /\ \A j \in Links(i) : /\ Start(i, j)' = Start(i, j)
                                                 /\ Start(i, j) \in Nat /\ Start(i, j) =< pos
  <2> SUFFICES ASSUME NEW i \in Elements
               PROVE  /\ Links(i)' = Links(i) /\ list'[i].andor = list[i].andor
                      /\ 1 \in Links(i)
                      /\ \A j \in Links(i) : /\ Start(i, j)' = Start(i, j)
                                             /\ Start(i, j) \in Nat /\ Start(i, j) =< pos
    OBVIOUS
  <2>1. list'[i].andor = list[i].andor
    BY DEF Separated
  <2>2. Len(list[i].andor) \in Nat /\ Len(list[i].andor) >= 1
        /\ \A j \in Links(i) : Start(i, j) \in Position
    BY <1>1, ListFacts
  <2>3. \A j \in Links(i) : Start(i, j) \in Nat /\ Start(i, j) =< pos
    BY <1>1, <2>2 DEF Increasing, Position
  <2>4. Links(i)' = Links(i) /\ 1 \in Links(i) /\ \A j \in Links(i) : Start(i, j)' = Start(i, j)
    BY <2>1, <2>2 DEF Links, Start
  <2> QED
    BY <2>1, <2>3, <2>4
<1>5. \A i \in Elements' : i \notin Elements =>
        /\ i = L + 1 /\ list'[i].sep = "none" /\ Links(i)' = 1..1
        /\ Len(list'[i].andor) = 1 /\ list'[i].andor[1].op = "none"
        /\ \A j \in Links(i)' : Start(i, j)' = pos'
  <2> SUFFICES ASSUME NEW i \in Elements', i \notin Elements
               PROVE  /\ i = L + 1 /\ list'[i].sep = "none" /\ Links(i)' = 1..1
                      /\ Len(list'[i].andor) = 1 /\ list'[i].andor[1].op = "none"
                      /\ \A j \in Links(i)' : Start(i, j)' = pos'
    OBVIOUS
  <2>1. i = L + 1
    BY <1>2, <1>3
  <2>2. /\ list'[i].sep = "none" /\ Len(list'[i].andor) = 1
        /\ list'[i].andor[1].op = "none" /\ list'[i].andor[1].pipeline.start = pos'
    BY <1>3 DEF Separated
  <2> QED
    BY <2>1, <2>2 DEF Links, Start
<1>6. Increasing'
  <2>1. ASSUME NEW i \in Elements', NEW j \in Links(i)' PROVE Start(i, j)' =< pos'
    BY <1>1, <1>4, <1>5, <2>1
  <2>2. ASSUME NEW i \in Elements', NEW j \in Links(i)', NEW k \in Links(i)', j < k
        PROVE  Start(i, j)' < Start(i, k)'
    <3>1. CASE i \in Elements
      BY <1>1, <1>4, <2>2, <3>1 DEF Increasing
    <3>2. CASE i \notin Elements
      <4>1. j \in 1..1 /\ k \in 1..1
        BY <1>5, <2>2, <3>2
      <4> QED
        BY <2>2, <4>1
    <3> QED
      BY <3>1, <3>2
  <2>3. ASSUME NEW i \in Elements', NEW m \in Elements', i < m,
               NEW j \in Links(i)', NEW k \in Links(m)'
        PROVE  Start(i, j)' < Start(m, k)'
    <3>1. i \in Elements
      BY <1>2, <1>3, <2>3
    <3>2. j \in Links(i) /\ Start(i, j)' = Start(i, j) /\ Start(i, j) =< pos /\ Start(i, j) \in Nat
      BY <1>4, <2>3, <3>1
    <3>3. CASE m \in Elements
      <4>1. k \in Links(m) /\ Start(m, k)' = Start(m, k)
        BY <1>4, <2>3, <3>3
      <4>2. Start(i, j) < Start(m, k)
        BY <1>1, <2>3, <3>1, <3>2, <3>3, <4>1 DEF Increasing
      <4> QED
        BY <3>2, <4>1, <4>2
    <3>4. CASE m \notin Elements
      <4>1. Start(m, k)' = pos'
        BY <1>5, <2>3, <3>4
      <4> QED
        BY <1>1, <3>2, <4>1
    <3> QED
      BY <3>3, <3>4
  <2> QED
    BY <2>1, <2>2, <2>3 DEF Increasing
<1>7. LastIsPlain'
  <2> SUFFICES ASSUME NEW i \in Elements'
               PROVE  list'[i].andor[Len(list'[i].andor)].op = "none"
    BY DEF LastIsPlain
  <2>1. CASE i \in Elements
    BY <1>1, <1>4, <2>1 DEF LastIsPlain
  <2>2. CASE i \notin Elements
    BY <1>5, <2>2
  <2> QED
    BY <2>1, <2>2
<1>8. Open'
  <2> SUFFICES ASSUME pc'[Shell] = "parse"
               PROVE  list'[Len(list')].sep = "none" /\ Len(list') =< pos'
    BY DEF Open
  <2>1. Len(list') = L + 1
    BY <1>3, <1>l
  <2>2. Len(list') \in Elements' /\ Len(list') \notin Elements
    BY <1>2, <1>3, <2>1
  <2>3. L =< pos
    BY <1>1, <1>l DEF Open
  <2> QED
    BY <1>1, <1>2, <1>5, <2>1, <2>2, <2>3
<1>9. \A i \in Elements : StartOf(i)' = StartOf(i) /\ StartOf(i) \in Nat /\ StartOf(i) =< pos
  <2>1. \A i \in Elements : StartOf(i) = Start(i, 1) /\ StartOf(i)' = Start(i, 1)'
    BY DEF StartOf, Start
  <2>2. \A i \in Elements : Start(i, 1)' = Start(i, 1) /\ Start(i, 1) \in Nat /\ Start(i, 1) =< pos
    BY <1>4
  <2> QED
    BY <2>1, <2>2
<1>10. \A i \in Elements' : i \notin Elements => StartOf(i)' = pos'
  <2>1. \A i \in Elements' : i \notin Elements => 1 \in Links(i)'
    BY <1>5
  <2>2. \A i \in Elements' : i \notin Elements => Start(i, 1)' = pos'
    BY <1>5, <2>1
  <2> QED
    BY <2>2 DEF StartOf, Start
<1>11. Marked'
  <2> SUFFICES ASSUME NEW i \in Elements'
               PROVE  LastToken(i)' = "amp" <=> list'[i].sep = "amp"
    BY DEF Marked
  <2>1. CASE i \in Elements /\ i # L
    <3>1. i < L /\ i < Len(list') /\ i < Len(list) /\ i + 1 \in Elements
      BY <1>2, <1>3, <1>l, <2>1
    <3>2. StartOf(i)' = StartOf(i) /\ StartOf(i + 1)' = StartOf(i + 1)
      BY <1>9, <2>1, <3>1
    <3>3. LastToken(i)' = LastToken(i)
      BY <3>1, <3>2 DEF LastToken
    <3>4. list'[i].sep = list[i].sep
      BY <1>l, <2>1 DEF Separated
    <3> QED
      BY <1>1, <2>1, <3>3, <3>4 DEF Marked
  <2>2. CASE i = L
    <3>1. list'[i].sep = tokens[pos]
      BY <1>2, <1>l, <2>2 DEF Separated, Peek
    <3>2. i < Len(list') => i + 1 \in Elements' /\ i + 1 \notin Elements
      BY <1>2, <1>3, <2>2
    <3>3. (IF i < Len(list') THEN StartOf(i + 1)' ELSE pos') = pos'
      BY <1>10, <3>2
    <3>4. LastToken(i)' = IF StartOf(i)' < pos' THEN tokens[pos'-1] ELSE "none"
      BY <3>3 DEF LastToken
    <3>5. StartOf(i)' < pos' /\ pos'-1 = pos
      BY <1>1, <1>2, <1>9, <2>2
    <3> QED
      BY <3>1, <3>4, <3>5
  <2>3. CASE i \notin Elements
    <3>1. StartOf(i)' = pos' /\ list'[i].sep = "none" /\ i = L + 1
      BY <1>5, <1>10, <2>3
    <3>2. ~(i < Len(list')) /\ ~(pos' < pos')
      BY <1>1, <1>2, <1>3, <3>1
    <3>3. LastToken(i)' = "none"
      BY <3>1, <3>2 DEF LastToken
    <3> QED
      BY <3>1, <3>3
  <2> QED
    BY <2>1, <2>2, <2>3
<1> QED
  BY <1>6, <1>7, <1>8, <1>11 DEF Built

\* A separator marks the element on its left, and opens the next unless the
\* line is at an end.
LEMMA SeparatorKeeps ==
  ASSUME IInv, Parse, ParseSeparator
  PROVE  IInv'
<1>1. /\ TypeOK /\ Text /\ Open /\ pc[Shell] = "parse"
      /\ UNCHANGED <<tokens, expansion, local, ran>>
  BY DEF IInv, Parse, Built
<1>2. tokens[pos] \in {"semi", "amp"} /\ Peek = tokens[pos] /\ tokens' = tokens
  BY <1>1 DEF ParseSeparator, Peek
<1>3. /\ pos \in Position /\ Read(pos) = pos + 1 /\ pos + 1 \in Position
      /\ pos \in Nat /\ Len(tokens) \in Nat
  BY <1>1, <1>2, ReadOn
<1>4. pos' = pos + 1 /\ pos' \in Position /\ pos' \in Nat
  BY <1>3 DEF ParseSeparator
<1>l. PICK L : L = Len(list)
  OBVIOUS
<1>5. /\ L \in Elements /\ Elements = 1..L /\ L \in Nat /\ L >= 1 /\ L =< MaxElements
      /\ MaxElements \in Nat /\ list \in Seq(Element) /\ list[L] \in Element
  BY <1>1, <1>l, ListFacts, LinesAssumption DEF TypeOK
<1> DEFINE e      == [list[L] EXCEPT !.sep = Peek]
           marked == [list EXCEPT ![L] = e]
           new    == NewElement(pos + 1)
<1>6. e \in Element /\ e.sep = Peek /\ e.andor = list[L].andor
  <2>1. Peek \in {"none", "semi", "amp"}
    BY <1>2
  <2> QED
    BY <1>5, <2>1 DEF Element
<1>7. /\ pc' = IF tokens[pos'] \in {"eof", "newline"} THEN [pc EXCEPT ![Shell] = "expand"] ELSE pc
      /\ list' = IF tokens[pos'] \in {"eof", "newline"} THEN marked ELSE Append(marked, new)
  BY <1>2, <1>4, <1>l DEF ParseSeparator
<1>8. /\ new \in Element /\ new.sep = "none" /\ Len(new.andor) = 1
      /\ new.andor[1].op = "none" /\ new.andor[1].pipeline.start = pos + 1
  <2> DEFINE k == [op |-> "none", pipeline |-> NewPipeline(pos + 1)]
  <2>1. EmptyCommand \in Command
    <3>1. <<>> \in Seq(Position)
      BY EmptySeq, Zenon
    <3> QED
      BY <3>1 DEF EmptyCommand, Command
  <2>2. <<EmptyCommand>> \in Seq(Command) \ {<<>>}
    BY <2>1
  <2>3. NewPipeline(pos + 1) \in Pipeline /\ NewPipeline(pos + 1).start = pos + 1
    BY <1>3, <2>2 DEF NewPipeline, Pipeline
  <2>4. k \in Link /\ k.op = "none" /\ k.pipeline.start = pos + 1
    BY <2>3 DEF Link
  <2>5. new = [sep |-> "none", andor |-> <<k>>]
    BY DEF NewElement, NewAndOr
  <2> HIDE DEF k
  <2>6. <<k>> \in Seq(Link) \ {<<>>} /\ Len(<<k>>) = 1 /\ <<k>>[1] = k
    BY <2>4
  <2> DEFINE chain == <<k>>
  <2>7. new = [sep |-> "none", andor |-> chain] /\ chain \in Seq(Link) \ {<<>>}
    BY <2>5, <2>6
  <2> HIDE DEF new, chain, e, marked
  <2>8. new \in Element /\ new.sep = "none" /\ new.andor = chain
    BY <2>7 DEF Element
  <2> QED
    BY <2>4, <2>6, <2>8 DEF chain
<1> HIDE DEF e, new
<1>9. /\ marked \in Seq(Element) /\ Len(marked) = L
      /\ \A i \in 1..L : marked[i] = IF i = L THEN e ELSE list[i]
  BY <1>5, <1>6, <1>l, ExceptSeq
<1> HIDE DEF marked
<1>10. \A i \in Elements : /\ marked[i].andor = list[i].andor
                           /\ marked[i].sep = IF i = L THEN Peek ELSE list[i].sep
  BY <1>5, <1>6, <1>9
<1>11. pc'[Shell] = IF tokens[pos'] \in {"eof", "newline"} THEN "expand" ELSE "parse"
  <2>1. Shell \in Proc
    BY MaxForksAssumption DEF Shell, Proc
  <2> QED
    BY <1>1, <1>7, <2>1 DEF TypeOK
<1>12. /\ list' \in Seq(Element) /\ Len(list') \in 1..MaxElements /\ Separated(list')
       /\ Len(list') = Len(list) => pc'[Shell] # "parse"
  <2>1. CASE tokens[pos'] \in {"eof", "newline"}
    <3>1. list' = marked
      BY <1>7, <2>1
    <3>2. Separated(list')
      BY <1>5, <1>9, <1>10, <1>l, <3>1 DEF Separated
    <3> QED
      BY <1>5, <1>9, <1>11, <2>1, <3>1, <3>2
  <2>2. CASE tokens[pos'] \notin {"eof", "newline"}
    <3>1. list' = Append(marked, new)
      BY <1>7, <2>2
    <3>2. /\ list' \in Seq(Element) /\ Len(list') = L + 1 /\ list'[L + 1] = new
          /\ \A i \in 1..L : list'[i] = marked[i]
      BY <1>5, <1>8, <1>9, <3>1, AppendProperties
    <3>3. Separated(list')
      <4>1. \A i \in 1..(L + 1) : i \notin Elements => i = L + 1
        BY <1>5
      <4> QED
        BY <1>5, <1>8, <1>10, <1>l, <3>2, <4>1 DEF Separated
    <3>4. pos' < Len(tokens)
      BY <1>1, <1>3, <1>4, <2>2 DEF Text, Position
    <3>5. L + 1 =< MaxElements
      <4>1. Len(tokens) =< MaxElements + 1 /\ L =< pos
        BY <1>1, <1>l DEF Text, Open
      <4> QED
        BY <1>3, <1>4, <1>5, <3>4, <4>1
    <3> QED
      BY <1>5, <1>l, <3>2, <3>3, <3>5
  <2> QED
    BY <2>1, <2>2
<1>13. Built'
  BY <1>1, <1>2, <1>4, <1>12, SeparatorBuilds
<1>14. pc' = pc \/ pc' = [pc EXCEPT ![Shell] = "expand"]
  BY <1>7
<1> QED
  BY <1>1, <1>4, <1>12, <1>13, <1>14, ParserKeeps

\* The parser keeps the invariant.
LEMMA ParseKeeps ==
  ASSUME IInv, Parse
  PROVE  IInv'
<1>1. CASE ParseWord \/ ParseAssignment \/ ParsePipe
  BY <1>1, WordKeeps
<1>2. CASE ParseRedirect
  BY <1>2, RedirectKeeps
<1>3. CASE ParseAndOr
  BY <1>3, AndOrKeeps
<1>4. CASE ParseSeparator
  BY <1>4, SeparatorKeeps
<1>5. CASE ParseEnd
  BY <1>5, EndKeeps
<1> QED
  BY <1>1, <1>2, <1>3, <1>4, <1>5 DEF Parse

-----------------------------------------------------------------------------
(* Execution. *)

Places == {"parse", "segv", "expand", "list", "andor", "pipes", "unborn", "done", "exited",
           "ended"}

Runners == {"list", "andor", "pipes", "done", "exited", "ended"}

\* Execution leaves the list alone, and with it what the parser has built.
LEMMA ListStays ==
  ASSUME IInv, UNCHANGED <<tokens, pos, list>>, pc'[Shell] # "parse"
  PROVE  /\ tokens' = tokens /\ pos' = pos /\ list' = list
         /\ Position' = Position /\ Element' = Element /\ Frame' = Frame
         /\ Elements' = Elements /\ Commands' = Commands
         /\ \A i \in Elements : /\ Links(i)' = Links(i) /\ Asked(i)' = Asked(i)
                                /\ \A j \in Links(i) : Start(i, j)' = Start(i, j)
         /\ Text' /\ Built'
<1>1. /\ tokens' = tokens /\ pos' = pos /\ list' = list /\ Text
      /\ Increasing /\ Marked /\ LastIsPlain
  BY DEF IInv, Built
<1>2. Position' = Position /\ Element' = Element /\ Frame' = Frame /\ Text'
  BY <1>1, LineStays
<1>3. Elements' = Elements
  BY <1>1 DEF Elements
<1>4. Commands' = Commands
  BY <1>1, <1>3, Zenon DEF Commands
<1>5. \A i \in Elements : /\ Links(i)' = Links(i) /\ Asked(i)' = Asked(i)
                          /\ \A j \in Links(i) : Start(i, j)' = Start(i, j)
  BY <1>1 DEF Links, Asked, Start
<1>6. Increasing' /\ LastIsPlain' /\ Open'
  BY <1>1, <1>3 DEF Increasing, Links, Start, LastIsPlain, Open
<1>7. Marked'
  BY <1>1, <1>3 DEF Marked, LastToken, StartOf
<1> QED
  BY <1>1, <1>2, <1>3, <1>4, <1>5, <1>6, <1>7 DEF Built

\* The fields of a frame.
LEMMA FrameFacts ==
  ASSUME NEW f \in Frame
  PROVE  /\ f.li \in 1..(MaxElements + 1) /\ f.li \in Nat /\ f.li >= 1
         /\ f.ai \in Nat \ {0} /\ f.status \in {0, 1}
         /\ f.iter \in Seq(Command) /\ f.awaited \in SUBSET Proc
         /\ f.job \in 0..MaxElements /\ f.job \in Nat /\ f.root \in Proc /\ f.after \in Nat
BY LinesAssumption DEF Frame

\* A frame with fields changed is one.
LEMMA FrameChanged ==
  ASSUME NEW f \in Frame
  PROVE  /\ \A l \in 1..(MaxElements + 1) : [f EXCEPT !.li = l] \in Frame
         /\ \A a \in Nat \ {0}, s \in {0, 1} : [f EXCEPT !.ai = a, !.status = s] \in Frame
         /\ \A a \in Nat \ {0}, s \in {0, 1}, j \in 0..MaxElements, t \in Nat :
              [f EXCEPT !.ai = a, !.status = s, !.job = j, !.after = t] \in Frame
         /\ \A a \in Nat \ {0} : [f EXCEPT !.ai = a] \in Frame
         /\ \A a \in Nat \ {0}, c \in Seq(Command) :
              [f EXCEPT !.ai = a, !.iter = c] \in Frame
         /\ \A c \in Seq(Command) : [f EXCEPT !.iter = c] \in Frame
         /\ \A c \in Seq(Command), w \in SUBSET Proc :
              [f EXCEPT !.iter = c, !.awaited = w] \in Frame
         /\ \A c \in Seq(Command), w \in SUBSET Proc, s \in {0, 1} :
              [f EXCEPT !.iter = c, !.awaited = w, !.status = s] \in Frame
         /\ \A w \in SUBSET Proc, s \in {0, 1} :
              [f EXCEPT !.awaited = w, !.status = s] \in Frame
         /\ \A c \in Seq(Command), w \in SUBSET Proc, r \in Proc, t \in Nat :
              [f EXCEPT !.iter = c, !.awaited = w, !.root = r, !.after = t] \in Frame
BY DEF Frame

\* Where things are when the list is being executed.
LEMMA Bounds ==
  ASSUME IInv
  PROVE  /\ Shell \in Proc
         /\ MaxElements \in Nat /\ Len(list) \in Nat /\ Len(list) =< MaxElements
         /\ Elements = 1..Len(list)
         /\ pc \in [Proc -> Places] /\ local \in [Proc -> Frame]
         /\ \A i \in Elements : Len(list[i].andor) \in Nat /\ Len(list[i].andor) >= 1
<1>1. /\ Len(list) \in Nat /\ Len(list) =< MaxElements /\ Elements = 1..Len(list)
      /\ \A i \in Elements : Len(list[i].andor) \in Nat /\ Len(list[i].andor) >= 1
  BY ListFacts DEF IInv
<1>2. MaxElements \in Nat /\ Shell \in Proc
  BY LinesAssumption, MaxForksAssumption DEF Shell, Proc
<1>3. pc \in [Proc -> Places] /\ local \in [Proc -> Frame]
  BY DEF IInv, TypeOK, Places
<1> QED
  BY <1>1, <1>2, <1>3

\* Expanding a command moves no process.
LEMMA ExpandCommandKeeps ==
  ASSUME IInv, ExpandCommand
  PROVE  IInv'
<1>1. /\ TypeOK /\ Fresh /\ pc[Shell] = "expand" /\ UNCHANGED <<tokens, pos, list>>
      /\ pc' = pc /\ local' = local /\ ran' = ran
      /\ expanded < Len(Commands) /\ expanded' = expanded + 1
  BY DEF IInv, ExpandCommand
<1>2. /\ tokens' = tokens /\ pos' = pos /\ list' = list
      /\ Position' = Position /\ Element' = Element /\ Frame' = Frame
      /\ Commands' = Commands
      /\ Text' /\ Built'
  BY <1>1, ListStays
<1>3. Commands \in Seq(Command) /\ Len(Commands) \in Nat
  BY <1>1, CommandsTyped DEF TypeOK
<1>4. expanded \in Nat /\ expanded' \in 0..Len(Commands)
  BY <1>1, <1>3 DEF TypeOK
<1> DEFINE c == Commands[expanded + 1]
<1>5. c \in Command
  <2>1. expanded + 1 \in 1..Len(Commands)
    BY <1>1, <1>3, <1>4
  <2> QED
    BY <1>3, <2>1, ElementOfSeq
<1>6. /\ Range(c.assignments) \subseteq Position /\ Range(c.argv) \subseteq Position
      /\ Range(c.targets) \subseteq Position
  <2> HIDE DEF c
  <2>1. /\ c.assignments \in Seq(Position) /\ c.argv \in Seq(Position)
        /\ c.targets \in Seq(Position)
    BY <1>5 DEF Command
  <2>2. ASSUME NEW q \in Seq(Position) PROVE Range(q) \subseteq Position
    BY ElementOfSeq DEF Range
  <2> QED
    BY <2>1, <2>2
<1>7. /\ seen' = [k \in DOMAIN seen \cup DOMAIN SeenBy(c) |->
                     IF k \in DOMAIN SeenBy(c) THEN SeenBy(c)[k] ELSE seen[k]]
      /\ assigned' = assigned \cup Range(c.assignments)
  BY DEF ExpandCommand
<1> HIDE DEF c
<1>8. DOMAIN SeenBy(c) \subseteq Position
  BY <1>6 DEF SeenBy
<1>9. DOMAIN seen' \subseteq Position /\ assigned' \subseteq Position
  BY <1>1, <1>6, <1>7, <1>8 DEF TypeOK
<1>10. TypeOK'
  BY <1>1, <1>2, <1>4, <1>9, Zenon DEF TypeOK
<1>11. Fresh'
  BY <1>1 DEF Fresh
<1>12. UnderWay' /\ Ran' /\ Served' /\ InOrderOnce'
  BY <1>1, <1>10, <1>11, NextFreshIsUnderWay
<1> QED
  BY <1>2, <1>10, <1>11, <1>12 DEF IInv

\* What is left to show of a step of the execution.
LEMMA StepKeeps ==
  ASSUME IInv, UNCHANGED <<tokens, pos, list, expansion>>,
         pc'[Shell] \notin {"parse", "segv", "expand"}, pc' \in [Proc -> Places],
         local' \in [Proc -> Frame],
         ran' \in Seq([proc : Proc, start : Position, before : {0, 1}]),
         UnderWay', Ran', Served', InOrderOnce'
  PROVE  IInv'
<1>1. TypeOK /\ UNCHANGED <<tokens, pos, list>> /\ pc'[Shell] # "parse"
      /\ expanded' = expanded /\ assigned' = assigned /\ seen' = seen
  BY DEF IInv, expansion
<1>2. /\ tokens' = tokens /\ pos' = pos /\ list' = list
      /\ Position' = Position /\ Element' = Element /\ Frame' = Frame
      /\ Commands' = Commands /\ Text' /\ Built'
  BY <1>1, ListStays
<1>3. TypeOK'
  BY <1>1, <1>2, Zenon DEF TypeOK, Places
<1>4. Fresh'
  BY DEF Fresh
<1> QED
  BY <1>2, <1>3, <1>4 DEF IInv

\* Two pipelines of the list stand at different places of the text.
LEMMA PlacesDiffer ==
  ASSUME TypeOK, Increasing, NEW i \in Elements, NEW m \in Elements,
         NEW j \in Links(i), NEW k \in Links(m)
  PROVE  /\ Start(i, j) \in Nat /\ Start(m, k) \in Nat
         /\ i < m \/ (i = m /\ j < k) => Start(i, j) < Start(m, k)
         /\ Start(i, j) = Start(m, k) => i = m /\ j = k
<1>1. /\ Start(i, j) \in Nat /\ Start(m, k) \in Nat /\ j \in Nat /\ k \in Nat
      /\ i \in Nat /\ m \in Nat
  BY ListFacts DEF Links, Position
<1>2. /\ i < m \/ (i = m /\ j < k) => Start(i, j) < Start(m, k)
      /\ m < i \/ (i = m /\ k < j) => Start(m, k) < Start(i, j)
  BY DEF Increasing
<1> QED
  BY <1>1, <1>2

\* Process p goes on, past at least what it was past before, and process q, if
\* it is another one, is forked: for an element p is at and passes, or as a
\* copy of p.
Forked(p, q) ==
    /\ ~Born(q) /\ pc'[q] \in {"andor", "pipes"} /\ Place(q)' /\ Ahead(q)'
    /\ \/ local'[q].root = q
       \/ /\ local'[q].root = local[p].root /\ local[p].job = 0 /\ local'[q].job # 0
          /\ local[p].li =< local'[q].job /\ local'[q].job < local'[p].li

Moves(p, q) ==
    /\ UNCHANGED <<tokens, pos, list, expansion>>
    /\ pc' \in [Proc -> Places] /\ local' \in [Proc -> Frame]
    /\ Born(p) /\ pc'[p] \in Runners /\ Place(p)' /\ Ahead(p)'
    /\ local'[p].job = local[p].job /\ local'[p].root = local[p].root
    /\ local'[p].after = local[p].after /\ local[p].li =< local'[p].li
    /\ \A i \in Elements : \A j \in Links(i) : Passed(p, i, j) => Passed(p, i, j)'
    /\ \A r \in Proc : r # p /\ r # q => pc'[r] = pc[r] /\ local'[r] = local[r]
    /\ q # p => Forked(p, q)

\* Nothing else moves, and each process keeps what it came of.
LEMMA MoveFacts ==
  ASSUME IInv, NEW p \in Proc, NEW q \in Proc, Moves(p, q)
  PROVE  /\ pc'[Shell] \notin {"parse", "segv", "expand"}
         /\ \A r \in Proc : Born(r) => /\ Born(r)' /\ local'[r].job = local[r].job
                                       /\ local'[r].root = local[r].root
                                       /\ local'[r].after = local[r].after
                                       /\ local[r].li =< local'[r].li
         /\ \A r \in Proc : Born(r)' /\ ~Born(r) => r = q /\ q # p
         /\ \A r \in Proc, i \in Elements : \A j \in Links(i) :
              Born(r) /\ Behind(r, i, j) => Behind(r, i, j)'
         /\ UnderWay'
<1>1. /\ TypeOK /\ UnderWay /\ Fresh /\ UNCHANGED <<tokens, pos, list>>
      /\ list' = list /\ Elements' = Elements
  BY DEF IInv, Moves, Elements
<1>2. pc'[Shell] \notin {"parse", "segv", "expand"}
  <2>1. CASE Shell \in {p, q}
    BY <2>1 DEF Moves, Forked, Runners
  <2>2. CASE Shell \notin {p, q}
    <3>1. pc'[Shell] = pc[Shell]
      BY <2>2, Bounds DEF Moves
    <3>2. pc[Shell] \notin {"parse", "segv", "expand"}
      BY <1>1, <2>2 DEF Moves, Fresh, Born
    <3> QED
      BY <3>1, <3>2
  <2> QED
    BY <2>1, <2>2
<1>3. \A r \in Proc : Born(r) => /\ Born(r)' /\ local'[r].job = local[r].job
                                 /\ local'[r].root = local[r].root
                                 /\ local'[r].after = local[r].after
                                 /\ local[r].li =< local'[r].li
  <2> SUFFICES ASSUME NEW r \in Proc, Born(r)
               PROVE  /\ Born(r)' /\ local'[r].job = local[r].job
                      /\ local'[r].root = local[r].root
                      /\ local'[r].after = local[r].after
                      /\ local[r].li =< local'[r].li
    OBVIOUS
  <2>1. CASE r = p
    BY <2>1 DEF Moves, Born, Runners
  <2>2. CASE r # p
    <3>1. pc'[r] = pc[r] /\ local'[r] = local[r]
      BY <2>2 DEF Moves, Forked
    <3>2. local[r].li \in Nat
      BY Bounds, FrameFacts
    <3> QED
      BY <3>1, <3>2 DEF Born
  <2> QED
    BY <2>1, <2>2
<1>4. \A r \in Proc : Born(r)' /\ ~Born(r) => r = q /\ q # p
  BY DEF Moves, Born
<1>5. \A r \in Proc, i \in Elements : \A j \in Links(i) :
        Born(r) /\ Behind(r, i, j) => Behind(r, i, j)'
  <2> SUFFICES ASSUME NEW r \in Proc, NEW i \in Elements, NEW j \in Links(i),
                      Born(r), Behind(r, i, j)
               PROVE  Behind(r, i, j)'
    OBVIOUS
  <2>1. Mine(r, i)'
    BY <1>1, <1>3 DEF Behind, Mine
  <2>2. CASE r = p
    BY <2>1, <2>2 DEF Behind, Moves
  <2>3. CASE r # p
    <3>1. pc'[r] = pc[r] /\ local'[r] = local[r]
      BY <2>3 DEF Moves, Forked
    <3> QED
      BY <2>1, <3>1 DEF Behind, Passed
  <2> QED
    BY <2>2, <2>3
<1>6. ASSUME NEW r \in Proc, Born(r)'
      PROVE  Place(r)' /\ Ahead(r)' /\ Born(local[r].root)'
  <2>1. CASE r \in {p, q}
    <3>1. Place(r)' /\ Ahead(r)'
      BY <2>1 DEF Moves, Forked
    <3>2. Born(local[r].root)'
      <4>1. local[p] \in Frame
        BY Bounds
      <4>2. local[p].root \in Proc /\ Born(local[p].root)
        BY <1>1, <4>1, FrameFacts DEF Moves, UnderWay
      <4>3. pc'[local[p].root] # "unborn"
        BY <1>3, <4>2 DEF Born
      <4>4. local'[r].root = r \/ local'[r].root = local[p].root
        BY <2>1 DEF Moves, Forked
      <4>5. pc'[r] # "unborn"
        BY <1>6 DEF Born
      <4>6. pc'[local'[r].root] # "unborn"
        BY <4>3, <4>4, <4>5
      <4> QED
        BY <4>6 DEF Born
    <3> QED
      BY <3>1, <3>2
  <2>2. CASE r \notin {p, q}
    <3>1. pc'[r] = pc[r] /\ local'[r] = local[r] /\ Born(r)
      BY <1>6, <2>2 DEF Moves, Born
    <3>2. Place(r) /\ Ahead(r) /\ local[r].root \in Proc /\ Born(local[r].root)
      BY <1>1, <3>1, Bounds, FrameFacts DEF UnderWay
    <3>3. Place(r)'
      BY <1>1, <3>1, <3>2 DEF Place, Mine, Links
    <3>4. \A i \in Elements : /\ Links(i)' = Links(i)
                              /\ \A j \in Links(i) : Start(i, j)' = Start(i, j)
      BY <1>1 DEF Links, Start
    <3>5. Ahead(r)'
      BY <1>1, <3>1, <3>2, <3>4 DEF Ahead, Passed
    <3>6. Born(local[r].root)'
      BY <1>3, <3>1, <3>2 DEF Born
    <3> QED
      BY <3>3, <3>5, <3>6
  <2> QED
    BY <2>1, <2>2
<1>7. ASSUME NEW r \in Proc, NEW s \in Proc, Born(r)', Born(s)'
      PROVE  Kin(r, s)'
  <2> SUFFICES ASSUME local'[r].root = local'[s].root
               PROVE  /\ local'[r].job = local'[s].job => r = s
                      /\ local'[r].job = 0 /\ local'[s].job # 0 =>
                           local'[s].job < local'[r].li
    BY DEF Kin
  <2>1. local \in [Proc -> Frame] /\ local' \in [Proc -> Frame]
    BY Bounds DEF Moves
  <2>2. /\ local[r].li \in Nat /\ local[s].li \in Nat /\ local[p].li \in Nat
        /\ local'[r].li \in Nat /\ local'[s].li \in Nat
        /\ local[r].job \in Nat /\ local[s].job \in Nat /\ local[p].job \in Nat
        /\ local'[r].job \in Nat /\ local'[s].job \in Nat
    BY <2>1, FrameFacts
  <2>3. CASE Born(r) /\ Born(s)
    <3>1. Kin(r, s)
      BY <1>1, <2>3 DEF UnderWay
    <3> QED
      BY <1>3, <2>2, <2>3, <3>1 DEF Kin
  <2>4. ASSUME ~(Born(r) /\ Born(s)), r # s
        PROVE  \E t \in Proc : /\ Born(t) /\ Forked(p, q) /\ q \in Proc
                               /\ (r = q /\ s = t) \/ (s = q /\ r = t)
    <3>1. \A t \in Proc : Born(t)' /\ ~Born(t) => t = q /\ Forked(p, q)
      BY <1>4 DEF Moves
    <3> QED
      BY <1>7, <2>4, <3>1
  <2>5. CASE ~(Born(r) /\ Born(s)) /\ r # s
    <3>1. PICK t \in Proc : /\ Born(t) /\ Forked(p, q)
                            /\ (r = q /\ s = t) \/ (s = q /\ r = t)
      BY <2>4, <2>5
    <3>2. local'[t].job = local[t].job /\ local'[t].root = local[t].root
      BY <1>3, <3>1
    <3>3. /\ local[t].root = local[p].root /\ local[p].job = 0 /\ local'[q].job # 0
          /\ local[p].li =< local'[q].job /\ local'[q].job < local'[p].li
      <4>1. local'[q].root = local[t].root
        BY <3>1, <3>2
      <4>2. Born(local[t].root)
        BY <1>1, <3>1 DEF UnderWay
      <4> QED
        BY <3>1, <4>1, <4>2 DEF Forked
    <3>4. Kin(t, p) /\ Kin(p, t)
      BY <1>1, <3>1 DEF UnderWay, Moves
    <3>5. CASE t = p
      BY <2>2, <3>1, <3>2, <3>3, <3>5
    <3>6. CASE t # p
      <4>1. local[t].job # 0 /\ local[t].job < local[p].li
        BY <3>3, <3>4, <3>6 DEF Kin
      <4> QED
        BY <2>2, <3>1, <3>2, <3>3, <4>1
    <3> QED
      BY <3>5, <3>6
  <2>6. CASE r = s
    BY <2>6
  <2> QED
    BY <2>3, <2>5, <2>6
<1>8. UnderWay'
  BY <1>6, <1>7 DEF UnderWay
<1> QED
  BY <1>2, <1>3, <1>4, <1>5, <1>8

\* A step that runs nothing, and brings no chain behind a process that it has
\* not run.
LEMMA QuietKeeps ==
  ASSUME IInv, NEW p \in Proc, NEW q \in Proc, Moves(p, q), ran' = ran,
         \A i \in Elements : Len(list[i].andor) = 1 /\ Behind(p, i, 1)' =>
            Behind(p, i, 1) \/ Asked(i) = {},
         q # p => \A i \in Elements : Len(list[i].andor) = 1 /\ Behind(q, i, 1)' =>
                     ~(local'[q].after < Start(i, 1))
  PROVE  IInv'
<1>1. /\ TypeOK /\ Ran /\ Served /\ InOrderOnce /\ UNCHANGED <<tokens, pos, list>>
      /\ UNCHANGED <<tokens, pos, list, expansion>>
      /\ pc' \in [Proc -> Places] /\ local' \in [Proc -> Frame] /\ Born(p)
  BY DEF IInv, Moves
<1>2. /\ pc'[Shell] \notin {"parse", "segv", "expand"}
      /\ \A r \in Proc : Born(r) => /\ Born(r)' /\ local'[r].job = local[r].job
                                    /\ local'[r].root = local[r].root
                                    /\ local'[r].after = local[r].after
      /\ \A r \in Proc : Born(r)' /\ ~Born(r) => r = q /\ q # p
      /\ \A r \in Proc, i \in Elements : \A j \in Links(i) :
           Born(r) /\ Behind(r, i, j) => Behind(r, i, j)'
      /\ UnderWay'
  BY MoveFacts
<1>3. /\ list' = list /\ Elements' = Elements
      /\ \A i \in Elements : /\ Links(i)' = Links(i) /\ Asked(i)' = Asked(i)
                             /\ \A j \in Links(i) : Start(i, j)' = Start(i, j)
  BY <1>1, <1>2, ListStays
<1>4. ran \in Seq([proc : Proc, start : Position, before : {0, 1}])
  BY <1>1 DEF TypeOK
<1>5. Ran'
  <2> SUFFICES ASSUME NEW a \in 1..Len(ran)
               PROVE  \E r \in Proc, i \in Elements : \E j \in Links(i) :
                        /\ ran[a].proc = r /\ ran[a].start = Start(i, j)'
                        /\ ~Empty(list[i].andor[j].pipeline)
                        /\ Born(r)' /\ Behind(r, i, j)' /\ local'[r].after < Start(i, j)'
    BY <1>3 DEF Ran
  <2>1. PICK r \in Proc, i \in Elements : \E j \in Links(i) :
          /\ ran[a].proc = r /\ ran[a].start = Start(i, j)
          /\ ~Empty(list[i].andor[j].pipeline)
          /\ Born(r) /\ Behind(r, i, j) /\ local[r].after < Start(i, j)
    BY <1>1 DEF Ran
  <2>2. PICK j \in Links(i) : /\ ran[a].proc = r /\ ran[a].start = Start(i, j)
                              /\ ~Empty(list[i].andor[j].pipeline)
                              /\ Born(r) /\ Behind(r, i, j) /\ local[r].after < Start(i, j)
    BY <2>1
  <2>3. Born(r)' /\ Behind(r, i, j)' /\ local'[r].after = local[r].after
    BY <1>2, <2>2
  <2>4. Start(i, j)' = Start(i, j)
    BY <1>3
  <2> QED
    BY <2>2, <2>3, <2>4
<1>6. Served'
  <2> SUFFICES ASSUME NEW r \in Proc, Born(r)', NEW i \in Elements,
                      Len(list[i].andor) = 1, Behind(r, i, 1)',
                      local'[r].after < Start(i, 1)
               PROVE  Asked(i) \subseteq RanBy(r)
    <3>1. \A r \in Proc : RanBy(r)' = RanBy(r)
      BY DEF RanBy
    <3>2. \A i \in Elements : Len(list[i].andor) = 1 => Start(i, 1)' = Start(i, 1)
      BY <1>3 DEF Links
    <3> QED
      BY <1>3, <3>1, <3>2 DEF Served, ServedBy
  <2>1. CASE Born(r) /\ Behind(r, i, 1)
    BY <1>1, <1>2, <2>1 DEF Served, ServedBy
  <2>2. CASE Born(r) /\ ~Behind(r, i, 1)
    <3>1. CASE r = p
      BY <2>2, <3>1
    <3>2. CASE r # p
      <4>1. r # q \/ q = p
        BY <2>2 DEF Moves, Forked
      <4>2. pc'[r] = pc[r] /\ local'[r] = local[r]
        BY <3>2, <4>1 DEF Moves
      <4>3. Behind(r, i, 1)
        BY <1>3, <4>2 DEF Behind, Mine, Passed
      <4> QED
        BY <2>2, <4>3
    <3> QED
      BY <3>1, <3>2
  <2>3. CASE ~Born(r)
    BY <1>2, <2>3
  <2> QED
    BY <2>1, <2>2, <2>3
<1>7. InOrderOnce'
  <2>1. ASSUME NEW a \in DOMAIN ran
        PROVE  /\ local'[ran[a].proc].after = local[ran[a].proc].after
               /\ local'[ran[a].proc].root = local[ran[a].proc].root
    <3>1. a \in 1..Len(ran)
      BY <1>4
    <3>2. ran[a].proc \in Proc /\ Born(ran[a].proc)
      BY <1>1, <3>1 DEF Ran
    <3> QED
      BY <1>2, <3>2
  <2> QED
    BY <1>1, <2>1 DEF InOrderOnce
<1> QED
  BY <1>1, <1>2, <1>4, <1>5, <1>6, <1>7, StepKeeps

\* Where a process is that runs the list.
LEMMA PlaceFacts ==
  ASSUME IInv, NEW p \in Proc
  PROVE  /\ local[p] \in Frame /\ local[p].li \in Nat /\ local[p].li >= 1
         /\ local[p].ai \in Nat \ {0} /\ local[p].status \in {0, 1}
         /\ local[p].iter \in Seq(Command) /\ local[p].awaited \in SUBSET Proc
         /\ local[p].job \in Nat /\ local[p].job =< MaxElements
         /\ local[p].root \in Proc /\ local[p].after \in Nat
         /\ Born(p) => Place(p) /\ Ahead(p)
         /\ pc[p] \in {"andor", "pipes"} =>
              /\ local[p].li \in Elements /\ Mine(p, local[p].li)
              /\ Chain(p) = list[local[p].li].andor
<1>1. local[p] \in Frame
  BY Bounds
<1>2. Born(p) => Place(p) /\ Ahead(p)
  BY DEF IInv, UnderWay
<1>3. /\ local[p].li \in Nat /\ local[p].li >= 1
      /\ local[p].ai \in Nat \ {0} /\ local[p].status \in {0, 1}
      /\ local[p].iter \in Seq(Command) /\ local[p].awaited \in SUBSET Proc
      /\ local[p].job \in Nat /\ local[p].job =< MaxElements
      /\ local[p].root \in Proc /\ local[p].after \in Nat
  BY <1>1, FrameFacts
<1>4. pc[p] \in {"andor", "pipes"} => local[p].li \in Elements /\ Mine(p, local[p].li)
  BY <1>2, <1>3, Bounds DEF Place, Born
<1> QED
  BY <1>1, <1>2, <1>3, <1>4 DEF Chain

\* What a process has to come to grows less.
LEMMA AheadStays ==
  ASSUME NEW p \in Proc, Ahead(p), pc[p] \in {"list", "andor", "pipes"}, list' = list,
         local'[p].after = local[p].after,
         \A i \in Elements : \A j \in Links(i) : Passed(p, i, j) => Passed(p, i, j)'
  PROVE  Ahead(p)'
<1>1. /\ Elements' = Elements
      /\ \A i \in Elements : /\ Links(i)' = Links(i)
                             /\ \A j \in Links(i) : Start(i, j)' = Start(i, j)
  BY DEF Elements, Links, Start
<1> QED
  BY <1>1 DEF Ahead

\* The whole list has been expanded: execution begins.
LEMMA ExpandDoneKeeps ==
  ASSUME IInv, ExpandDone
  PROVE  IInv'
<1>1. /\ TypeOK /\ Fresh /\ pc[Shell] = "expand"
      /\ UNCHANGED <<tokens, pos, list, expansion>>
      /\ pc' = [pc EXCEPT ![Shell] = "list"] /\ local' = local /\ ran' = ran
      /\ list' = list
  BY DEF IInv, ExpandDone
<1>2. /\ Shell \in Proc /\ pc' \in [Proc -> Places] /\ local' \in [Proc -> Frame]
      /\ pc'[Shell] = "list" /\ \A r \in Proc : r # Shell => pc'[r] = pc[r]
  BY <1>1, Bounds DEF Places
<1>3. local[Shell].li = 1 /\ local[Shell].job = 0 /\ local[Shell].after = 0
  BY <1>1, <1>2 DEF Fresh, FirstFrame
<1>4. \A i \in Elements : \A j \in Links(i) : ~Passed(Shell, i, j) /\ ~Passed(Shell, i, j)'
  <2>1. \A i \in Elements : ~(i < 1)
    BY Bounds
  <2> QED
    BY <1>1, <1>2, <1>3, <2>1 DEF Passed
<1>5. Place(Shell)'
  BY <1>1, <1>2, <1>3, Bounds DEF Place
<1>6. Ahead(Shell)'
  <2>1. \A i \in Elements : \A j \in Links(i) : 0 < Start(i, j)
    BY <1>1, ListFacts DEF Position
  <2>2. \A i \in Elements : \A j \in Links(i) : Start(i, j)' = Start(i, j)
    BY <1>1 DEF Start
  <2> QED
    BY <1>1, <1>2, <1>3, <2>1, <2>2 DEF Ahead, Elements, Links
<1>7. Moves(Shell, Shell)
  BY <1>1, <1>2, <1>3, <1>4, <1>5, <1>6 DEF Moves, Born, Runners
<1>8. \A i \in Elements : Len(list[i].andor) = 1 => 1 \in Links(i)
  BY DEF Links
<1> QED
  BY <1>1, <1>2, <1>4, <1>7, <1>8, QuietKeeps DEF Behind

\* A process takes on a chain that is for it.
LEMMA StartChainKeeps ==
  ASSUME IInv, NEW p \in Proc, StartChain(p)
  PROVE  IInv'
<1>1. /\ pc[p] = "list" /\ local[p].li =< Len(list) /\ list[local[p].li].sep # "amp"
      /\ UNCHANGED <<tokens, pos, list, expansion>> /\ list' = list /\ ran' = ran
      /\ pc' = [pc EXCEPT ![p] = "andor"]
      /\ local' = [local EXCEPT ![p].ai = 1, ![p].status = 0]
  BY DEF StartChain, AtElement
<1>2. Place(p) /\ Ahead(p) /\ local[p] \in Frame /\ local[p].li \in Nat /\ Born(p)
  BY <1>1, PlaceFacts DEF Born
<1>3. /\ local'[p] = [local[p] EXCEPT !.ai = 1, !.status = 0]
      /\ \A r \in Proc : r # p => pc'[r] = pc[r] /\ local'[r] = local[r]
      /\ pc' \in [Proc -> Places] /\ pc'[p] = "andor"
  BY <1>1, Bounds DEF Places
<1>4. /\ local'[p] \in Frame /\ local'[p].li = local[p].li /\ local'[p].ai = 1
      /\ local'[p].job = local[p].job /\ local'[p].root = local[p].root
      /\ local'[p].after = local[p].after
  <2>1. PICK a, s : a = 1 /\ s = 0
    OBVIOUS
  <2>2. local'[p] = [local[p] EXCEPT !.ai = a, !.status = s]
    BY <1>3, <2>1
  <2>3. local'[p] \in Frame
    <3>1. a \in Nat \ {0} /\ s \in {0, 1}
      BY <2>1
    <3>2. [local[p] EXCEPT !.ai = a, !.status = s] \in Frame
      BY <1>2, <3>1, FrameChanged, Zenon
    <3> QED
      BY <2>2, <3>2, Zenon
  <2> QED
    BY <1>2, <2>1, <2>2, <2>3 DEF Frame
<1>5. local' \in [Proc -> Frame]
  BY <1>1, <1>4, Bounds
<1>6. \A i \in Elements : \A j \in Links(i) : Passed(p, i, j)' <=> Passed(p, i, j)
  BY <1>1, <1>3, <1>4 DEF Passed, Links
<1>7. Place(p)' /\ Mine(p, local[p].li)'
  <2>1. local[p].job = 0
    BY <1>1, <1>2 DEF Place
  <2> QED
    BY <1>1, <1>2, <1>3, <1>4, <2>1 DEF Place, Mine
<1>8. Ahead(p)'
  BY <1>1, <1>2, <1>4, <1>6, AheadStays
<1>9. Moves(p, p)
  BY <1>1, <1>2, <1>3, <1>4, <1>5, <1>6, <1>7, <1>8 DEF Moves, Runners
<1>10. \A i \in Elements : Len(list[i].andor) = 1 /\ Behind(p, i, 1)' => Behind(p, i, 1)
  <2>1. \A i \in Elements : Len(list[i].andor) = 1 => 1 \in Links(i)
    BY DEF Links
  <2> QED
    BY <1>1, <1>4, <1>6, <2>1 DEF Behind, Mine
<1> QED
  BY <1>1, <1>9, <1>10, QuietKeeps

\* The child that a process forks for a chain begins at the chain.
LEMMA BackgroundFacts ==
  ASSUME IInv, NEW p \in Proc, NEW q \in Proc, AtElement(p), list[local[p].li].sep = "amp",
         list' = list, pc'[q] = "andor", local'[q] = Background(p)
  PROVE  /\ local'[q] \in Frame /\ Place(q)' /\ Ahead(q)'
         /\ local'[q].root = local[p].root /\ local'[q].job = local[p].li
         /\ \A i \in Elements : ~(Mine(q, i)' /\ Passed(q, i, 1)')
<1> DEFINE e == local[p].li
<1>1. /\ pc[p] = "list" /\ e =< Len(list) /\ local[p] \in Frame /\ e \in Nat /\ e >= 1
      /\ TypeOK /\ Increasing /\ Elements = 1..Len(list) /\ Len(list) \in Nat
      /\ Len(list) =< MaxElements /\ MaxElements \in Nat
  BY PlaceFacts, Bounds DEF AtElement, IInv, Built
<1>2. e \in Elements /\ 1 \in Links(e)
  BY <1>1, Bounds DEF Links
<1>3. /\ Start(e, 1) \in Nat /\ Start(e, 1) >= 1
      /\ Chain(p)[1].pipeline.start = Start(e, 1)
  BY <1>1, <1>2, ListFacts DEF Chain, Start, Position
<1>4. /\ local'[q] \in Frame /\ local'[q].li = e /\ local'[q].ai = 1 /\ local'[q].job = e
      /\ local'[q].root = local[p].root /\ local'[q].after = Start(e, 1) - 1
  <2>1. PICK a, s, t : a = 1 /\ s = 0 /\ t = Start(e, 1) - 1
    OBVIOUS
  <2>2. local'[q] = [local[p] EXCEPT !.ai = a, !.status = s, !.job = e, !.after = t]
    BY <1>3, <2>1 DEF Background
  <2>3. a \in Nat \ {0} /\ s \in {0, 1} /\ t \in Nat /\ e \in 0..MaxElements
    BY <1>1, <1>3, <2>1
  <2>4. local'[q] \in Frame
    <3>1. [local[p] EXCEPT !.ai = a, !.status = s, !.job = e, !.after = t] \in Frame
      BY <1>1, <2>3, FrameChanged, Zenon
    <3> QED
      BY <2>2, <3>1, Zenon
  <2> QED
    BY <1>1, <2>1, <2>2, <2>4 DEF Frame
<1>5. Place(q)'
  BY <1>1, <1>4 DEF Place, Mine
<1>6. Ahead(q)'
  <2>1. /\ Elements' = Elements
        /\ \A i \in Elements : /\ Links(i)' = Links(i)
                               /\ \A j \in Links(i) : Start(i, j)' = Start(i, j)
    BY DEF Elements, Links, Start
  <2>2. ASSUME NEW i \in Elements, NEW j \in Links(i), ~Passed(q, i, j)'
        PROVE  Start(e, 1) - 1 < Start(i, j)
    <3>1. i \in Nat /\ j \in Nat /\ j >= 1 /\ ~(i < e)
      BY <1>1, <1>4, <2>2, Bounds DEF Passed, Links
    <3>2. e < i \/ (e = i /\ 1 < j) \/ (e = i /\ 1 = j)
      BY <1>1, <3>1
    <3>3. Start(i, j) \in Nat /\ (e < i \/ (e = i /\ 1 < j) => Start(e, 1) < Start(i, j))
      BY <1>1, <1>2, PlacesDiffer
    <3> QED
      BY <1>3, <3>2, <3>3
  <2> QED
    BY <1>4, <2>1, <2>2 DEF Ahead
<1>7. ASSUME NEW i \in Elements PROVE ~(Mine(q, i)' /\ Passed(q, i, 1)')
  BY <1>1, <1>2, <1>4 DEF Mine, Passed
<1> QED
  BY <1>4, <1>5, <1>6, <1>7

\* A chain followed by "&" goes to a child, or is lost.
LEMMA ForkChainKeeps ==
  ASSUME IInv, NEW p \in Proc, ForkChain(p)
  PROVE  IInv'
<1>1. /\ pc[p] = "list" /\ local[p].li =< Len(list) /\ list[local[p].li].sep = "amp"
      /\ AtElement(p)
      /\ UNCHANGED <<tokens, pos, list, expansion>> /\ list' = list /\ ran' = ran
  BY DEF ForkChain, AtElement
<1>2. /\ Place(p) /\ Ahead(p) /\ local[p] \in Frame /\ local[p].li \in Nat
      /\ local[p].li >= 1 /\ Born(p) /\ local[p].job = 0
      /\ Len(list) \in Nat /\ Len(list) =< MaxElements /\ MaxElements \in Nat
  BY <1>1, PlaceFacts, Bounds DEF Born, Place
<1>3. ASSUME NEW q \in Proc, pc' \in [Proc -> Places], local' \in [Proc -> Frame],
             pc'[p] = "list", local'[p] = [local[p] EXCEPT !.li = @ + 1],
             \A r \in Proc : r # p /\ r # q => pc'[r] = pc[r] /\ local'[r] = local[r],
             q # p => /\ ~Born(q) /\ pc'[q] = "andor" /\ local'[q] = Background(p)
      PROVE  IInv'
  <2>1. /\ local'[p].li = local[p].li + 1 /\ local'[p].job = 0
        /\ local'[p].root = local[p].root /\ local'[p].after = local[p].after
    BY <1>2, <1>3 DEF Frame
  <2>2. \A i \in Elements : i < local'[p].li <=> i < local[p].li \/ i = local[p].li
    BY <1>2, <2>1, Bounds
  <2>3. \A i \in Elements : \A j \in Links(i) : Passed(p, i, j) => Passed(p, i, j)'
    BY <1>1, <2>2 DEF Passed
  <2>4. Place(p)' /\ Ahead(p)'
    <3>1. Place(p)'
      BY <1>1, <1>2, <1>3, <2>1 DEF Place
    <3> QED
      BY <1>1, <1>2, <2>1, <2>3, <3>1, AheadStays
  <2>5. q # p => /\ Forked(p, q)
                 /\ \A i \in Elements : ~Behind(q, i, 1)'
    <3> SUFFICES ASSUME q # p
                 PROVE  Forked(p, q) /\ \A i \in Elements : ~Behind(q, i, 1)'
      OBVIOUS
    <3>1. /\ Place(q)' /\ Ahead(q)'
          /\ local'[q].root = local[p].root /\ local'[q].job = local[p].li
          /\ \A i \in Elements : ~(Mine(q, i)' /\ Passed(q, i, 1)')
      BY <1>1, <1>3, BackgroundFacts
    <3>2. /\ local'[q].job # 0 /\ local[p].li =< local'[q].job
          /\ local'[q].job < local'[p].li
      BY <1>2, <2>1, <3>1
    <3> QED
      BY <1>2, <1>3, <3>1, <3>2 DEF Forked, Behind
  <2>6. local[p].li =< local'[p].li
    BY <1>2, <2>1
  <2>7. Moves(p, q)
    BY <1>1, <1>2, <1>3, <2>1, <2>3, <2>4, <2>5, <2>6 DEF Moves, Runners
  <2>8. \A i \in Elements : Behind(p, i, 1)' => Behind(p, i, 1)
    <3>1. \A i \in Elements : Mine(p, i)' => list[i].sep # "amp" /\ Mine(p, i)
      BY <1>1, <1>2, <2>1, Bounds DEF Mine
    <3> QED
      BY <1>1, <1>3, <2>2, <3>1 DEF Behind, Passed
  <2> QED
    BY <1>1, <2>5, <2>7, <2>8, QuietKeeps
<1>4. [local[p] EXCEPT !.li = @ + 1] \in Frame
  <2>1. PICK l : l = local[p].li + 1
    OBVIOUS
  <2>2. l \in 1..(MaxElements + 1)
    BY <1>1, <1>2, <2>1
  <2>3. [local[p] EXCEPT !.li = l] \in Frame
    BY <1>2, <2>2, FrameChanged
  <2> QED
    BY <2>1, <2>3
<1>5. CASE local' = [local EXCEPT ![p].li = @ + 1] /\ pc' = pc
  <2>1. /\ pc' \in [Proc -> Places] /\ local' \in [Proc -> Frame] /\ pc'[p] = "list"
        /\ local'[p] = [local[p] EXCEPT !.li = @ + 1]
        /\ \A r \in Proc : r # p => pc'[r] = pc[r] /\ local'[r] = local[r]
    BY <1>1, <1>4, <1>5, Bounds
  <2> QED
    BY <1>3, <2>1
<1>6. ASSUME NEW q \in Proc, Child(q), pc' = [pc EXCEPT ![q] = "andor"],
             local' = [local EXCEPT ![p].li = @ + 1, ![q] = Background(p)]
      PROVE  IInv'
  <2>1. ~Born(q) /\ q # p
    BY <1>1, <1>6 DEF Child, Unborn, Born
  <2>2. /\ pc'[p] = "list" /\ local'[p] = [local[p] EXCEPT !.li = @ + 1]
        /\ pc'[q] = "andor" /\ local'[q] = Background(p)
        /\ \A r \in Proc : r # p /\ r # q => pc'[r] = pc[r] /\ local'[r] = local[r]
    BY <1>1, <1>6, <2>1, Bounds
  <2>3. local'[q] \in Frame
    BY <1>1, <2>2, BackgroundFacts
  <2>4. pc' \in [Proc -> Places] /\ local' \in [Proc -> Frame]
    BY <1>4, <1>6, <2>1, <2>2, <2>3, Bounds DEF Places
  <2> QED
    BY <1>3, <2>1, <2>2, <2>4
<1> QED
  BY <1>1, <1>5, <1>6 DEF ForkChain

\* A process that leaves a chain of one pipeline has been past it.
LEMMA LeftBehind ==
  ASSUME IInv, NEW p \in Proc, pc[p] = "andor", Len(Chain(p)) = 1,
         ~(/\ local[p].ai =< Len(Chain(p))
           /\ Runs(Chain(p)[local[p].ai].op, local[p].status))
  PROVE  local[p].ai > 1
<1>1. /\ LastIsPlain /\ local[p].ai \in Nat \ {0} /\ local[p].li \in Elements
      /\ Chain(p) = list[local[p].li].andor
  BY PlaceFacts DEF IInv, Built
<1>2. Chain(p)[1].op = "none"
  BY <1>1 DEF LastIsPlain
<1>3. local[p].ai # 1
  BY <1>2 DEF Runs
<1> QED
  BY <1>1, <1>3

\* A process that has come to the end of its chain, or leaves it.
LEMMA ChainDoneKeeps ==
  ASSUME IInv, NEW p \in Proc, pc[p] = "andor",
         ~(/\ local[p].ai =< Len(Chain(p))
           /\ Runs(Chain(p)[local[p].ai].op, local[p].status)),
         UNCHANGED <<tokens, pos, list, expansion>>, ChainDone(p)
  PROVE  IInv'
<1>1. /\ list' = list /\ ran' = ran
      /\ pc' = [pc EXCEPT ![p] = IF local[p].job = 0 THEN "list" ELSE "exited"]
      /\ local' = IF local[p].job = 0 THEN [local EXCEPT ![p].li = @ + 1] ELSE local
  BY DEF ChainDone
<1>2. /\ Place(p) /\ Ahead(p) /\ local[p] \in Frame /\ local[p].li \in Nat
      /\ local[p].li >= 1 /\ Born(p) /\ local[p].li \in Elements
      /\ Chain(p) = list[local[p].li].andor /\ local[p].ai \in Nat
      /\ Len(list) \in Nat /\ Len(list) =< MaxElements /\ MaxElements \in Nat
  BY PlaceFacts, Bounds DEF Born
<1>3. Len(Chain(p)) = 1 => local[p].ai > 1
  BY LeftBehind
<1>4. /\ pc' \in [Proc -> Places]
      /\ pc'[p] = IF local[p].job = 0 THEN "list" ELSE "exited"
      /\ \A r \in Proc : r # p => pc'[r] = pc[r] /\ local'[r] = local[r]
  BY <1>1, Bounds DEF Places
<1>5. CASE local[p].job = 0
  <2>1. local'[p] = [local[p] EXCEPT !.li = @ + 1] /\ pc'[p] = "list"
    BY <1>1, <1>4, <1>5, Bounds
  <2>2. /\ local'[p] \in Frame /\ local'[p].li = local[p].li + 1 /\ local'[p].job = 0
        /\ local'[p].root = local[p].root /\ local'[p].after = local[p].after
    <3>1. PICK l : l = local[p].li + 1
      OBVIOUS
    <3>2. l \in 1..(MaxElements + 1) /\ local'[p] = [local[p] EXCEPT !.li = l]
      BY <1>2, <2>1, <3>1, Bounds
    <3>3. local'[p] \in Frame
      BY <1>2, <3>2, FrameChanged
    <3> QED
      BY <1>2, <1>5, <3>1, <3>2, <3>3 DEF Frame
  <2>3. local' \in [Proc -> Frame] /\ local[p].li =< local'[p].li
    BY <1>1, <1>2, <1>5, <2>1, <2>2, Bounds
  <2>4. \A i \in Elements : i < local'[p].li <=> i < local[p].li \/ i = local[p].li
    BY <1>2, <2>2, Bounds
  <2>5. \A i \in Elements : \A j \in Links(i) : Passed(p, i, j) => Passed(p, i, j)'
    BY <2>4 DEF Passed
  <2>6. Place(p)'
    BY <1>1, <1>2, <2>1, <2>2, Bounds DEF Place
  <2>7. Ahead(p)'
    BY <1>1, <1>2, <2>2, <2>5, AheadStays
  <2>8. Moves(p, p)
    BY <1>2, <1>4, <1>5, <2>1, <2>2, <2>3, <2>5, <2>6, <2>7 DEF Moves, Runners
  <2>9. ASSUME NEW i \in Elements, Len(list[i].andor) = 1, Behind(p, i, 1)'
        PROVE  Behind(p, i, 1)
    <3>1. Mine(p, i) /\ (i < local[p].li \/ i = local[p].li)
      BY <1>1, <1>5, <2>1, <2>2, <2>4, <2>9 DEF Behind, Mine, Passed
    <3>2. i = local[p].li => local[p].ai > 1
      BY <1>2, <1>3, <2>9
    <3> QED
      BY <1>2, <3>1, <3>2 DEF Behind, Passed
  <2> QED
    BY <1>1, <2>8, <2>9, QuietKeeps
<1>6. CASE local[p].job # 0
  <2>1. local' = local /\ pc'[p] = "exited"
    BY <1>1, <1>4, <1>6
  <2>2. \A i \in Elements : \A j \in Nat : Passed(p, i, j)' <=> Passed(p, i, j)
    BY <2>1 DEF Passed
  <2>3. \A i \in Elements : \A j \in Links(i) : j \in Nat
    BY Bounds DEF Links
  <2>4. Place(p)'
    <3>1. local[p].li = local[p].job /\ Len(list[local[p].job].andor) = 1 => local[p].ai > 1
      BY <1>2, <1>3
    <3> QED
      BY <1>1, <1>2, <1>6, <2>1, <3>1 DEF Place
  <2>5. Ahead(p)'
    BY <1>1, <1>2, <2>1, <2>2, <2>3, AheadStays
  <2>6. Moves(p, p)
    BY <1>2, <1>4, <2>1, <2>2, <2>3, <2>4, <2>5, Bounds DEF Moves, Runners
  <2>7. \A i \in Elements : Behind(p, i, 1)' => Behind(p, i, 1)
    BY <1>1, <2>1, <2>2 DEF Behind, Mine
  <2> QED
    BY <1>1, <2>6, <2>7, QuietKeeps
<1> QED
  BY <1>5, <1>6

\* A process passes the pipeline it is at.
Turns(p) ==
    /\ UNCHANGED <<tokens, pos, list, expansion>>
    /\ pc' \in [Proc -> Places] /\ local' \in [Proc -> Frame]
    /\ pc[p] = "andor" /\ local[p].ai =< Len(Chain(p))
    /\ pc'[p] \in {"andor", "pipes", "ended"} /\ local'[p].ai = local[p].ai + 1
    /\ local'[p].li = local[p].li /\ local'[p].job = local[p].job
    /\ local'[p].root = local[p].root /\ local'[p].after = local[p].after
    /\ \A r \in Proc : r # p => pc'[r] = pc[r] /\ local'[r] = local[r]

\* The pipeline then lies behind it, and nothing else that did not before.
LEMMA TurnMoves ==
  ASSUME IInv, NEW p \in Proc, Turns(p)
  PROVE  /\ Moves(p, p) /\ local[p].ai \in Links(local[p].li)
         /\ \A i \in Elements, j \in Nat :
              Behind(p, i, j)' <=>
                Behind(p, i, j) \/ (i = local[p].li /\ j = local[p].ai)
<1>1. /\ Place(p) /\ Ahead(p) /\ local[p].li \in Nat /\ Born(p) /\ local[p].li \in Elements
      /\ Chain(p) = list[local[p].li].andor /\ local[p].ai \in Nat \ {0}
      /\ Mine(p, local[p].li) /\ pc[p] = "andor" /\ list' = list
  BY PlaceFacts DEF Turns, Born
<1>2. local[p].ai \in Links(local[p].li)
  BY <1>1, Bounds DEF Turns, Links
<1>3. \A i \in Elements, j \in Nat :
        Passed(p, i, j)' <=> Passed(p, i, j) \/ (i = local[p].li /\ j = local[p].ai)
  <2> SUFFICES ASSUME NEW i \in Elements, NEW j \in Nat
               PROVE  Passed(p, i, j)' <=>
                        Passed(p, i, j) \/ (i = local[p].li /\ j = local[p].ai)
    OBVIOUS
  <2>1. j < local[p].ai + 1 <=> j < local[p].ai \/ j = local[p].ai
    BY <1>1
  <2> QED
    BY <1>1, <2>1 DEF Passed, Turns
<1>4. \A i \in Elements : Mine(p, i)' <=> Mine(p, i)
  BY <1>1 DEF Mine, Turns
<1>5. \A i \in Elements : \A j \in Links(i) : j \in Nat
  BY Bounds DEF Links
<1>6. Place(p)'
  <2>1. local'[p].ai > 1 /\ local'[p].ai - 1 = local[p].ai
    BY <1>1 DEF Turns
  <2>2. Links(local[p].li)' = Links(local[p].li)
    BY <1>1 DEF Links, Turns
  <2> QED
    BY <1>1, <1>2, <2>1, <2>2 DEF Place, Turns, Mine
<1>7. Ahead(p)'
  BY <1>1, <1>3, <1>5, AheadStays DEF Turns
<1>8. Moves(p, p)
  BY <1>1, <1>3, <1>5, <1>6, <1>7 DEF Moves, Turns, Runners
<1>9. \A i \in Elements, j \in Nat :
        Behind(p, i, j)' <=> Behind(p, i, j) \/ (i = local[p].li /\ j = local[p].ai)
  BY <1>1, <1>3, <1>4 DEF Behind
<1> QED
  BY <1>2, <1>8, <1>9

\* A pipeline with nothing to run is passed.
LEMMA PassKeeps ==
  ASSUME IInv, NEW p \in Proc, Turns(p), ran' = ran,
         Empty(Chain(p)[local[p].ai].pipeline)
  PROVE  IInv'
<1>1. /\ Moves(p, p)
      /\ \A i \in Elements, j \in Nat :
           Behind(p, i, j)' <=> Behind(p, i, j) \/ (i = local[p].li /\ j = local[p].ai)
  BY TurnMoves
<1>2. ASSUME NEW i \in Elements, Len(list[i].andor) = 1, Behind(p, i, 1)', ~Behind(p, i, 1)
      PROVE  Asked(i) = {}
  <2>1. i = local[p].li /\ 1 = local[p].ai
    BY <1>1, <1>2
  <2>2. Empty(list[i].andor[1].pipeline)
    BY <2>1 DEF Chain
  <2>3. \A x \in Range(list[i].andor) : x = list[i].andor[1]
    BY <1>2 DEF Range
  <2> QED
    BY <2>2, <2>3 DEF Asked
<1> QED
  BY <1>1, <1>2, QuietKeeps

\* Those that came of the same process have no chain in common.
LEMMA NoneElse ==
  ASSUME IInv, NEW p \in Proc, NEW r \in Proc, NEW i \in Elements, Born(p), Born(r),
         local[p].root = local[r].root, Mine(p, i), Mine(r, i)
  PROVE  r = p
<1>1. Kin(p, r)
  BY DEF IInv, UnderWay
<1> QED
  BY <1>1 DEF Kin, Mine

\* A pipeline with something to run is run: none that came of the same process
\* has run it, and it stands to the right of all this one has run.
LEMMA RunKeeps ==
  ASSUME IInv, NEW p \in Proc, Turns(p),
         ~Empty(Chain(p)[local[p].ai].pipeline),
         ran' = Append(ran, [proc |-> p, start |-> Chain(p)[local[p].ai].pipeline.start,
                             before |-> local[p].status])
  PROVE  IInv'
<1> DEFINE r == [proc |-> p, start |-> Chain(p)[local[p].ai].pipeline.start,
                 before |-> local[p].status]
           R == [proc : Proc, start : Position, before : {0, 1}]
<1>1. /\ TypeOK /\ Increasing /\ Ran /\ Served /\ InOrderOnce /\ pc[p] = "andor"
      /\ list' = list /\ UNCHANGED <<tokens, pos, list, expansion>>
      /\ UNCHANGED <<tokens, pos, list>>
  BY DEF IInv, Built, Turns
<1>2. /\ Moves(p, p) /\ local[p].ai \in Links(local[p].li)
      /\ \A i \in Elements, j \in Nat :
           Behind(p, i, j)' <=> Behind(p, i, j) \/ (i = local[p].li /\ j = local[p].ai)
  BY TurnMoves
<1>3. /\ pc'[Shell] \notin {"parse", "segv", "expand"}
      /\ \A q \in Proc : Born(q) => /\ Born(q)' /\ local'[q].job = local[q].job
                                    /\ local'[q].root = local[q].root
                                    /\ local'[q].after = local[q].after
      /\ \A q \in Proc : Born(q)' => Born(q)
      /\ \A q \in Proc, i \in Elements : \A j \in Links(i) :
           Born(q) /\ Behind(q, i, j) => Behind(q, i, j)'
      /\ UnderWay'
  BY <1>2, MoveFacts
<1>4. /\ Elements' = Elements
      /\ \A i \in Elements : /\ Links(i)' = Links(i) /\ Asked(i)' = Asked(i)
                             /\ \A j \in Links(i) : Start(i, j)' = Start(i, j)
  BY <1>1, <1>3, ListStays
<1>5. \A i \in Elements : \A j \in Links(i) : j \in Nat
  BY Bounds DEF Links
<1>6. /\ local[p].li \in Elements /\ Mine(p, local[p].li) /\ Born(p) /\ Ahead(p)
      /\ Chain(p) = list[local[p].li].andor /\ local[p].status \in {0, 1}
      /\ local[p].li \in Nat
  BY <1>1, PlaceFacts DEF Born
<1>e. PICK e \in Elements : e = local[p].li
  BY <1>6
<1>k. PICK k \in Links(e) : k = local[p].ai
  BY <1>2, <1>e
<1>7. e = local[p].li /\ k = local[p].ai
  BY <1>e, <1>k
<1>8. /\ r.start = Start(e, k) /\ r.proc = p /\ r \in R
      /\ ~Empty(list[e].andor[k].pipeline)
  <2>1. Start(e, k) \in Position
    BY <1>1, ListFacts
  <2> QED
    BY <1>6, <1>7, <2>1 DEF Start
<1>9. k \in Nat /\ e \in Nat /\ Start(e, k) \in Nat
  BY <1>1, <1>5, <1>6, <1>7, PlacesDiffer
<1>10. ~Passed(p, e, k) /\ local[p].after < Start(e, k)
  <2>1. ~Passed(p, e, k)
    BY <1>7, <1>9 DEF Passed
  <2> QED
    BY <1>1, <1>6, <2>1 DEF Ahead
<1>11. ran \in Seq(R) /\ Len(ran) \in Nat /\ ran' = Append(ran, r)
  BY <1>1 DEF TypeOK
<1> HIDE DEF r
<1>12. /\ ran' \in Seq(R) /\ Len(ran') = Len(ran) + 1 /\ ran'[Len(ran) + 1] = r
       /\ \A a \in 1..Len(ran) : ran'[a] = ran[a]
  BY <1>8, <1>11, AppendProperties
<1>13. \A a \in 1..Len(ran') : a \in 1..Len(ran) \/ (a = Len(ran) + 1 /\ ran'[a] = r)
  BY <1>11, <1>12
<1>14. Ran'
  <2> DEFINE Past(a) == \E q \in Proc, i \in Elements : \E j \in Links(i) :
                          /\ ran'[a].proc = q /\ ran'[a].start = Start(i, j)
                          /\ ~Empty(list[i].andor[j].pipeline)
                          /\ Born(q)' /\ Behind(q, i, j)' /\ local'[q].after < Start(i, j)
  <2>1. ASSUME NEW a \in 1..Len(ran) PROVE Past(a)
    <3>1. PICK q \in Proc, i \in Elements : \E j \in Links(i) :
            /\ ran[a].proc = q /\ ran[a].start = Start(i, j)
            /\ ~Empty(list[i].andor[j].pipeline)
            /\ Born(q) /\ Behind(q, i, j) /\ local[q].after < Start(i, j)
      BY <1>1, <2>1 DEF Ran
    <3>2. PICK j \in Links(i) :
            /\ ran[a].proc = q /\ ran[a].start = Start(i, j)
            /\ ~Empty(list[i].andor[j].pipeline)
            /\ Born(q) /\ Behind(q, i, j) /\ local[q].after < Start(i, j)
      BY <3>1
    <3>3. Born(q)' /\ Behind(q, i, j)' /\ local'[q].after = local[q].after
      BY <1>3, <3>2
    <3>4. ran'[a] = ran[a]
      BY <1>12
    <3> QED
      BY <3>2, <3>3, <3>4
  <2>2. ASSUME NEW a \in 1..Len(ran'), ran'[a] = r PROVE Past(a)
    <3>1. Born(p)' /\ Behind(p, e, k)' /\ local'[p].after < Start(e, k)
      BY <1>2, <1>3, <1>6, <1>7, <1>9, <1>10
    <3>2. ran'[a].proc = p /\ ran'[a].start = Start(e, k)
      BY <1>8, <2>2
    <3> QED
      BY <1>8, <3>1, <3>2
  <2>3. \A a \in 1..Len(ran') : Past(a)
    <3> HIDE DEF Past
    <3> QED
      BY <1>13, <2>1, <2>2
  <2> QED
    BY <1>1, <1>4, <2>3 DEF Ran
<1>15. \A q \in Proc : RanBy(q) \subseteq RanBy(q)' /\ (q = p => Start(e, k) \in RanBy(q)')
  <2>1. ASSUME NEW a \in 1..Len(ran) PROVE ran[a] \in Range(ran')
    <3>1. a \in DOMAIN ran' /\ ran'[a] = ran[a]
      BY <1>11, <1>12
    <3> QED
      BY <3>1 DEF Range
  <2>2. Range(ran) \subseteq Range(ran')
    <3>1. DOMAIN ran = 1..Len(ran)
      BY <1>11
    <3>2. Range(ran) = {ran[a] : a \in 1..Len(ran)}
      BY <3>1, Zenon DEF Range
    <3> QED
      BY <2>1, <3>2
  <2>3. r \in Range(ran')
    <3>1. Len(ran) + 1 \in DOMAIN ran'
      BY <1>11, <1>12
    <3> QED
      BY <1>12, <3>1 DEF Range
  <2> QED
    BY <1>8, <2>2, <2>3 DEF RanBy
<1>16. Served'
  <2> SUFFICES ASSUME NEW q \in Proc, Born(q)', NEW i \in Elements,
                      Len(list[i].andor) = 1, Behind(q, i, 1)', local'[q].after < Start(i, 1)
               PROVE  Asked(i) \subseteq RanBy(q)'
    <3>1. \A i \in Elements : Start(i, 1)' = Start(i, 1)
      BY <1>1 DEF Start
    <3> QED
      BY <1>1, <1>4, <3>1 DEF Served, ServedBy
  <2>1. Born(q) /\ local'[q].after = local[q].after
    BY <1>3
  <2>2. CASE Behind(q, i, 1)
    BY <1>1, <1>15, <2>1, <2>2 DEF Served, ServedBy
  <2>3. CASE ~Behind(q, i, 1)
    <3>1. q = p
      <4>1. q # p => pc'[q] = pc[q] /\ local'[q] = local[q]
        BY <1>2 DEF Moves
      <4> QED
        BY <1>1, <2>3, <4>1 DEF Behind, Mine, Passed
    <3>2. i = e /\ k = 1
      BY <1>2, <1>7, <2>3, <3>1
    <3>3. \A x \in Range(list[i].andor) : x = list[i].andor[1]
      BY DEF Range
    <3>4. Asked(i) \subseteq {Start(i, 1)}
      BY <3>3 DEF Asked, Start
    <3> QED
      BY <1>15, <3>1, <3>2, <3>4
  <2> QED
    BY <2>2, <2>3
<1>17. \A a \in 1..Len(ran) :
         /\ ran[a].proc \in Proc /\ Born(ran[a].proc)
         /\ ran[a].proc = p => ran[a].start < Start(e, k)
         /\ local[ran[a].proc].root = local[p].root => ran[a].start # Start(e, k)
  <2> SUFFICES ASSUME NEW a \in 1..Len(ran)
               PROVE  /\ ran[a].proc \in Proc /\ Born(ran[a].proc)
                      /\ ran[a].proc = p => ran[a].start < Start(e, k)
                      /\ local[ran[a].proc].root = local[p].root =>
                           ran[a].start # Start(e, k)
    OBVIOUS
  <2>1. PICK q \in Proc, i \in Elements : \E j \in Links(i) :
          /\ ran[a].proc = q /\ ran[a].start = Start(i, j)
          /\ Born(q) /\ Behind(q, i, j)
    BY <1>1 DEF Ran
  <2>2. PICK j \in Links(i) : /\ ran[a].proc = q /\ ran[a].start = Start(i, j)
                              /\ Born(q) /\ Behind(q, i, j)
    BY <2>1
  <2>3. /\ i < e \/ (i = e /\ j < k) => Start(i, j) < Start(e, k)
        /\ Start(i, j) = Start(e, k) => i = e /\ j = k
        /\ Start(i, j) \in Nat
    BY <1>1, PlacesDiffer
  <2>4. q = p => i < e \/ (i = e /\ j < k)
    BY <1>7, <2>2 DEF Behind, Passed
  <2>5. local[q].root = local[p].root => ~(i = e /\ j = k)
    <3> SUFFICES ASSUME local[q].root = local[p].root, i = e, j = k PROVE FALSE
      OBVIOUS
    <3>1. Mine(q, e) /\ Mine(p, e)
      BY <1>6, <1>7, <2>2 DEF Behind
    <3>2. q = p
      BY <1>6, <2>2, <3>1, NoneElse
    <3> QED
      BY <1>9, <2>4, <3>2
  <2> QED
    BY <1>9, <2>2, <2>3, <2>4, <2>5
<1>18. InOrderOnce'
  <2>1. DOMAIN ran' = 1..Len(ran') /\ DOMAIN ran = 1..Len(ran)
    BY <1>11, <1>12
  <2>2. ASSUME NEW a \in 1..Len(ran)
        PROVE  /\ ran'[a] = ran[a] /\ ran[a].proc \in Proc
               /\ local'[ran[a].proc].after = local[ran[a].proc].after
               /\ local'[ran[a].proc].root = local[ran[a].proc].root
    BY <1>3, <1>12, <1>17
  <2>3. local'[p].after = local[p].after /\ local'[p].root = local[p].root
    BY <1>3, <1>6
  <2>4. ASSUME NEW a \in 1..Len(ran') PROVE local'[ran'[a].proc].after < ran'[a].start
    <3>1. CASE a \in 1..Len(ran)
      BY <1>1, <2>1, <2>2, <3>1 DEF InOrderOnce
    <3>2. CASE ran'[a] = r
      BY <1>8, <1>10, <2>3, <3>2
    <3> QED
      BY <1>13, <3>1, <3>2
  <2>5. ASSUME NEW a \in 1..Len(ran'), NEW b \in 1..Len(ran'), a < b
        PROVE  /\ ran'[a].proc = ran'[b].proc => ran'[a].start < ran'[b].start
               /\ local'[ran'[a].proc].root = local'[ran'[b].proc].root =>
                    ran'[a].start # ran'[b].start
    <3>1. a \in 1..Len(ran)
      BY <1>11, <1>12, <2>5
    <3>2. CASE b \in 1..Len(ran)
      <4>1. /\ ran[a].proc = ran[b].proc => ran[a].start < ran[b].start
            /\ local[ran[a].proc].root = local[ran[b].proc].root =>
                 ran[a].start # ran[b].start
        BY <1>1, <2>1, <2>5, <3>1, <3>2 DEF InOrderOnce
      <4> QED
        BY <2>2, <3>1, <3>2, <4>1
    <3>3. CASE ran'[b] = r
      <4>1. /\ ran[a].proc = p => ran[a].start < Start(e, k)
            /\ local[ran[a].proc].root = local[p].root => ran[a].start # Start(e, k)
        BY <1>17, <3>1
      <4>2. ran'[b].proc = p /\ ran'[b].start = Start(e, k)
        BY <1>8, <3>3
      <4>3. /\ ran'[a] = ran[a]
            /\ local'[ran[a].proc].root = local[ran[a].proc].root
        BY <2>2, <3>1
      <4>4. local'[ran'[b].proc].root = local[p].root
        BY <2>3, <4>2
      <4> QED
        BY <4>1, <4>2, <4>3, <4>4
    <3> QED
      BY <1>13, <3>2, <3>3
  <2> QED
    BY <2>1, <2>4, <2>5 DEF InOrderOnce
<1> QED
  BY <1>1, <1>2, <1>3, <1>12, <1>14, <1>16, <1>18, StepKeeps DEF Moves

\* A turn of a process at its chain keeps the invariant.
LEMMA TurnKeeps ==
  ASSUME IInv, NEW p \in Proc, AndOrTurn(p)
  PROVE  IInv'
<1> DEFINE goes == /\ local[p].ai =< Len(Chain(p))
                   /\ Runs(Chain(p)[local[p].ai].op, local[p].status)
           pl   == Chain(p)[local[p].ai].pipeline
<1>1. /\ pc[p] = "andor" /\ UNCHANGED <<tokens, pos, list, expansion>> /\ TypeOK
  BY DEF AndOrTurn, IInv
<1>2. CASE goes
  <2>1. RunPipeline(p, pl) /\ local[p].ai =< Len(Chain(p))
    BY <1>2 DEF AndOrTurn
  <2>2. /\ local[p] \in Frame /\ local[p].ai \in Nat \ {0} /\ local[p].li \in Elements
        /\ Chain(p) = list[local[p].li].andor
    BY <1>1, PlaceFacts
  <2>3. pl.commands \in Seq(Command)
    <3>1. local[p].ai \in Links(local[p].li)
      BY <2>1, <2>2, Bounds DEF Links
    <3> QED
      BY <1>1, <2>2, <3>1, ListFacts
  <2>4. PICK a, cs : a = local[p].ai + 1 /\ cs = pl.commands
    OBVIOUS
  <2>5. a \in Nat \ {0} /\ cs \in Seq(Command)
    BY <2>2, <2>3, <2>4
  <2> HIDE DEF pl
  <2>6. \/ \E s \in {0, 1} : /\ local' = [local EXCEPT ![p].ai = a, ![p].status = s]
                             /\ pc' = pc
        \/ /\ local' = [local EXCEPT ![p].ai = a] /\ pc' = [pc EXCEPT ![p] = "ended"]
           /\ ~Empty(pl)
        \/ /\ local' = [local EXCEPT ![p].ai = a, ![p].iter = cs]
           /\ pc' = [pc EXCEPT ![p] = "pipes"]
           /\ ~Empty(pl)
    BY <2>1, <2>4 DEF RunPipeline, Empty
  <2>7. ASSUME NEW f \in Frame, local' = [local EXCEPT ![p] = f],
               f.ai = a, f.li = local[p].li, f.job = local[p].job,
               f.root = local[p].root, f.after = local[p].after,
               \/ pc' = pc \/ pc' = [pc EXCEPT ![p] = "ended"]
               \/ pc' = [pc EXCEPT ![p] = "pipes"]
        PROVE  Turns(p)
    <3>1. /\ local' \in [Proc -> Frame] /\ local'[p] = f
          /\ \A r \in Proc : r # p => local'[r] = local[r]
      BY <2>7, Bounds
    <3>2. /\ pc' \in [Proc -> Places] /\ pc'[p] \in {"andor", "pipes", "ended"}
          /\ \A r \in Proc : r # p => pc'[r] = pc[r]
      BY <1>1, <2>7, Bounds DEF Places
    <3> QED
      BY <1>1, <2>1, <2>4, <2>7, <3>1, <3>2 DEF Turns
  <2>8. Turns(p)
    <3>1. ASSUME NEW s \in {0, 1}, pc' = pc,
                 local' = [local EXCEPT ![p].ai = a, ![p].status = s]
          PROVE  Turns(p)
      <4>1. PICK f : f = [local[p] EXCEPT !.ai = a, !.status = s]
        OBVIOUS
      <4>2. f \in Frame
        BY <2>2, <2>5, <4>1, FrameChanged, Zenon
      <4>3. local' = [local EXCEPT ![p] = f]
        BY <3>1, <4>1, Bounds
      <4>4. /\ f.ai = a /\ f.li = local[p].li /\ f.job = local[p].job
            /\ f.root = local[p].root /\ f.after = local[p].after
        BY <2>2, <4>1 DEF Frame
      <4> QED
        BY <2>7, <3>1, <4>2, <4>3, <4>4
    <3>2. ASSUME local' = [local EXCEPT ![p].ai = a], pc' = [pc EXCEPT ![p] = "ended"]
          PROVE  Turns(p)
      <4>1. PICK f : f = [local[p] EXCEPT !.ai = a]
        OBVIOUS
      <4>2. f \in Frame
        BY <2>2, <2>5, <4>1, FrameChanged, Zenon
      <4>3. local' = [local EXCEPT ![p] = f]
        BY <3>2, <4>1, Bounds
      <4>4. /\ f.ai = a /\ f.li = local[p].li /\ f.job = local[p].job
            /\ f.root = local[p].root /\ f.after = local[p].after
        BY <2>2, <4>1 DEF Frame
      <4> QED
        BY <2>7, <3>2, <4>2, <4>3, <4>4
    <3>3. ASSUME local' = [local EXCEPT ![p].ai = a, ![p].iter = cs],
                 pc' = [pc EXCEPT ![p] = "pipes"]
          PROVE  Turns(p)
      <4>1. PICK f : f = [local[p] EXCEPT !.ai = a, !.iter = cs]
        OBVIOUS
      <4>2. f \in Frame
        BY <2>2, <2>5, <4>1, FrameChanged, Zenon
      <4>3. local' = [local EXCEPT ![p] = f]
        BY <3>3, <4>1, Bounds
      <4>4. /\ f.ai = a /\ f.li = local[p].li /\ f.job = local[p].job
            /\ f.root = local[p].root /\ f.after = local[p].after
        BY <2>2, <4>1 DEF Frame
      <4> QED
        BY <2>7, <3>3, <4>2, <4>3, <4>4
    <3> QED
      BY <2>6, <3>1, <3>2, <3>3
  <2>9. CASE Empty(pl)
    <3>1. ran' = ran
      BY <2>1, <2>9 DEF RunPipeline
    <3> QED
      BY <2>8, <2>9, <3>1, PassKeeps DEF pl
  <2>10. CASE ~Empty(pl)
    <3>1. ran' = Append(ran, [proc |-> p, start |-> pl.start, before |-> local[p].status])
      BY <2>1, <2>10 DEF RunPipeline
    <3> QED
      BY <2>8, <2>10, <3>1, RunKeeps DEF pl
  <2> QED
    BY <2>9, <2>10
<1>3. CASE ~goes
  <2>1. ChainDone(p)
    BY <1>3 DEF AndOrTurn
  <2> QED
    BY <1>1, <1>3, <2>1, ChainDoneKeeps
<1> QED
  BY <1>2, <1>3

\* A process that stays at its pipeline, in execute_pipes or on the way back,
\* and the copy of it that comes back from execvp, if any.
LEMMA StandsKeeps ==
  ASSUME IInv, NEW p \in Proc, NEW q \in Proc, pc[p] = "pipes",
         UNCHANGED <<tokens, pos, list, expansion, ran>>,
         pc' \in [Proc -> Places], local' \in [Proc -> Frame], pc'[p] \in {"andor", "pipes"},
         local'[p].li = local[p].li, local'[p].ai = local[p].ai,
         local'[p].job = local[p].job, local'[p].root = local[p].root,
         local'[p].after = local[p].after,
         \A r \in Proc : r # p /\ r # q => pc'[r] = pc[r] /\ local'[r] = local[r],
         q # p => /\ ~Born(q) /\ pc'[q] = "pipes"
                  /\ local'[q].li = local[p].li /\ local'[q].ai = local[p].ai
                  /\ local'[q].job = local[p].job /\ local'[q].root = q
                  /\ local'[q].after = LastRun(p).start
  PROVE  IInv'
<1>1. /\ Place(p) /\ Ahead(p) /\ local[p].li \in Nat /\ Born(p) /\ local[p].li \in Elements
      /\ Chain(p) = list[local[p].li].andor /\ local[p].ai \in Nat
      /\ Mine(p, local[p].li) /\ list' = list /\ ran' = ran /\ TypeOK /\ Increasing
      /\ UNCHANGED <<tokens, pos, list, expansion>>
  BY PlaceFacts DEF Born, IInv, Built
<1>2. /\ Elements' = Elements
      /\ \A i \in Elements : /\ Links(i)' = Links(i)
                             /\ \A j \in Links(i) : Start(i, j)' = Start(i, j)
  BY <1>1 DEF Elements, Links, Start
<1>3. \A i \in Elements, j \in Nat : Passed(p, i, j)' <=> Passed(p, i, j)
  BY DEF Passed
<1>4. \A i \in Elements : \A j \in Links(i) : j \in Nat
  BY Bounds DEF Links
<1>5. PICK k : k = local[p].ai - 1
  OBVIOUS
<1>6. k \in Links(local[p].li) /\ k \in Nat /\ k >= 1 /\ LastRun(p).start = Start(local[p].li, k)
  <2>1. k \in Links(local[p].li)
    BY <1>1, <1>5 DEF Place
  <2> QED
    BY <1>1, <1>5, <2>1, Bounds DEF Links, LastRun, Start
<1>7. Place(p)'
  BY <1>1, <1>2 DEF Place, Mine
<1>8. Ahead(p)'
  BY <1>1, <1>3, <1>4, AheadStays
<1>9. q # p => Place(q)'
  BY <1>1, <1>2 DEF Place, Mine
<1>10. q # p => Ahead(q)'
  <2>1. ASSUME q # p, NEW i \in Elements, NEW j \in Links(i), ~Passed(q, i, j)'
        PROVE  local'[q].after < Start(i, j)
    <3>1. ~(i < local[p].li) /\ ~(i = local[p].li /\ j < local[p].ai)
      BY <2>1 DEF Passed
    <3>2. local[p].li < i \/ (local[p].li = i /\ k < j)
      BY <1>1, <1>4, <1>5, <3>1, Bounds
    <3>3. Start(local[p].li, k) < Start(i, j)
      BY <1>1, <1>6, <3>2, PlacesDiffer
    <3>4. local'[q].after = LastRun(p).start
      BY <2>1
    <3> QED
      BY <1>6, <3>3, <3>4
  <2> QED
    BY <1>2, <2>1 DEF Ahead
<1>11. Moves(p, q)
  BY <1>1, <1>3, <1>4, <1>7, <1>8, <1>9, <1>10 DEF Moves, Forked, Runners
<1>12. \A i \in Elements : Behind(p, i, 1)' => Behind(p, i, 1)
  BY <1>1, <1>3 DEF Behind, Mine
<1>13. ASSUME q # p, NEW i \in Elements, Len(list[i].andor) = 1, Behind(q, i, 1)'
       PROVE  ~(local'[q].after < Start(i, 1))
  <2>1. 1 \in Links(i)
    BY <1>13 DEF Links
  <2>2. i < local[p].li \/ (i = local[p].li /\ (1 < k \/ 1 = k))
    BY <1>1, <1>5, <1>6, <1>13 DEF Behind, Passed
  <2>3. /\ i < local[p].li \/ (i = local[p].li /\ 1 < k) =>
             Start(i, 1) < Start(local[p].li, k)
        /\ Start(i, 1) \in Nat /\ Start(local[p].li, k) \in Nat
    BY <1>1, <1>6, <2>1, PlacesDiffer
  <2> QED
    BY <1>6, <1>13, <2>2, <2>3
<1> QED
  BY <1>1, <1>11, <1>12, <1>13, QuietKeeps

\* A turn of the loop of execute_pipes.
LEMMA ForkMemberKeeps ==
  ASSUME IInv, NEW p \in Proc, ForkMember(p)
  PROVE  IInv'
<1>1. /\ pc[p] = "pipes" /\ local[p].iter # <<>> /\ TypeOK
      /\ UNCHANGED <<tokens, pos, list, expansion, ran>>
  BY DEF ForkMember, IInv
<1>2. /\ local[p] \in Frame /\ Place(p) /\ local[p].li \in Elements
      /\ local[p].iter \in Seq(Command) /\ local[p].awaited \in SUBSET Proc
      /\ Chain(p) = list[local[p].li].andor
  BY <1>1, PlaceFacts DEF Born
<1>3. PICK rest : rest = Tail(local[p].iter)
  OBVIOUS
<1>4. rest \in Seq(Command) /\ <<>> \in Seq(Command) /\ {} \in SUBSET Proc
  BY <1>1, <1>2, <1>3
<1>5. PICK t : t = LastRun(p).start
  OBVIOUS
<1>6. t \in Nat
  <2>1. local[p].ai - 1 \in Links(local[p].li)
    BY <1>1, <1>2 DEF Place
  <2>2. t = Start(local[p].li, local[p].ai - 1)
    BY <1>2, <1>5 DEF LastRun, Start
  <2>3. t \in Position
    BY <1>1, <1>2, <2>1, <2>2, ListFacts
  <2> QED
    BY <2>3 DEF Position
<1>7. \/ local' = [local EXCEPT ![p].iter = rest] /\ pc' = pc
      \/ \E q \in Proc :
           /\ Child(q)
           /\ pc' = [pc EXCEPT ![q] = "pipes"]
           /\ local' = [local EXCEPT
                ![p].iter = rest, ![p].awaited = @ \cup {q},
                ![q] = [local[p] EXCEPT !.iter = rest, !.awaited = {}, !.root = q,
                                        !.after = t]]
      \/ /\ pc' = [pc EXCEPT ![p] = "andor"]
         /\ local' = [local EXCEPT ![p].iter = <<>>, ![p].awaited = {}, ![p].status = 1]
  BY <1>3, <1>5 DEF ForkMember
<1>8. CASE local' = [local EXCEPT ![p].iter = rest] /\ pc' = pc
  <2>1. PICK f : f = [local[p] EXCEPT !.iter = rest]
    OBVIOUS
  <2>2. f \in Frame
    BY <1>2, <1>4, <2>1, FrameChanged, Zenon
  <2>3. /\ f.li = local[p].li /\ f.ai = local[p].ai /\ f.job = local[p].job
        /\ f.root = local[p].root /\ f.after = local[p].after
    BY <1>2, <2>1 DEF Frame
  <2>4. /\ local' \in [Proc -> Frame] /\ local'[p] = f /\ pc' \in [Proc -> Places]
        /\ \A r \in Proc : r # p => pc'[r] = pc[r] /\ local'[r] = local[r]
    BY <1>8, <2>1, <2>2, Bounds
  <2> QED
    BY <1>1, <1>8, <2>3, <2>4, StandsKeeps
<1>9. ASSUME NEW q \in Proc, Child(q), pc' = [pc EXCEPT ![q] = "pipes"],
             local' = [local EXCEPT
                ![p].iter = rest, ![p].awaited = @ \cup {q},
                ![q] = [local[p] EXCEPT !.iter = rest, !.awaited = {}, !.root = q,
                                        !.after = t]]
      PROVE  IInv'
  <2>1. ~Born(q) /\ q # p
    BY <1>1, <1>9 DEF Child, Unborn, Born
  <2>2. PICK f, w : f = [local[p] EXCEPT !.iter = rest, !.awaited = w]
                    /\ w = local[p].awaited \cup {q}
    OBVIOUS
  <2>3. PICK g, n : g = [local[p] EXCEPT !.iter = rest, !.awaited = n, !.root = q,
                                         !.after = t]
                    /\ n = {}
    OBVIOUS
  <2>4. w \in SUBSET Proc /\ n \in SUBSET Proc
    BY <1>2, <2>2, <2>3
  <2>5. f \in Frame
    BY <1>2, <1>4, <2>2, <2>4, FrameChanged, Zenon
  <2>6. g \in Frame
    BY <1>2, <1>4, <1>6, <2>3, <2>4, FrameChanged, Zenon
  <2>7. /\ f.li = local[p].li /\ f.ai = local[p].ai /\ f.job = local[p].job
        /\ f.root = local[p].root /\ f.after = local[p].after
    BY <1>2, <2>2 DEF Frame
  <2>8. /\ g.li = local[p].li /\ g.ai = local[p].ai /\ g.job = local[p].job
        /\ g.root = q /\ g.after = t
    BY <1>2, <2>3 DEF Frame
  <2>9. /\ local'[p] = f /\ local'[q] = g
        /\ \A r \in Proc : r # p /\ r # q => local'[r] = local[r]
    BY <1>9, <2>1, <2>2, <2>3, Bounds
  <2>10. local' \in [Proc -> Frame]
    <3>1. DOMAIN local' = Proc /\ local' = [r \in Proc |-> local'[r]]
      BY <1>9, Bounds
    <3> QED
      BY <2>5, <2>6, <2>9, <3>1, Bounds
  <2>11. /\ pc' \in [Proc -> Places] /\ pc'[p] = "pipes" /\ pc'[q] = "pipes"
         /\ \A r \in Proc : r # p /\ r # q => pc'[r] = pc[r]
    BY <1>1, <1>9, <2>1, Bounds DEF Places
  <2> QED
    BY <1>1, <1>5, <2>1, <2>7, <2>8, <2>9, <2>10, <2>11, StandsKeeps
<1>10. CASE /\ pc' = [pc EXCEPT ![p] = "andor"]
            /\ local' = [local EXCEPT ![p].iter = <<>>, ![p].awaited = {}, ![p].status = 1]
  <2>1. PICK f, c, w, s : f = [local[p] EXCEPT !.iter = c, !.awaited = w, !.status = s]
                          /\ c = <<>> /\ w = {} /\ s = 1
    OBVIOUS
  <2>2. c \in Seq(Command) /\ w \in SUBSET Proc /\ s \in {0, 1}
    BY <1>4, <2>1
  <2>3. f \in Frame
    BY <1>2, <2>1, <2>2, FrameChanged, Zenon
  <2>4. /\ f.li = local[p].li /\ f.ai = local[p].ai /\ f.job = local[p].job
        /\ f.root = local[p].root /\ f.after = local[p].after
    BY <1>2, <2>1 DEF Frame
  <2>5. local' = [local EXCEPT ![p] = f]
    BY <1>10, <2>1, Bounds
  <2>6. /\ local' \in [Proc -> Frame] /\ local'[p] = f
        /\ \A r \in Proc : r # p => local'[r] = local[r]
    BY <2>3, <2>5, Bounds
  <2>7. /\ pc' \in [Proc -> Places] /\ pc'[p] = "andor"
        /\ \A r \in Proc : r # p => pc'[r] = pc[r]
    BY <1>10, Bounds DEF Places
  <2> QED
    BY <1>1, <2>4, <2>6, <2>7, StandsKeeps
<1> QED
  BY <1>7, <1>8, <1>9, <1>10

\* All commands have ended, and all copies a process has to wait for.
LEMMA WaitMembersKeeps ==
  ASSUME IInv, NEW p \in Proc, WaitMembers(p)
  PROVE  IInv'
<1>1. /\ pc[p] = "pipes" /\ UNCHANGED <<tokens, pos, list, expansion, ran>>
      /\ pc' = [pc EXCEPT ![p] = "andor"]
      /\ local' = [local EXCEPT ![p].awaited = {}, ![p].status = 0]
  BY DEF WaitMembers
<1>2. local[p] \in Frame
  BY PlaceFacts
<1>3. PICK f, w, s : f = [local[p] EXCEPT !.awaited = w, !.status = s] /\ w = {} /\ s = 0
  OBVIOUS
<1>4. w \in SUBSET Proc /\ s \in {0, 1}
  BY <1>3
<1>5. f \in Frame
  BY <1>2, <1>3, <1>4, FrameChanged, Zenon
<1>6. /\ f.li = local[p].li /\ f.ai = local[p].ai /\ f.job = local[p].job
      /\ f.root = local[p].root /\ f.after = local[p].after
  BY <1>2, <1>3 DEF Frame
<1>7. local' = [local EXCEPT ![p] = f]
  BY <1>1, <1>3, Bounds
<1>8. /\ local' \in [Proc -> Frame] /\ local'[p] = f
      /\ \A r \in Proc : r # p => local'[r] = local[r]
  BY <1>5, <1>7, Bounds
<1>9. /\ pc' \in [Proc -> Places] /\ pc'[p] = "andor"
      /\ \A r \in Proc : r # p => pc'[r] = pc[r]
  BY <1>1, Bounds DEF Places
<1> QED
  BY <1>1, <1>6, <1>8, <1>9, StandsKeeps

\* A process behind the list stays there, at its prompt and when it has left it.
LEMMA BehindListKeeps ==
  ASSUME IInv, NEW p \in Proc, pc[p] \in {"list", "done"}, local[p].li > Len(list),
         UNCHANGED <<tokens, pos, list, expansion, local, ran>>,
         pc' = [pc EXCEPT ![p] = "done"] \/ pc' = [pc EXCEPT ![p] = "ended"]
  PROVE  IInv'
<1>1. /\ Place(p) /\ Ahead(p) /\ local[p].li \in Nat /\ Born(p)
      /\ list' = list /\ local' = local /\ ran' = ran
      /\ UNCHANGED <<tokens, pos, list, expansion>> /\ Len(list) \in Nat
  BY PlaceFacts, Bounds DEF Born
<1>2. /\ pc' \in [Proc -> Places] /\ pc'[p] \in {"done", "ended"}
      /\ \A r \in Proc : r # p => pc'[r] = pc[r]
  BY Bounds DEF Places
<1>3. local[p].li = Len(list) + 1 /\ local[p].job = 0
  BY <1>1 DEF Place
<1>4. \A i \in Elements, j \in Nat : Passed(p, i, j) /\ Passed(p, i, j)'
  BY <1>1, <1>3, Bounds DEF Passed
<1>5. \A i \in Elements : \A j \in Links(i) : j \in Nat
  BY Bounds DEF Links
<1>6. Place(p)' /\ Ahead(p)'
  BY <1>1, <1>2, <1>3 DEF Place, Ahead
<1>7. Moves(p, p)
  BY <1>1, <1>2, <1>4, <1>5, <1>6, Bounds DEF Moves, Runners
<1>8. \A i \in Elements : Behind(p, i, 1)' => Behind(p, i, 1)
  BY <1>1, <1>4 DEF Behind, Mine
<1> QED
  BY <1>1, <1>7, <1>8, QuietKeeps

\* execute_list returns, and a second shell ends.
LEMMA ListDoneKeeps ==
  ASSUME IInv, NEW p \in Proc, ListDone(p) \/ SecondShellEnds(p)
  PROVE  IInv'
<1>1. CASE ListDone(p)
  BY <1>1, BehindListKeeps DEF ListDone
<1>2. CASE SecondShellEnds(p)
  <2>1. pc[p] = "done" /\ Place(p) /\ Len(list) \in Nat
    BY <1>2, PlaceFacts, Bounds DEF SecondShellEnds, Born
  <2>2. local[p].li > Len(list)
    BY <2>1 DEF Place
  <2> QED
    BY <1>2, <2>1, <2>2, BehindListKeeps DEF SecondShellEnds
<1> QED
  BY <1>1, <1>2

-----------------------------------------------------------------------------
(* The theorems. *)

\* A line that has just been read.
LEMMA InitIInv == Init => IInv
<1> SUFFICES ASSUME Init PROVE IInv
  OBVIOUS
<1>1. /\ pos = 1 /\ list = <<NewElement(1)>> /\ expanded = 0 /\ assigned = {} /\ seen = <<>>
      /\ pc = [p \in Proc |-> IF p = Shell THEN "parse" ELSE "unborn"]
      /\ local = [p \in Proc |-> FirstFrame(p)] /\ ran = <<>>
  BY DEF Init
<1>2. PICK l \in Lines : tokens = Append(l, "eof")
  BY DEF Init
<1>3. /\ MaxElements \in Nat \ {0}
      /\ l \in Seq(TokenType \ {"eof"}) /\ Len(l) =< MaxElements /\ Len(l) \in Nat
  BY LinesAssumption
<1>4. /\ tokens \in Seq(TokenType) /\ Len(tokens) = Len(l) + 1
      /\ tokens[Len(l) + 1] = "eof" /\ \A k \in 1..Len(l) : tokens[k] # "eof"
  <2>1. l \in Seq(TokenType) /\ "eof" \in TokenType
    BY <1>3 DEF TokenType
  <2>2. /\ tokens \in Seq(TokenType) /\ Len(tokens) = Len(l) + 1
        /\ tokens[Len(l) + 1] = "eof" /\ \A k \in 1..Len(l) : tokens[k] = l[k]
    BY <1>2, <2>1, AppendProperties
  <2>3. \A k \in 1..Len(l) : l[k] \in TokenType \ {"eof"}
    BY <1>3, ElementOfSeq
  <2> QED
    BY <2>2, <2>3
<1>5. Text
  <2>1. \A k \in 1..(Len(l) + 1) : k \in 1..Len(l) \/ k = Len(l) + 1
    BY <1>3
  <2>2. ~(Len(l) + 1 \in 1..Len(l))
    BY <1>3
  <2> QED
    BY <1>3, <1>4, <2>1, <2>2 DEF Text, Position
<1>6. pos \in Position
  BY <1>1, <1>3, <1>4 DEF Position
<1> DEFINE k == [op |-> "none", pipeline |-> NewPipeline(1)]
           e == [sep |-> "none", andor |-> <<k>>]
<1>7. k \in Link /\ k.op = "none" /\ k.pipeline.start = 1
  <2>1. EmptyCommand \in Command
    <3>1. <<>> \in Seq(Position)
      BY EmptySeq, Zenon
    <3> QED
      BY <3>1 DEF EmptyCommand, Command
  <2>2. <<EmptyCommand>> \in Seq(Command) \ {<<>>}
    BY <2>1
  <2>3. NewPipeline(1) \in Pipeline /\ NewPipeline(1).start = 1
    BY <1>1, <1>6, <2>2 DEF NewPipeline, Pipeline
  <2> QED
    BY <2>3 DEF Link
<1>8. list = <<e>>
  BY <1>1 DEF NewElement, NewAndOr
<1> HIDE DEF k
<1>9. e \in Element /\ e.sep = "none" /\ Len(e.andor) = 1 /\ e.andor[1] = k
  <2> DEFINE chain == <<k>>
  <2>1. chain \in Seq(Link) \ {<<>>} /\ Len(chain) = 1 /\ chain[1] = k
    BY <1>7
  <2> HIDE DEF chain
  <2>2. [sep |-> "none", andor |-> chain] \in Element
    BY <2>1 DEF Element
  <2> QED
    BY <2>1, <2>2 DEF chain
<1> HIDE DEF e
<1>10. list \in Seq(Element) /\ Len(list) = 1 /\ list[1] = e
  BY <1>8, <1>9
<1>11. Len(Commands) \in Nat
  <2>1. Commands \in Seq(Command)
    BY <1>10, CommandsTyped
  <2> QED
    BY <2>1
<1>12. /\ pc \in [Proc -> Places] /\ pc[Shell] = "parse"
       /\ \A p \in Proc : p # Shell => pc[p] = "unborn"
  BY <1>1, MaxForksAssumption DEF Places, Shell, Proc
<1>13. TypeOK
  <2>1. assigned \subseteq Position /\ DOMAIN seen \subseteq Position
    BY <1>1
  <2>2. expanded \in 0..Len(Commands) /\ Len(list) \in 1..MaxElements
    BY <1>1, <1>3, <1>10, <1>11
  <2>3. local \in [Proc -> Frame]
    <3>1. ASSUME NEW p \in Proc PROVE FirstFrame(p) \in Frame
      <4>1. <<>> \in Seq(Command) /\ 1 \in 1..(MaxElements + 1) /\ 0 \in 0..MaxElements
        BY <1>3, EmptySeq, Zenon, SMT
      <4> QED
        BY <4>1 DEF FirstFrame, Frame
    <3> QED
      BY <1>1, <3>1
  <2>4. ran \in Seq([proc : Proc, start : Position, before : {0, 1}])
    BY <1>1, EmptySeq, Zenon
  <2> QED
    BY <1>4, <1>6, <1>10, <1>12, <2>1, <2>2, <2>3, <2>4, Zenon DEF TypeOK, Places
<1>14. /\ Elements = 1..1 /\ \A i \in Elements : Links(i) = 1..1 /\ list[i] = e
       /\ \A i \in Elements : \A j \in Links(i) : Start(i, j) = 1
  <2>1. Elements = 1..1 /\ \A i \in Elements : list[i] = e /\ i = 1
    BY <1>10 DEF Elements
  <2>2. \A i \in Elements : Links(i) = 1..1
    BY <1>9, <2>1 DEF Links
  <2>3. ASSUME NEW i \in Elements, NEW j \in Links(i) PROVE Start(i, j) = 1
    <3>1. j = 1 /\ list[i] = e
      BY <2>1, <2>2, <2>3
    <3> QED
      BY <1>7, <1>9, <3>1 DEF Start
  <2> QED
    BY <2>1, <2>2, <2>3
<1>15. Built
  <2>1. Increasing
    <3>1. \A i \in Elements : i = 1 /\ \A j \in Links(i) : j = 1
      BY <1>14
    <3> QED
      BY <1>1, <1>14, <3>1 DEF Increasing
  <2>2. LastIsPlain
    BY <1>7, <1>9, <1>14 DEF LastIsPlain
  <2>3. Open
    BY <1>1, <1>9, <1>10 DEF Open
  <2>4. Marked
    <3>1. \A i \in Elements : ~(i < Len(list)) /\ StartOf(i) = 1 /\ list[i].sep = "none"
      BY <1>7, <1>9, <1>10, <1>14 DEF StartOf
    <3>2. \A i \in Elements : LastToken(i) = "none"
      BY <1>1, <3>1 DEF LastToken
    <3> QED
      BY <3>1, <3>2 DEF Marked
  <2> QED
    BY <2>1, <2>2, <2>3, <2>4 DEF Built
<1>16. Fresh
  BY <1>1, <1>12 DEF Fresh
<1>17. UnderWay /\ Ran /\ Served /\ InOrderOnce
  BY <1>12, <1>13, <1>16, FreshIsUnderWay
<1> QED
  BY <1>5, <1>13, <1>15, <1>16, <1>17 DEF IInv

\* Every step keeps the invariant.
LEMMA NextIInv == IInv /\ [Next]_vars => IInv'
<1> SUFFICES ASSUME IInv, [Next]_vars PROVE IInv'
  OBVIOUS
<1>2. CASE Parse
  BY <1>2, ParseKeeps
<1>3. CASE ExpandCommand
  BY <1>3, ExpandCommandKeeps
<1>4. CASE ExpandDone
  BY <1>4, ExpandDoneKeeps
<1>5. ASSUME NEW p \in Proc, ListStep(p) PROVE IInv'
  BY <1>5, StartChainKeeps, ForkChainKeeps, TurnKeeps, ForkMemberKeeps, WaitMembersKeeps,
     ListDoneKeeps DEF ListStep
<1>6. ASSUME NEW p \in Proc, SecondShellEnds(p) PROVE IInv'
  BY <1>6, ListDoneKeeps
<1>7. CASE UNCHANGED vars
  <2>1. /\ UNCHANGED <<tokens, pos, list>> /\ tokens' = tokens /\ pos' = pos /\ list' = list
        /\ expanded' = expanded /\ assigned' = assigned /\ seen' = seen
        /\ pc' = pc /\ local' = local /\ ran' = ran
    BY <1>7 DEF vars, expansion
  <2>2. /\ Position' = Position /\ Element' = Element /\ Frame' = Frame
        /\ Elements' = Elements /\ Text'
    BY <2>1, LineStays DEF IInv, Elements
  <2>3. Commands' = Commands
    BY <2>1, <2>2, Zenon DEF Commands
  <2>4. TypeOK'
    BY <2>1, <2>2, <2>3, Zenon DEF IInv, TypeOK
  <2>5. Built'
    <3>1. Increasing' /\ LastIsPlain' /\ Open'
      BY <2>1, <2>2 DEF IInv, Built, Increasing, Links, Start, LastIsPlain, Open
    <3>2. Marked'
      BY <2>1, <2>2 DEF IInv, Built, Marked, LastToken, StartOf
    <3> QED
      BY <3>1, <3>2 DEF Built
  <2>6. Fresh' /\ InOrderOnce'
    BY <2>1 DEF IInv, Fresh, InOrderOnce
  <2>7. UnderWay'
    BY <2>1, <2>2 DEF IInv, UnderWay, Born, Place, Mine, Links, Ahead, Passed, Start, Kin
  <2>8. Ran' /\ Served'
    <3>1. \A p \in Proc, i \in Elements, j \in Nat : Behind(p, i, j)' = Behind(p, i, j)
      BY <2>1 DEF Behind, Mine, Passed
    <3>2. \A i \in Elements : /\ Links(i)' = Links(i) /\ Asked(i)' = Asked(i)
                              /\ Start(i, 1)' = Start(i, 1)
                              /\ \A j \in Links(i) : j \in Nat /\ Start(i, j)' = Start(i, j)
      BY <2>1, Bounds DEF Links, Asked, Start
    <3>3. \A p \in Proc : RanBy(p)' = RanBy(p) /\ Born(p)' = Born(p)
      BY <2>1 DEF RanBy, Born
    <3>4. Ran'
      BY <2>1, <2>2, <3>1, <3>2, <3>3 DEF IInv, Ran
    <3>5. Served'
      BY <2>1, <2>2, <3>1, <3>2, <3>3 DEF IInv, Served, ServedBy
    <3> QED
      BY <3>4, <3>5
  <2> QED
    BY <2>2, <2>4, <2>5, <2>6, <2>7, <2>8 DEF IInv
<1> QED
  BY <1>2, <1>3, <1>4, <1>5, <1>6, <1>7 DEF Next, Rest

\* The invariant holds for lines of any length.
THEOREM EvalInvariant == Spec => []IInv
BY InitIInv, NextIInv, PTL DEF Spec

\* The types, for lines of any length.
THEOREM TypeCorrect == Spec => []TypeOK
<1>1. IInv => TypeOK
  BY DEF IInv
<1> QED
  BY <1>1, EvalInvariant, PTL

\* However many processes a line comes to be run by and however its pipelines
\* end: each process keeps to the order of the text, behind the token it was
\* forked at, and none of those that came of the shell, or of the same copy
\* that came back from execvp, runs a pipeline another of them has run.
THEOREM NothingRunsTwice == Spec => []InOrderOnce
<1>1. IInv => InOrderOnce
  BY DEF IInv
<1> QED
  BY <1>1, EvalInvariant, PTL

\* The process a chain is for is told by the text.
LEMMA MarkedByText ==
  ASSUME IInv, NEW p \in Proc, NEW i \in Elements
  PROVE  Responsible(p, i) <=> Mine(p, i)
BY DEF IInv, Built, Marked, Responsible, Mine

\* A chain runs in a child that was forked for it if and only if "&" follows
\* it in the text, in the shell and in every copy of it that came back from
\* execvp; and whoever has come to its end has run the chains without && and
\* || that it was to run, behind the token it was forked at.
THEOREM EveryChainRuns == Spec => []ChainsRun
<1>1. IInv => ChainsRun
  <2> SUFFICES ASSUME IInv PROVE ChainsRun
    OBVIOUS
  <2>1. TypeOK /\ Increasing /\ Ran /\ Served /\ ran \in Seq([proc : Proc, start : Position,
                                                              before : {0, 1}])
    BY DEF IInv, Built, TypeOK
  <2>2. ASSUME NEW r \in Range(ran), NEW i \in Elements, r.start \in PipelinesOf(i)
        PROVE  Responsible(r.proc, i)
    <3>1. PICK a \in 1..Len(ran) : r = ran[a]
      BY <2>1 DEF Range
    <3>2. PICK p \in Proc, m \in Elements : \E j \in Links(m) :
            ran[a].proc = p /\ ran[a].start = Start(m, j) /\ Behind(p, m, j)
      BY <2>1 DEF Ran
    <3>3. PICK j \in Links(m) :
            ran[a].proc = p /\ ran[a].start = Start(m, j) /\ Behind(p, m, j)
      BY <3>2
    <3>4. PICK k \in Links(i) : r.start = Start(i, k)
      <4>1. PICK x \in Range(list[i].andor) : r.start = x.pipeline.start
        BY <2>2 DEF PipelinesOf
      <4>2. list[i].andor \in Seq(Link) /\ Links(i) = 1..Len(list[i].andor)
        BY <2>1, ListFacts DEF Links
      <4>3. PICK k \in DOMAIN list[i].andor : x = list[i].andor[k]
        BY <4>1 DEF Range
      <4> QED
        BY <4>1, <4>2, <4>3 DEF Start
    <3>5. i = m
      BY <2>1, <3>1, <3>3, <3>4, PlacesDiffer
    <3> QED
      BY <3>1, <3>3, <3>5, MarkedByText DEF Behind
  <2>3. ASSUME NEW p \in Proc, NEW i \in Elements,
               pc[p] \in {"done", "exited"} \/ (pc[p] = "ended" /\ local[p].job # 0),
               Len(list[i].andor) = 1, Responsible(p, i), local[p].after < StartOf(i)
        PROVE  Asked(i) \subseteq RanBy(p)
    <3>1. Born(p) /\ Place(p) /\ Mine(p, i) /\ local[p].li \in Nat /\ i \in Nat
          /\ i =< Len(list) /\ Len(list) \in Nat
      BY <2>3, PlaceFacts, MarkedByText, Bounds DEF Born
    <3>2. Start(i, 1) = StartOf(i)
      BY DEF Start, StartOf
    <3>3. Behind(p, i, 1)
      <4>1. CASE pc[p] = "done"
        BY <3>1, <4>1 DEF Place, Behind, Passed
      <4>2. CASE pc[p] \in {"exited", "ended"} /\ local[p].job # 0
        <5>1. i = local[p].job
          BY <3>1, <4>2 DEF Mine
        <5>2. local[p].li = i /\ 1 < local[p].ai
          BY <2>3, <3>1, <4>2, <5>1, PlaceFacts DEF Place
        <5> QED
          BY <3>1, <4>2, <5>2 DEF Behind, Passed
      <4>3. pc[p] = "exited" => local[p].job # 0
        BY <3>1 DEF Place
      <4> QED
        BY <2>3, <4>1, <4>2, <4>3
    <3> QED
      BY <2>1, <2>3, <3>1, <3>2, <3>3 DEF Served, ServedBy
  <2> QED
    BY <2>2, <2>3 DEF ChainsRun
<1> QED
  BY <1>1, EvalInvariant, PTL

-----------------------------------------------------------------------------
(* Sequences that grow. *)

\* FlattenSeq, step by step.
LEMMA FlattenSteps ==
  ASSUME NEW seqs, Len(seqs) \in Nat \ {0}
  PROVE  /\ FlattenSeq(seqs) = Flat(seqs)[Len(seqs)]
         /\ \A i \in 1..Len(seqs) :
              Flat(seqs)[i] = IF i = 1 THEN seqs[i] ELSE Flat(seqs)[i-1] \o seqs[i]
<1> DEFINE f == Flat(seqs)
<1>1. FlattenSeq(seqs) = f[Len(seqs)]
  BY DEF FlattenSeq, Flat, IsFlat
<1>2. f = [i \in 1..Len(seqs) |-> IF i = 1 THEN seqs[i] ELSE f[i-1] \o seqs[i]]
  BY FlatExists DEF IsFlat
<1> HIDE DEF f
<1>3. \A i \in 1..Len(seqs) : f[i] = IF i = 1 THEN seqs[i] ELSE f[i-1] \o seqs[i]
  BY <1>2
<1> QED
  BY <1>1, <1>3 DEF f

\* Nothing flattened is nothing.
LEMMA FlattenNone ==
  ASSUME NEW S, NEW seqs \in Seq(S), Len(seqs) = 0
  PROVE  seqs = <<>> /\ FlattenSeq(seqs) = seqs
<1>1. FlattenSeq(seqs) = seqs
  BY DEF FlattenSeq
<1>2. seqs = <<>>
  BY EmptySeq
<1> QED
  BY <1>1, <1>2

\* What is flattened grows at its end.
LEMMA FlattenAppend ==
  ASSUME NEW S, NEW seqs \in Seq(Seq(S)), NEW s \in Seq(S)
  PROVE  FlattenSeq(Append(seqs, s)) = FlattenSeq(seqs) \o s
<1>1. PICK t : t = Append(seqs, s)
  OBVIOUS
<1>2. PICK n : n = Len(seqs)
  OBVIOUS
<1>3. /\ n \in Nat /\ Len(t) = n + 1 /\ t[n + 1] = s
      /\ \A i \in 1..n : t[i] = seqs[i]
  BY <1>1, <1>2, AppendProperties
<1>4. PICK g : g = Flat(t)
  OBVIOUS
<1>5. /\ FlattenSeq(t) = g[n + 1]
      /\ \A i \in 1..(n + 1) : g[i] = IF i = 1 THEN t[i] ELSE g[i-1] \o t[i]
  BY <1>3, <1>4, FlattenSteps
<1>6. CASE n = 0
  <2>1. seqs = <<>> /\ FlattenSeq(seqs) = seqs
    BY <1>2, <1>6, FlattenNone
  <2>2. g[1] = t[1] /\ t[1] = s
    BY <1>3, <1>5, <1>6
  <2>3. <<>> \o s = s
    BY ConcatEmptySeq
  <2> QED
    BY <1>1, <1>5, <1>6, <2>1, <2>2, <2>3
<1>7. CASE n # 0
  <2>1. PICK f : f = Flat(seqs)
    OBVIOUS
  <2>2. /\ FlattenSeq(seqs) = f[n]
        /\ \A i \in 1..n : f[i] = IF i = 1 THEN seqs[i] ELSE f[i-1] \o seqs[i]
    BY <1>2, <1>3, <1>7, <2>1, FlattenSteps
  <2> DEFINE Good == {k \in Nat \ {0} : k =< n => f[k] = g[k]}
  <2>3. 1 \in Good
    BY <1>3, <1>5, <1>7, <2>2
  <2>4. ASSUME NEW k \in Good PROVE k + 1 \in Good
    <3>1. CASE k + 1 =< n
      <4>1. /\ k + 1 \in 1..n /\ k + 1 \in 1..(n + 1) /\ k + 1 # 1
            /\ (k + 1) - 1 = k /\ k =< n
        BY <1>3, <3>1
      <4>2. f[k + 1] = f[k] \o seqs[k + 1] /\ g[k + 1] = g[k] \o t[k + 1]
        BY <1>5, <2>2, <4>1
      <4>3. f[k + 1] = g[k + 1]
        BY <1>3, <4>1, <4>2
      <4>4. k + 1 \in Nat \ {0}
        OBVIOUS
      <4> QED
        BY <4>3, <4>4
    <3>2. CASE ~(k + 1 =< n)
      BY <3>2
    <3> QED
      BY <3>1, <3>2
  <2>5. n \in Good
    <3> HIDE DEF Good
    <3>1. Good \in SUBSET Nat
      BY DEF Good
    <3> QED
      BY <1>3, <1>7, <2>3, <2>4, <3>1, SetInduction
  <2>6. f[n] = g[n]
    BY <1>3, <2>5
  <2>7. g[n + 1] = g[n] \o t[n + 1]
    <3>1. n + 1 \in 1..(n + 1) /\ n + 1 # 1 /\ (n + 1) - 1 = n
      BY <1>3, <1>7
    <3> QED
      BY <1>5, <3>1
  <2> QED
    BY <1>1, <1>3, <1>5, <2>2, <2>6, <2>7
<1> QED
  BY <1>6, <1>7

\* What two sequences hold, one behind the other.
LEMMA RangeOfConcat ==
  ASSUME NEW S, NEW s \in Seq(S), NEW t \in Seq(S)
  PROVE  Range(s \o t) = Range(s) \cup Range(t)
<1>1. PICK u : u = s \o t
  OBVIOUS
<1>2. PICK m, n : m = Len(s) /\ n = Len(t)
  OBVIOUS
<1>3. /\ m \in Nat /\ n \in Nat /\ DOMAIN s = 1..m /\ DOMAIN t = 1..n
      /\ DOMAIN u = 1..(m + n)
      /\ \A i \in 1..(m + n) : u[i] = IF i =< m THEN s[i] ELSE t[i - m]
  BY <1>1, <1>2, ConcatProperties, LenProperties
<1>4. ASSUME NEW x \in Range(u) PROVE x \in Range(s) \cup Range(t)
  <2>1. PICK i \in 1..(m + n) : x = u[i]
    BY <1>3 DEF Range
  <2>2. CASE i =< m
    BY <1>3, <2>1, <2>2 DEF Range
  <2>3. CASE ~(i =< m)
    <3>1. i - m \in 1..n
      BY <1>3, <2>3
    <3> QED
      BY <1>3, <2>1, <2>3, <3>1 DEF Range
  <2> QED
    BY <2>2, <2>3
<1>5. ASSUME NEW x \in Range(s) PROVE x \in Range(u)
  <2>1. PICK i \in 1..m : x = s[i]
    BY <1>3 DEF Range
  <2>2. i \in 1..(m + n) /\ u[i] = s[i]
    BY <1>3
  <2> QED
    BY <1>3, <2>1, <2>2 DEF Range
<1>6. ASSUME NEW x \in Range(t) PROVE x \in Range(u)
  <2>1. PICK i \in 1..n : x = t[i]
    BY <1>3 DEF Range
  <2>2. i + m \in 1..(m + n) /\ ~(i + m =< m) /\ (i + m) - m = i
    BY <1>3
  <2>3. u[i + m] = t[i]
    BY <1>3, <2>2
  <2> QED
    BY <1>3, <2>1, <2>2, <2>3 DEF Range
<1> QED
  BY <1>1, <1>4, <1>5, <1>6

\* A flattened sequence holds what the sequences in it hold, and no more.
LEMMA RangeOfFlatten ==
  ASSUME NEW S, NEW seqs \in Seq(Seq(S))
  PROVE  Range(FlattenSeq(seqs)) = UNION {Range(seqs[k]) : k \in 1..Len(seqs)}
<1>1. PICK n : n = Len(seqs)
  OBVIOUS
<1>2. n \in Nat /\ \A i \in 1..n : seqs[i] \in Seq(S)
  BY <1>1, ElementOfSeq
<1>3. CASE n = 0
  <2>1. FlattenSeq(seqs) = seqs /\ seqs = <<>>
    BY <1>1, <1>3, FlattenNone
  <2>2. DOMAIN seqs = {}
    BY <2>1
  <2> QED
    BY <1>1, <1>3, <2>1, <2>2 DEF Range
<1>4. CASE n # 0
  <2>1. PICK f : f = Flat(seqs)
    OBVIOUS
  <2>2. /\ FlattenSeq(seqs) = f[n]
        /\ \A i \in 1..n : f[i] = IF i = 1 THEN seqs[i] ELSE f[i-1] \o seqs[i]
    BY <1>1, <1>2, <1>4, <2>1, FlattenSteps
  <2> DEFINE Union(k) == UNION {Range(seqs[j]) : j \in 1..k}
             Good == {k \in Nat \ {0} :
                        k =< n => f[k] \in Seq(S) /\ Range(f[k]) = Union(k)}
  <2>3. 1 \in Good
    <3>1. f[1] = seqs[1] /\ seqs[1] \in Seq(S)
      BY <1>2, <1>4, <2>2
    <3>2. Union(1) = Range(seqs[1])
      OBVIOUS
    <3> QED
      BY <3>1, <3>2
  <2>4. ASSUME NEW k \in Good PROVE k + 1 \in Good
    <3>1. CASE k + 1 =< n
      <4>1. k + 1 \in 1..n /\ k + 1 # 1 /\ (k + 1) - 1 = k /\ k =< n
        BY <1>2, <3>1
      <4>2. /\ f[k + 1] = f[k] \o seqs[k + 1] /\ f[k] \in Seq(S)
            /\ seqs[k + 1] \in Seq(S) /\ Range(f[k]) = Union(k)
        BY <1>2, <2>2, <4>1
      <4>3. f[k + 1] \in Seq(S) /\ Range(f[k + 1]) = Union(k) \cup Range(seqs[k + 1])
        BY <4>2, ConcatProperties, RangeOfConcat
      <4>4. Union(k + 1) = Union(k) \cup Range(seqs[k + 1])
        <5>1. 1..(k + 1) = (1..k) \cup {k + 1}
          OBVIOUS
        <5> QED
          BY <5>1
      <4>5. k + 1 \in Nat \ {0}
        OBVIOUS
      <4>6. Range(f[k + 1]) = Union(k + 1)
        BY <4>3, <4>4
      <4> HIDE DEF Union
      <4> QED
        BY <4>3, <4>5, <4>6
    <3>2. CASE ~(k + 1 =< n)
      BY <3>2
    <3> QED
      BY <3>1, <3>2
  <2>5. n \in Good
    <3> HIDE DEF Good
    <3>1. Good \in SUBSET Nat
      BY DEF Good
    <3> QED
      BY <1>2, <1>4, <2>3, <2>4, <3>1, SetInduction
  <2> QED
    BY <1>1, <1>2, <2>2, <2>5
<1> QED
  BY <1>3, <1>4

\* A sequence without its last element.
Before(s) == [i \in 1..(Len(s) - 1) |-> s[i]]

LEMMA LastApart ==
  ASSUME NEW S, NEW s \in Seq(S), s # <<>>
  PROVE  /\ Len(s) \in Nat \ {0} /\ Before(s) \in Seq(S) /\ s[Len(s)] \in S
         /\ Len(Before(s)) = Len(s) - 1
         /\ s = Append(Before(s), s[Len(s)])
<1>1. PICK n : n = Len(s)
  OBVIOUS
<1>2. n \in Nat \ {0} /\ n - 1 \in Nat /\ \A i \in 1..n : s[i] \in S
  BY <1>1, EmptySeq, ElementOfSeq
<1>3. PICK b : b = Before(s)
  OBVIOUS
<1>4. b = [i \in 1..(n - 1) |-> s[i]]
  BY <1>1, <1>3 DEF Before
<1>5. b \in [1..(n - 1) -> S] /\ \A i \in 1..(n - 1) : b[i] = s[i]
  BY <1>2, <1>4
<1>6. b \in Seq(S) /\ Len(b) = n - 1
  BY <1>2, <1>5
<1>7. PICK t : t = Append(b, s[n])
  OBVIOUS
<1>8. /\ t \in Seq(S) /\ Len(t) = n /\ t[n] = s[n]
      /\ \A i \in 1..(n - 1) : t[i] = b[i]
  <2>1. s[n] \in S
    BY <1>2
  <2>2. /\ t \in Seq(S) /\ Len(t) = Len(b) + 1 /\ t[Len(b) + 1] = s[n]
        /\ \A i \in 1..Len(b) : t[i] = b[i]
    BY <1>6, <1>7, <2>1, AppendProperties
  <2> QED
    BY <1>2, <1>6, <2>2
<1>9. \A i \in 1..n : t[i] = s[i]
  BY <1>2, <1>5, <1>8
<1>10. t = s
  BY <1>1, <1>8, <1>9, SeqEqual
<1> QED
  BY <1>1, <1>2, <1>3, <1>6, <1>7, <1>10

\* Concatenation and a last element.
LEMMA ConcatThenAppend ==
  ASSUME NEW S, NEW s \in Seq(S), NEW t \in Seq(S), NEW e \in S
  PROVE  s \o t \in Seq(S) /\ s \o Append(t, e) = Append(s \o t, e)
<1>1. s \o t \in Seq(S) /\ <<e>> \in Seq(S)
  BY ConcatProperties
<1>2. Append(t, e) = t \o <<e>> /\ Append(s \o t, e) = (s \o t) \o <<e>>
  BY <1>1
<1>3. (s \o t) \o <<e>> = s \o (t \o <<e>>)
  BY <1>1, ConcatAssociative
<1> QED
  BY <1>1, <1>2, <1>3

LEMMA ConcatThenAppendSeq ==
  ASSUME NEW S, NEW s \in Seq(Seq(S)), NEW t \in Seq(Seq(S)), NEW e \in Seq(S)
  PROVE  s \o t \in Seq(Seq(S)) /\ s \o Append(t, e) = Append(s \o t, e)
<1>1. PICK T : T = Seq(S)
  OBVIOUS
<1>2. s \in Seq(T) /\ t \in Seq(T) /\ e \in T
  BY <1>1
<1>3. s \o t \in Seq(T) /\ s \o Append(t, e) = Append(s \o t, e)
  BY <1>2, ConcatThenAppend
<1> QED
  BY <1>1, <1>3

\* Two sequences that differ at the end only.
LEMMA BeforeSame ==
  ASSUME NEW s, NEW t, Len(s) = Len(t), \A i \in 1..(Len(s) - 1) : s[i] = t[i]
  PROVE  Before(s) = Before(t)
BY DEF Before

\* A sequence of one element more.
LEMMA OneMore ==
  ASSUME NEW S, NEW s \in Seq(S), NEW t \in Seq(S), Len(t) = Len(s) + 1,
         \A i \in 1..Len(s) : t[i] = s[i]
  PROVE  t = Append(s, t[Len(t)])
<1>1. Len(s) \in Nat /\ Len(t) \in 1..Len(t)
  OBVIOUS
<1>2. PICK x : x = t[Len(t)]
  OBVIOUS
<1>3. x \in S
  BY <1>1, <1>2, ElementOfSeq
<1>4. PICK u : u = Append(s, x)
  OBVIOUS
<1>5. /\ u \in Seq(S) /\ Len(u) = Len(s) + 1 /\ u[Len(s) + 1] = x
      /\ \A i \in 1..Len(s) : u[i] = s[i]
  BY <1>3, <1>4, AppendProperties
<1>6. \A i \in 1..Len(t) : u[i] = t[i]
  BY <1>1, <1>2, <1>5
<1>7. u = t
  BY <1>5, <1>6, SeqEqual
<1> QED
  BY <1>2, <1>4, <1>7

-----------------------------------------------------------------------------
(* The commands of a list, chain by chain and pipeline by pipeline. *)

Flattened(x) == FlattenSeq(FlattenSeq(x))

\* All of them but those of the last pipeline.
Stem(x) == FlattenSeq(FlattenSeq(Before(x)) \o Before(x[Len(x)]))

\* The commands of the last pipeline are the last.
LEMMA LastPipeline ==
  ASSUME NEW S, NEW x \in Seq(Seq(Seq(S))), x # <<>>, x[Len(x)] # <<>>
  PROVE  /\ Stem(x) \in Seq(S)
         /\ x[Len(x)][Len(x[Len(x)])] \in Seq(S)
         /\ Flattened(x) = Stem(x) \o x[Len(x)][Len(x[Len(x)])]
<1>1. PICK a, c : a = Before(x) /\ c = x[Len(x)]
  OBVIOUS
<1>2. a \in Seq(Seq(Seq(S))) /\ c \in Seq(Seq(S)) /\ x = Append(a, c)
  BY <1>1, LastApart
<1>3. PICK b, d : b = Before(c) /\ d = c[Len(c)]
  OBVIOUS
<1>4. b \in Seq(Seq(S)) /\ d \in Seq(S) /\ c = Append(b, d)
  <2>1. c # <<>>
    BY <1>1
  <2> QED
    BY <1>2, <1>3, <2>1, LastApart
<1>5. PICK e : e = FlattenSeq(a)
  OBVIOUS
<1>6. e \in Seq(Seq(S)) /\ FlattenSeq(x) = e \o c
  BY <1>2, <1>5, FlattenTyped, FlattenAppend
<1>7. e \o b \in Seq(Seq(S)) /\ e \o c = Append(e \o b, d)
  <2>1. e \in Seq(Seq(S)) /\ b \in Seq(Seq(S)) /\ d \in Seq(S)
    BY <1>4, <1>6
  <2>2. e \o b \in Seq(Seq(S)) /\ e \o Append(b, d) = Append(e \o b, d)
    BY ONLY <2>1, ConcatThenAppendSeq
  <2> QED
    BY <1>4, <2>2
<1>8. /\ FlattenSeq(e \o b) \in Seq(S)
      /\ FlattenSeq(Append(e \o b, d)) = FlattenSeq(e \o b) \o d
  BY <1>4, <1>7, FlattenTyped, FlattenAppend
<1>9. Stem(x) = FlattenSeq(e \o b)
  BY <1>1, <1>3, <1>5 DEF Stem
<1> QED
  BY <1>1, <1>3, <1>4, <1>6, <1>7, <1>8, <1>9 DEF Flattened

\* A pipeline more, in the last chain or in a chain of its own.
LEMMA OnePipelineMore ==
  ASSUME NEW S, NEW x \in Seq(Seq(Seq(S))), NEW y \in Seq(Seq(Seq(S))), NEW d \in Seq(S),
         \/ y = Append(x, <<d>>)
         \/ /\ x # <<>> /\ Len(y) = Len(x) /\ Before(y) = Before(x)
            /\ y[Len(x)] = Append(x[Len(x)], d)
  PROVE  Flattened(y) = Flattened(x) \o d
<1>1. FlattenSeq(x) \in Seq(Seq(S)) /\ <<d>> \in Seq(Seq(S))
  BY FlattenTyped
<1>2. FlattenSeq(y) = Append(FlattenSeq(x), d)
  <2>1. CASE y = Append(x, <<d>>)
    <3>1. FlattenSeq(y) = FlattenSeq(x) \o <<d>>
      BY <1>1, <2>1, FlattenAppend
    <3> QED
      BY <1>1, <3>1
  <2>2. CASE /\ x # <<>> /\ Len(y) = Len(x) /\ Before(y) = Before(x)
             /\ y[Len(x)] = Append(x[Len(x)], d)
    <3>1. PICK a, c : a = Before(x) /\ c = x[Len(x)]
      OBVIOUS
    <3>2. a \in Seq(Seq(Seq(S))) /\ c \in Seq(Seq(S)) /\ x = Append(a, c)
      BY <2>2, <3>1, LastApart
    <3>3. y # <<>>
      BY <2>2, EmptySeq
    <3>4. y = Append(a, Append(c, d)) /\ Append(c, d) \in Seq(Seq(S))
      <4>1. y = Append(Before(y), y[Len(y)]) /\ y[Len(y)] \in Seq(Seq(S))
        BY <3>3, LastApart
      <4> QED
        BY <2>2, <3>1, <4>1
    <3>5. PICK e : e = FlattenSeq(a)
      OBVIOUS
    <3>6. e \in Seq(Seq(S)) /\ FlattenSeq(x) = e \o c /\ FlattenSeq(y) = e \o Append(c, d)
      BY <3>2, <3>4, <3>5, FlattenTyped, FlattenAppend
    <3>7. e \o Append(c, d) = Append(e \o c, d)
      <4>1. e \in Seq(Seq(S)) /\ c \in Seq(Seq(S)) /\ d \in Seq(S)
        BY <3>2, <3>6
      <4>2. e \o c \in Seq(Seq(S)) /\ e \o Append(c, d) = Append(e \o c, d)
        BY ONLY <4>1, ConcatThenAppendSeq
      <4> QED
        BY <4>2
    <3> QED
      BY <3>6, <3>7
  <2> QED
    BY <2>1, <2>2
<1> QED
  BY <1>1, <1>2, FlattenAppend DEF Flattened

\* The commands of list l, chain by chain and pipeline by pipeline.
Spine(l) == [i \in 1..Len(l) |->
               [j \in DOMAIN l[i].andor |-> l[i].andor[j].pipeline.commands]]

LEMMA CommandsAreFlat == Commands = Flattened(Spine(list))
BY DEF Commands, Flattened, Spine, Elements

LEMMA NextCommandsAreFlat == (Commands = Flattened(Spine(list)))'
BY CommandsAreFlat, PTL

LEMMA SpineFacts ==
  ASSUME NEW l \in Seq(Element)
  PROVE  /\ Spine(l) \in Seq(Seq(Seq(Command))) /\ Len(Spine(l)) = Len(l)
         /\ \A i \in 1..Len(l) :
              /\ Spine(l)[i] \in Seq(Seq(Command)) /\ Len(Spine(l)[i]) = Len(l[i].andor)
              /\ Len(l[i].andor) \in Nat \ {0}
              /\ \A j \in 1..Len(l[i].andor) :
                   Spine(l)[i][j] = l[i].andor[j].pipeline.commands
<1> DEFINE chain(i) == [j \in DOMAIN l[i].andor |-> l[i].andor[j].pipeline.commands]
<1>1. ASSUME NEW i \in 1..Len(l)
      PROVE  /\ chain(i) \in Seq(Seq(Command)) /\ Len(chain(i)) = Len(l[i].andor)
             /\ Len(l[i].andor) \in Nat \ {0}
             /\ \A j \in 1..Len(l[i].andor) : chain(i)[j] = l[i].andor[j].pipeline.commands
  <2>1. PICK ch : ch = l[i].andor
    OBVIOUS
  <2>2. ch \in Seq(Link) \ {<<>>}
    <3>1. l[i] \in Element
      BY ElementOfSeq
    <3> QED
      BY <2>1, <3>1 DEF Element
  <2>3. Len(ch) \in Nat \ {0} /\ DOMAIN ch = 1..Len(ch)
    BY <2>2, EmptySeq, LenProperties
  <2>4. \A j \in 1..Len(ch) : ch[j] \in Link
    BY <2>2, ElementOfSeq
  <2>5. \A j \in 1..Len(ch) : ch[j].pipeline.commands \in Seq(Command)
    BY <2>4 DEF Link, Pipeline
  <2>6. chain(i) = [j \in 1..Len(ch) |-> ch[j].pipeline.commands]
    BY <2>1, <2>3
  <2>7. PICK c : c = chain(i)
    OBVIOUS
  <2> HIDE DEF chain
  <2>8. c \in [1..Len(ch) -> Seq(Command)]
        /\ \A j \in 1..Len(ch) : c[j] = ch[j].pipeline.commands
    BY <2>5, <2>6, <2>7
  <2>9. c \in Seq(Seq(Command)) /\ Len(c) = Len(ch)
    BY <2>3, <2>8
  <2> QED
    BY <2>1, <2>3, <2>7, <2>8, <2>9
<1>2. Len(l) \in Nat
  BY LenProperties
<1>3. PICK x : x = Spine(l)
  OBVIOUS
<1>4. x = [i \in 1..Len(l) |-> chain(i)]
  BY <1>3 DEF Spine
<1> HIDE DEF chain
<1>5. x \in [1..Len(l) -> Seq(Seq(Command))] /\ \A i \in 1..Len(l) : x[i] = chain(i)
  BY <1>1, <1>4
<1>6. x \in Seq(Seq(Seq(Command))) /\ Len(x) = Len(l)
  BY <1>2, <1>5
<1>7. ASSUME NEW i \in 1..Len(l)
      PROVE  /\ x[i] \in Seq(Seq(Command)) /\ Len(x[i]) = Len(l[i].andor)
             /\ Len(l[i].andor) \in Nat \ {0}
             /\ \A j \in 1..Len(l[i].andor) : x[i][j] = l[i].andor[j].pipeline.commands
  BY <1>1, <1>5
<1> QED
  BY <1>3, <1>6, <1>7

\* Chains with the same commands are the same in the spine.
LEMMA SameChain ==
  ASSUME NEW l \in Seq(Element), NEW m \in Seq(Element), NEW i \in 1..Len(l), i \in 1..Len(m),
         Len(m[i].andor) = Len(l[i].andor),
         \A j \in 1..Len(l[i].andor) :
            m[i].andor[j].pipeline.commands = l[i].andor[j].pipeline.commands
  PROVE  Spine(m)[i] = Spine(l)[i]
<1>1. PICK c, d : c = Spine(l)[i] /\ d = Spine(m)[i]
  OBVIOUS
<1>2. /\ c \in Seq(Seq(Command)) /\ Len(c) = Len(l[i].andor)
      /\ \A j \in 1..Len(l[i].andor) : c[j] = l[i].andor[j].pipeline.commands
  BY <1>1, SpineFacts
<1>3. /\ d \in Seq(Seq(Command)) /\ Len(d) = Len(m[i].andor)
      /\ \A j \in 1..Len(m[i].andor) : d[j] = m[i].andor[j].pipeline.commands
  BY <1>1, SpineFacts
<1>4. Len(d) = Len(c) /\ \A j \in 1..Len(d) : d[j] = c[j]
  BY <1>2, <1>3
<1>5. d = c
  BY <1>2, <1>3, <1>4, SeqEqual
<1> QED
  BY <1>1, <1>5

\* The commands of the last pipeline are replaced: those in front are not.
LEMMA LastReplaced ==
  ASSUME TypeOK, NEW cs \in Seq(Command), NEW l \in Seq(Element), Len(l) = Len(list),
         DifferAtEnd(l, cs)
  PROVE  \E stem \in Seq(Command) :
           /\ Commands = stem \o CurrentPipeline.commands
           /\ Flattened(Spine(l)) = stem \o cs
<1>1. PICK L, M : L = Len(list) /\ M = Len(CurrentChain)
  OBVIOUS
<1>2. /\ L \in Nat \ {0} /\ list \in Seq(Element) /\ CurrentChain = list[L].andor
      /\ CurrentPipeline = CurrentChain[M].pipeline /\ M \in Nat \ {0}
      /\ L \in 1..L /\ M \in 1..M
  <2>1. L \in Nat /\ L >= 1 /\ list \in Seq(Element)
    BY <1>1, ListFacts DEF TypeOK
  <2>2. /\ CurrentChain = list[L].andor /\ CurrentPipeline = CurrentChain[M].pipeline
        /\ M \in Links(L)
    BY <1>1, CurrentFacts
  <2>3. M \in Nat /\ M >= 1
    <3>1. L \in Elements
      BY <1>1, CurrentFacts
    <3> QED
      BY <1>1, <2>2, <3>1, ListFacts
  <2> QED
    BY <2>1, <2>2, <2>3
<1>3. /\ \A i \in 1..(L - 1) : l[i] = list[i]
      /\ Len(l[L].andor) = M
      /\ \A j \in 1..(M - 1) : l[L].andor[j] = list[L].andor[j]
      /\ l[L].andor[M].pipeline.commands = cs
  BY <1>1, <1>2 DEF DifferAtEnd
<1>4. PICK x, y : x = Spine(list) /\ y = Spine(l)
  OBVIOUS
<1>5. /\ x \in Seq(Seq(Seq(Command))) /\ Len(x) = L
      /\ y \in Seq(Seq(Seq(Command))) /\ Len(y) = L
      /\ Len(x[L]) = M /\ Len(y[L]) = M
      /\ \A j \in 1..M : x[L][j] = list[L].andor[j].pipeline.commands
      /\ \A j \in 1..M : y[L][j] = l[L].andor[j].pipeline.commands
  <2>1. /\ x \in Seq(Seq(Seq(Command))) /\ Len(x) = L
        /\ Len(x[L]) = M
        /\ \A j \in 1..M : x[L][j] = list[L].andor[j].pipeline.commands
    BY <1>1, <1>2, <1>4, SpineFacts
  <2>2. /\ y \in Seq(Seq(Seq(Command))) /\ Len(y) = L
        /\ Len(y[L]) = M
        /\ \A j \in 1..M : y[L][j] = l[L].andor[j].pipeline.commands
    <3>1. /\ y \in Seq(Seq(Seq(Command))) /\ Len(y) = Len(l)
          /\ \A i \in 1..Len(l) :
               /\ Len(y[i]) = Len(l[i].andor)
               /\ \A j \in 1..Len(l[i].andor) : y[i][j] = l[i].andor[j].pipeline.commands
      BY <1>4, SpineFacts
    <3>2. L \in 1..Len(l) /\ Len(l) = L
      BY <1>1, <1>2
    <3> QED
      BY <1>3, <3>1, <3>2
  <2> QED
    BY <2>1, <2>2
<1>6. Before(x) = Before(y)
  <2>1. ASSUME NEW i \in 1..(L - 1) PROVE x[i] = y[i]
    <3>1. i \in 1..Len(list) /\ i \in 1..Len(l) /\ l[i] = list[i]
      BY <1>1, <1>2, <1>3
    <3> QED
      BY <1>2, <1>4, <3>1, SameChain
  <2> QED
    BY <1>5, <2>1, BeforeSame
<1>7. Before(x[L]) = Before(y[L])
  <2>1. ASSUME NEW j \in 1..(M - 1) PROVE x[L][j] = y[L][j]
    <3>1. j \in 1..M
      BY <1>2
    <3> QED
      BY <1>3, <1>5, <3>1
  <2> QED
    BY <1>5, <2>1, BeforeSame
<1>8. Stem(x) = Stem(y)
  BY <1>5, <1>6, <1>7 DEF Stem
<1>9. x # <<>> /\ y # <<>> /\ x[L] # <<>> /\ y[L] # <<>>
  BY <1>2, <1>5, EmptySeq
<1>10. x[L][M] = CurrentPipeline.commands /\ y[L][M] = cs
  BY <1>2, <1>3, <1>5
<1>11. /\ Stem(x) \in Seq(Command)
       /\ Flattened(x) = Stem(x) \o x[L][M] /\ Flattened(y) = Stem(y) \o y[L][M]
  <2>1. Stem(x) \in Seq(Command) /\ Flattened(x) = Stem(x) \o x[L][M]
    BY <1>5, <1>9, LastPipeline
  <2>2. Flattened(y) = Stem(y) \o y[L][M]
    BY <1>5, <1>9, LastPipeline
  <2> QED
    BY <2>1, <2>2
<1> QED
  BY <1>4, <1>8, <1>10, <1>11, CommandsAreFlat

-----------------------------------------------------------------------------
(* What the parser does to the commands. *)

\* The command under construction is the last.
LEMMA CurrentIsLast ==
  ASSUME TypeOK
  PROVE  /\ Commands \in Seq(Command) /\ Len(Commands) \in Nat \ {0}
         /\ Commands[Len(Commands)] = Current
<1>1. PICK old, n : old = CurrentPipeline.commands /\ n = Len(old)
  OBVIOUS
<1>2. old \in Seq(Command) /\ n \in 1..n /\ Current = old[n] /\ n \in Nat
  BY <1>1, CurrentFacts
<1>3. old # <<>>
  BY <1>1, <1>2, EmptySeq
<1>4. DifferAtEnd(list, old)
  BY <1>1, CurrentFacts DEF DifferAtEnd
<1>5. list \in Seq(Element)
  BY DEF TypeOK
<1>6. PICK stem \in Seq(Command) : Commands = stem \o old
  BY <1>1, <1>2, <1>4, <1>5, LastReplaced
<1>7. PICK m : m = Len(stem)
  OBVIOUS
<1>8. /\ stem \o old \in Seq(Command) /\ Len(stem \o old) = m + n /\ m \in Nat
      /\ \A i \in 1..(m + n) : (stem \o old)[i] = IF i =< m THEN stem[i] ELSE old[i - m]
  BY <1>1, <1>2, <1>7, ConcatProperties, LenProperties
<1>9. m + n \in 1..(m + n) /\ ~(m + n =< m) /\ (m + n) - m = n
  BY <1>2, <1>8
<1>10. (stem \o old)[m + n] = old[n]
  BY <1>8, <1>9
<1> QED
  BY <1>2, <1>6, <1>8, <1>9, <1>10

\* A word is added to the command under construction.
LEMMA CommandGrows ==
  ASSUME TypeOK, NEW c \in Command, list' = WithCommand(c)
  PROVE  \E front \in Seq(Command) :
           Commands = Append(front, Current) /\ Commands' = Append(front, c)
<1>1. PICK old, n : old = CurrentPipeline.commands /\ n = Len(old)
  OBVIOUS
<1>2. /\ old \in Seq(Command) /\ n \in 1..n /\ Current = old[n] /\ n \in Nat
      /\ Current \in Command
  BY <1>1, CurrentFacts
<1>3. PICK cs : cs = [old EXCEPT ![n] = c]
  OBVIOUS
<1>4. /\ cs \in Seq(Command) /\ Len(cs) = n
      /\ \A i \in 1..n : cs[i] = IF i = n THEN c ELSE old[i]
  BY <1>1, <1>2, <1>3, ExceptSeq
<1>5. old # <<>> /\ cs # <<>>
  BY <1>1, <1>2, <1>4, EmptySeq
<1>6. PICK l : l = WithCommands(cs)
  OBVIOUS
<1>7. list' = l /\ l \in Seq(Element) /\ Len(l) = Len(list) /\ DifferAtEnd(l, cs)
  <2>1. l \in Seq(Element) /\ Alike(l) /\ DifferAtEnd(l, cs)
    BY <1>4, <1>5, <1>6, CommandsChanged
  <2>2. WithCommand(c) = l
    BY <1>1, <1>3, <1>6 DEF WithCommand
  <2> QED
    BY <2>1, <2>2 DEF Alike
<1>8. PICK stem \in Seq(Command) :
        Commands = stem \o old /\ Flattened(Spine(l)) = stem \o cs
  BY <1>1, <1>4, <1>7, LastReplaced
<1>9. PICK b : b = Before(old)
  OBVIOUS
<1>10. b \in Seq(Command) /\ old = Append(b, Current) /\ cs = Append(b, c)
  <2>1. b \in Seq(Command) /\ old = Append(b, Current)
    BY <1>1, <1>2, <1>5, <1>9, LastApart
  <2>2. cs = Append(Before(cs), c)
    BY <1>2, <1>4, <1>5, LastApart
  <2>3. Before(cs) = Before(old)
    BY <1>1, <1>2, <1>4, BeforeSame
  <2> QED
    BY <1>9, <2>1, <2>2, <2>3
<1>11. PICK front : front = stem \o b
  OBVIOUS
<1>12. front \in Seq(Command) /\ stem \o old = Append(front, Current)
       /\ stem \o cs = Append(front, c)
  <2>1. /\ stem \o b \in Seq(Command)
        /\ stem \o Append(b, Current) = Append(stem \o b, Current)
    <3>1. stem \in Seq(Command) /\ b \in Seq(Command) /\ Current \in Command
      BY <1>2, <1>10
    <3> QED
      BY ONLY <3>1, ConcatThenAppend
  <2>2. stem \o Append(b, c) = Append(stem \o b, c)
    <3>1. stem \in Seq(Command) /\ b \in Seq(Command) /\ c \in Command
      BY <1>10
    <3> QED
      BY ONLY <3>1, ConcatThenAppend
  <2> QED
    BY <1>10, <1>11, <2>1, <2>2
<1>13. Commands' = Flattened(Spine(l))
  BY <1>7, NextCommandsAreFlat
<1> QED
  BY <1>8, <1>12, <1>13

LEMMA EmptyIsCommand == EmptyCommand \in Command /\ <<EmptyCommand>> \in Seq(Command)
<1>1. <<>> \in Seq(Position)
  BY EmptySeq, Zenon
<1>2. EmptyCommand \in Command
  BY <1>1 DEF EmptyCommand, Command
<1> QED
  BY <1>2

\* A pipe opens a command.
LEMMA PipeOpens ==
  ASSUME TypeOK, ParsePipe
  PROVE  Commands' = Append(Commands, EmptyCommand)
<1>1. PICK old, cs, l : /\ old = CurrentPipeline.commands
                        /\ cs = Append(old, EmptyCommand) /\ l = WithCommands(cs)
  OBVIOUS
<1>2. old \in Seq(Command)
  BY <1>1, CurrentFacts
<1>3. cs \in Seq(Command) /\ Len(cs) = Len(old) + 1
  BY <1>1, <1>2, EmptyIsCommand, AppendProperties
<1>4. cs # <<>>
  BY <1>2, <1>3, EmptySeq
<1>5. list' = l
  BY <1>1 DEF ParsePipe
<1>6. l \in Seq(Element) /\ Len(l) = Len(list) /\ DifferAtEnd(l, cs)
  BY <1>1, <1>3, <1>4, CommandsChanged DEF Alike
<1>7. PICK stem \in Seq(Command) :
        Commands = stem \o old /\ Flattened(Spine(l)) = stem \o cs
  BY <1>1, <1>3, <1>6, LastReplaced
<1>8. stem \o Append(old, EmptyCommand) = Append(stem \o old, EmptyCommand)
  BY ONLY <1>2, <1>7, EmptyIsCommand, ConcatThenAppend
<1>9. Commands' = Flattened(Spine(l))
  BY <1>5, NextCommandsAreFlat
<1> QED
  BY <1>1, <1>7, <1>8, <1>9

\* An operator opens a pipeline.
LEMMA AndOrOpens ==
  ASSUME TypeOK, Text, ParseAndOr, tokens' = tokens
  PROVE  Commands' = Append(Commands, EmptyCommand)
<1>1. PICK L, M, ch : L = Len(list) /\ ch = CurrentChain /\ M = Len(ch)
  OBVIOUS
<1>2. /\ L \in Nat \ {0} /\ L \in 1..L /\ list \in Seq(Element) /\ ch = list[L].andor
      /\ ch \in Seq(Link) /\ M \in Nat \ {0} /\ M \in 1..M /\ ch[M] \in Link
  <2>1. L \in Nat /\ L >= 1 /\ list \in Seq(Element)
    BY <1>1, ListFacts DEF TypeOK
  <2>2. ch = list[L].andor /\ ch \in Seq(Link) /\ M \in Links(L) /\ L \in Elements
    BY <1>1, CurrentFacts
  <2>3. M \in Nat /\ M >= 1
    BY <1>1, <2>2, ListFacts
  <2>4. ch[M] \in Link
    BY <1>1, <2>2, <2>3, ElementOfSeq
  <2> QED
    BY <2>1, <2>2, <2>3, <2>4
<1>3. Peek \in {"and", "or"} /\ pos' = pos + 1 /\ pos + 1 \in Position
  <2>1. tokens[pos] # "eof"
    BY DEF ParseAndOr, Peek
  <2> QED
    BY <2>1, ReadOn DEF ParseAndOr
<1>4. PICK k, marked, new, c : /\ k = [ch[M] EXCEPT !.op = Peek]
                               /\ marked = [ch EXCEPT ![M] = k]
                               /\ new = [op |-> "none", pipeline |-> NewPipeline(pos + 1)]
                               /\ c = marked \o <<new>>
  OBVIOUS
<1>5. k \in Link /\ k.pipeline = ch[M].pipeline
  BY <1>2, <1>3, <1>4 DEF Link
<1>6. new \in Link /\ new.pipeline.commands = <<EmptyCommand>>
  <2>1. NewPipeline(pos + 1) \in Pipeline
    <3>1. <<EmptyCommand>> # <<>>
      OBVIOUS
    <3> QED
      BY <1>3, <3>1, EmptyIsCommand DEF NewPipeline, Pipeline
  <2> QED
    BY <1>4, <2>1 DEF Link, NewPipeline
<1>7. /\ marked \in Seq(Link) /\ Len(marked) = M
      /\ \A j \in 1..M : marked[j].pipeline = ch[j].pipeline
  <2>1. /\ marked \in Seq(Link) /\ Len(marked) = Len(ch)
        /\ \A j \in 1..Len(ch) : marked[j] = IF j = M THEN k ELSE ch[j]
    <3>1. ch \in Seq(Link) /\ M \in 1..Len(ch) /\ k \in Link
      BY <1>1, <1>2, <1>5
    <3>2. marked = [ch EXCEPT ![M] = k]
      BY <1>4
    <3> QED
      BY ONLY <3>1, <3>2, ExceptSeq
  <2> QED
    BY <1>1, <1>5, <2>1
<1>8. /\ c \in Seq(Link) /\ Len(c) = M + 1 /\ c # <<>>
      /\ c[M + 1].pipeline.commands = <<EmptyCommand>>
      /\ \A j \in 1..M : c[j].pipeline.commands = ch[j].pipeline.commands
  <2>1. c = Append(marked, new)
    BY <1>4, <1>7
  <2>2. /\ c \in Seq(Link) /\ Len(c) = M + 1 /\ c[M + 1] = new
        /\ \A j \in 1..M : c[j] = marked[j]
    BY <1>6, <1>7, <2>1, AppendProperties
  <2>3. c # <<>>
    BY <1>2, <2>2, EmptySeq
  <2> QED
    BY <1>6, <1>7, <2>2, <2>3
<1>9. list' = WithChain(c)
  <2>1. [CurrentChain EXCEPT ![Len(CurrentChain)].op = Peek] = marked
    BY <1>1, <1>4
  <2>2. NewAndOr(pos') = <<new>>
    BY <1>3, <1>4 DEF NewAndOr
  <2> QED
    BY <1>4, <2>1, <2>2 DEF ParseAndOr
<1>10. PICK l : l = WithChain(c)
  OBVIOUS
<1>11. /\ l \in Seq(Element) /\ Len(l) = L
       /\ \A i \in 1..(L - 1) : l[i] = list[i]
       /\ l[L].andor = c
  <2>1. /\ l \in Seq(Element) /\ Len(l) = Len(list) /\ l[Len(list)].andor = c
        /\ \A i \in Elements : i # Len(list) => l[i] = list[i]
    BY <1>8, <1>10, ChainChanged
  <2>2. Elements = 1..L
    BY <1>1 DEF Elements
  <2> QED
    BY <1>1, <1>2, <2>1, <2>2
<1>12. PICK x, y : x = Spine(list) /\ y = Spine(l)
  OBVIOUS
<1>13. /\ x \in Seq(Seq(Seq(Command))) /\ Len(x) = L /\ x[L] \in Seq(Seq(Command))
       /\ Len(x[L]) = M
       /\ \A j \in 1..M : x[L][j] = ch[j].pipeline.commands
  <2>1. /\ Len(x) = Len(list) /\ x \in Seq(Seq(Seq(Command)))
        /\ \A i \in 1..Len(list) :
             /\ x[i] \in Seq(Seq(Command)) /\ Len(x[i]) = Len(list[i].andor)
             /\ \A j \in 1..Len(list[i].andor) : x[i][j] = list[i].andor[j].pipeline.commands
    BY <1>2, <1>12, SpineFacts
  <2> QED
    BY <1>1, <1>2, <2>1
<1>14. /\ y \in Seq(Seq(Seq(Command))) /\ Len(y) = L /\ y[L] \in Seq(Seq(Command))
       /\ Len(y[L]) = M + 1
       /\ \A j \in 1..(M + 1) : y[L][j] = c[j].pipeline.commands
  <2>1. /\ Len(y) = Len(l) /\ y \in Seq(Seq(Seq(Command)))
        /\ \A i \in 1..Len(l) :
             /\ y[i] \in Seq(Seq(Command)) /\ Len(y[i]) = Len(l[i].andor)
             /\ \A j \in 1..Len(l[i].andor) : y[i][j] = l[i].andor[j].pipeline.commands
    BY <1>11, <1>12, SpineFacts
  <2> QED
    BY <1>2, <1>8, <1>11, <2>1
<1>15. Before(y) = Before(x)
  <2>1. ASSUME NEW i \in 1..(L - 1) PROVE y[i] = x[i]
    <3>1. i \in 1..Len(list) /\ i \in 1..Len(l) /\ l[i] = list[i]
      BY <1>1, <1>2, <1>11
    <3> QED
      BY <1>2, <1>11, <1>12, <3>1, SameChain
  <2> QED
    BY <1>13, <1>14, <2>1, BeforeSame
<1>16. y[L] = Append(x[L], <<EmptyCommand>>)
  <2>1. \A j \in 1..M : y[L][j] = x[L][j]
    <3>1. \A j \in 1..M : j \in 1..(M + 1)
      BY <1>2
    <3> QED
      BY <1>8, <1>13, <1>14, <3>1
  <2>2. y[L][M + 1] = <<EmptyCommand>>
    <3>1. M + 1 \in 1..(M + 1)
      BY <1>2
    <3> QED
      BY <1>8, <1>14, <3>1
  <2>3. PICK T, s, t : T = Seq(Command) /\ s = x[L] /\ t = y[L]
    OBVIOUS
  <2>4. /\ s \in Seq(T) /\ t \in Seq(T) /\ Len(t) = Len(s) + 1
        /\ \A i \in 1..Len(s) : t[i] = s[i]
    BY <1>13, <1>14, <2>1, <2>3
  <2>5. t = Append(s, t[Len(t)])
    BY ONLY <2>4, OneMore
  <2> QED
    BY <1>14, <2>2, <2>3, <2>5
<1>17. x # <<>>
  BY <1>2, <1>13, EmptySeq
<1>18. Flattened(y) = Flattened(x) \o <<EmptyCommand>>
  <2>1. PICK d : d = <<EmptyCommand>>
    OBVIOUS
  <2>2. /\ x \in Seq(Seq(Seq(Command))) /\ y \in Seq(Seq(Seq(Command))) /\ d \in Seq(Command)
        /\ x # <<>> /\ Len(y) = Len(x) /\ Before(y) = Before(x)
        /\ y[Len(x)] = Append(x[Len(x)], d)
    BY <1>13, <1>14, <1>15, <1>16, <1>17, <2>1, EmptyIsCommand
  <2>3. Flattened(y) = Flattened(x) \o d
    BY ONLY <2>2, OnePipelineMore
  <2> QED
    BY <2>1, <2>3
<1>19. Commands' = Flattened(y) /\ Commands = Flattened(x) /\ Commands \in Seq(Command)
  BY <1>2, <1>9, <1>10, <1>12, CommandsAreFlat, NextCommandsAreFlat, CommandsTyped
<1> QED
  BY <1>18, <1>19, EmptyIsCommand

\* A separator leaves the commands as they are, or opens an element.
LEMMA SeparatorOpens ==
  ASSUME TypeOK, Text, ParseSeparator, tokens' = tokens
  PROVE  /\ pos' = pos + 1
         /\ IF tokens[pos + 1] \in {"eof", "newline"} THEN Commands' = Commands
            ELSE Commands' = Append(Commands, EmptyCommand)
<1>1. PICK L, e, marked : /\ L = Len(list) /\ e = [list[L] EXCEPT !.sep = Peek]
                          /\ marked = [list EXCEPT ![L] = e]
  OBVIOUS
<1>2. /\ L \in Nat \ {0} /\ L \in 1..L /\ list \in Seq(Element) /\ list[L] \in Element
  <2>1. L \in Nat /\ L >= 1 /\ list \in Seq(Element)
    BY <1>1, ListFacts DEF TypeOK
  <2>2. list[L] \in Element
    BY <1>1, <2>1, ElementOfSeq
  <2> QED
    BY <2>1, <2>2
<1>3. Peek \in {"semi", "amp"} /\ pos' = pos + 1 /\ pos + 1 \in Position
  <2>1. tokens[pos] # "eof"
    BY DEF ParseSeparator, Peek
  <2> QED
    BY <2>1, ReadOn DEF ParseSeparator
<1>4. e \in Element /\ e.andor = list[L].andor
  BY <1>1, <1>2, <1>3 DEF Element
<1>5. /\ marked \in Seq(Element) /\ Len(marked) = L
      /\ \A i \in 1..L : marked[i].andor = list[i].andor
  <2>1. list \in Seq(Element) /\ L \in 1..Len(list) /\ e \in Element
    BY <1>1, <1>2, <1>4
  <2>2. /\ marked \in Seq(Element) /\ Len(marked) = Len(list)
        /\ \A i \in 1..Len(list) : marked[i] = IF i = L THEN e ELSE list[i]
    <3>1. marked = [list EXCEPT ![L] = e]
      BY <1>1
    <3> QED
      BY ONLY <2>1, <3>1, ExceptSeq
  <2> QED
    BY <1>1, <1>4, <2>2
<1>6. PICK x, y : x = Spine(list) /\ y = Spine(marked)
  OBVIOUS
<1>7. /\ x \in Seq(Seq(Seq(Command))) /\ Len(x) = L
      /\ y \in Seq(Seq(Seq(Command))) /\ Len(y) = L
  <2>1. x \in Seq(Seq(Seq(Command))) /\ Len(x) = Len(list)
    BY <1>2, <1>6, SpineFacts
  <2>2. y \in Seq(Seq(Seq(Command))) /\ Len(y) = Len(marked)
    BY <1>5, <1>6, SpineFacts
  <2> QED
    BY <1>1, <1>5, <2>1, <2>2
<1>8. x = y
  <2>1. ASSUME NEW i \in 1..L PROVE y[i] = x[i]
    <3>1. i \in 1..Len(list) /\ i \in 1..Len(marked) /\ marked[i].andor = list[i].andor
      BY <1>1, <1>5
    <3> QED
      BY <1>2, <1>5, <1>6, <3>1, SameChain
  <2> QED
    BY <1>7, <2>1, SeqEqual
<1>9. list' = IF tokens[pos + 1] \in {"eof", "newline"} THEN marked
              ELSE Append(marked, NewElement(pos + 1))
  <2>1. [list EXCEPT ![Len(list)].sep = Peek] = marked
    BY <1>1
  <2> QED
    BY <1>3, <2>1 DEF ParseSeparator
<1>10. Commands = Flattened(x) /\ Commands \in Seq(Command)
  BY <1>2, <1>6, CommandsAreFlat, CommandsTyped
<1>11. CASE tokens[pos + 1] \in {"eof", "newline"}
  <2>1. list' = marked
    BY <1>9, <1>11
  <2>2. Commands' = Flattened(y)
    BY <1>6, <2>1, NextCommandsAreFlat
  <2> QED
    BY <1>3, <1>8, <1>10, <1>11, <2>2
<1>12. CASE tokens[pos + 1] \notin {"eof", "newline"}
  <2>1. PICK new, l : new = NewElement(pos + 1) /\ l = Append(marked, new)
    OBVIOUS
  <2>2. /\ new \in Element /\ Len(new.andor) = 1
        /\ new.andor[1].pipeline.commands = <<EmptyCommand>>
    <3>1. PICK k : k = [op |-> "none", pipeline |-> NewPipeline(pos + 1)]
      OBVIOUS
    <3>2. NewPipeline(pos + 1) \in Pipeline
      <4>1. <<EmptyCommand>> # <<>>
        OBVIOUS
      <4> QED
        BY <1>3, <4>1, EmptyIsCommand DEF NewPipeline, Pipeline
    <3>3. k \in Link /\ k.pipeline.commands = <<EmptyCommand>>
      BY <3>1, <3>2 DEF Link, NewPipeline
    <3>4. <<k>> \in Seq(Link) \ {<<>>} /\ Len(<<k>>) = 1 /\ <<k>>[1] = k
      BY <3>3
    <3>5. new = [sep |-> "none", andor |-> <<k>>]
      BY <2>1, <3>1 DEF NewElement, NewAndOr
    <3> QED
      BY <3>3, <3>4, <3>5 DEF Element
  <2>3. /\ l \in Seq(Element) /\ Len(l) = L + 1 /\ l[L + 1] = new
        /\ \A i \in 1..L : l[i] = marked[i]
    BY <1>5, <2>1, <2>2, AppendProperties
  <2>4. PICK z, d : z = Spine(l) /\ d = <<EmptyCommand>>
    OBVIOUS
  <2>5. z \in Seq(Seq(Seq(Command))) /\ Len(z) = L + 1
    BY <2>3, <2>4, SpineFacts
  <2>6. \A i \in 1..L : z[i] = y[i]
    <3>1. ASSUME NEW i \in 1..L PROVE z[i] = y[i]
      <4>1. i \in 1..Len(l) /\ i \in 1..Len(marked) /\ l[i] = marked[i]
        BY <1>2, <1>5, <2>3
      <4> QED
        BY <1>5, <1>6, <2>3, <2>4, <4>1, SameChain
    <3> QED
      BY <3>1
  <2>7. z[L + 1] = <<d>>
    <3>1. PICK s : s = z[L + 1]
      OBVIOUS
    <3>2. s \in Seq(Seq(Command)) /\ Len(s) = 1 /\ s[1] = d
      <4>1. L + 1 \in 1..Len(l)
        BY <1>2, <2>3
      <4>2. /\ s \in Seq(Seq(Command)) /\ Len(s) = Len(l[L + 1].andor)
            /\ \A j \in 1..Len(l[L + 1].andor) : s[j] = l[L + 1].andor[j].pipeline.commands
        BY <2>3, <2>4, <3>1, <4>1, SpineFacts
      <4> QED
        BY <2>2, <2>3, <2>4, <4>2
    <3>3. <<d>> \in Seq(Seq(Command)) /\ Len(<<d>>) = 1 /\ <<d>>[1] = d
      BY <2>4, EmptyIsCommand
    <3>4. s = <<d>>
      BY <3>2, <3>3, SeqEqual
    <3> QED
      BY <3>1, <3>4
  <2>8. z = Append(y, <<d>>)
    <3>1. PICK T : T = Seq(Seq(Command))
      OBVIOUS
    <3>2. y \in Seq(T) /\ z \in Seq(T) /\ Len(z) = Len(y) + 1 /\ \A i \in 1..Len(y) : z[i] = y[i]
      BY <1>7, <2>5, <2>6, <3>1
    <3>3. z = Append(y, z[Len(z)])
      BY ONLY <3>2, OneMore
    <3> QED
      BY <2>5, <2>7, <3>3
  <2>9. Flattened(z) = Flattened(y) \o d
    <3>1. d \in Seq(Command)
      BY <2>4, EmptyIsCommand
    <3> QED
      BY ONLY <1>7, <2>5, <2>8, <3>1, OnePipelineMore
  <2>10. Commands' = Flattened(z)
    <3>1. list' = l
      BY <1>9, <1>12, <2>1
    <3> QED
      BY <2>4, <3>1, NextCommandsAreFlat
  <2> QED
    BY <1>3, <1>8, <1>10, <1>12, <2>4, <2>9, <2>10, EmptyIsCommand
<1> QED
  BY <1>11, <1>12

-----------------------------------------------------------------------------
(* The words of the commands. *)

Words(c) == Range(c.assignments) \cup Range(c.argv) \cup Range(c.targets)

\* A token that is part of no command.
Cuts(j) == tokens[j] \notin {"word", "assignment", "redir"}

\* y stands behind x, in another command.
Apart(x, y) == x < y /\ \E j \in x..y : Cuts(j)

\* The words of a command stand together, and those of two apart.
Shape(cs) ==
    /\ \A k \in 1..Len(cs) : \A x, y \in Words(cs[k]) : \A j \in x..y : ~Cuts(j)
    /\ \A k, m \in 1..Len(cs) : k < m =>
         \A x \in Words(cs[k]), y \in Words(cs[m]) : Apart(x, y)

\* The parser has come to p: only the last command goes on up to there.
Reach(cs, p) ==
    /\ \A k \in 1..Len(cs) : \A x \in Words(cs[k]) : x \in 1..(p - 1)
    /\ \A x \in Words(cs[Len(cs)]) : \A j \in x..(p - 1) : ~Cuts(j)
    /\ \A k \in 1..(Len(cs) - 1) : \A x \in Words(cs[k]) : \E j \in x..(p - 1) : Cuts(j)

LEMMA WordsTyped ==
  ASSUME NEW c \in Command
  PROVE  /\ Range(c.assignments) \subseteq Position /\ Range(c.argv) \subseteq Position
         /\ Range(c.targets) \subseteq Position /\ Words(c) \subseteq Position
<1>1. c.assignments \in Seq(Position) /\ c.argv \in Seq(Position) /\ c.targets \in Seq(Position)
  BY DEF Command
<1>2. \A s \in Seq(Position) : Range(s) \subseteq Position
  BY DEF Range
<1> QED
  BY <1>1, <1>2 DEF Words

\* The last command of a line has got a word.
LEMMA WordAdded ==
  ASSUME NEW front \in Seq(Command), NEW c \in Command, NEW d \in Command,
         NEW p \in Nat \ {0}, NEW q \in Nat, NEW w \in Nat, p =< w, w < q,
         \A j \in p..(q - 1) : ~Cuts(j),
         Words(d) = Words(c) \cup {w},
         Shape(Append(front, c)), Reach(Append(front, c), p)
  PROVE  Shape(Append(front, d)) /\ Reach(Append(front, d), q)
<1>1. PICK n, r, s : n = Len(front) /\ r = Append(front, c) /\ s = Append(front, d)
  OBVIOUS
<1>2. /\ n \in Nat /\ Len(r) = n + 1 /\ Len(s) = n + 1 /\ r[n + 1] = c /\ s[n + 1] = d
      /\ \A k \in 1..n : r[k] = s[k]
  <2>1. /\ Len(r) = n + 1 /\ r[n + 1] = c /\ \A k \in 1..n : r[k] = front[k]
    BY <1>1, AppendProperties
  <2>2. /\ Len(s) = n + 1 /\ s[n + 1] = d /\ \A k \in 1..n : s[k] = front[k]
    BY <1>1, AppendProperties
  <2> QED
    BY <1>1, <2>1, <2>2
<1>3. /\ \A k \in 1..(n + 1) : \A x, y \in Words(r[k]) : \A j \in x..y : ~Cuts(j)
      /\ \A k, m \in 1..(n + 1) : k < m =>
           \A x \in Words(r[k]), y \in Words(r[m]) : Apart(x, y)
  <2>1. Shape(r) /\ Len(r) = n + 1
    BY <1>1, <1>2
  <2> QED
    BY ONLY <2>1 DEF Shape
<1>4. /\ \A k \in 1..(n + 1) : \A x \in Words(r[k]) : x \in 1..(p - 1)
      /\ \A x \in Words(c) : \A j \in x..(p - 1) : ~Cuts(j)
      /\ \A k \in 1..n : \A x \in Words(r[k]) : \E j \in x..(p - 1) : Cuts(j)
  <2>1. (n + 1) - 1 = n
    BY <1>2
  <2> QED
    BY <1>1, <1>2, <2>1 DEF Reach
<1>5. \A k \in 1..(n + 1) : k \in 1..n \/ k = n + 1
  BY <1>2
<1>6. \A x \in Words(c) : x \in 1..(p - 1)
  <2>1. n + 1 \in 1..(n + 1)
    BY <1>2
  <2> QED
    BY <1>2, <1>4, <2>1
<1>7. \A k \in 1..n : k \in 1..(n + 1)
  BY <1>2
<1>8. \A k \in 1..n : \A x \in Words(s[k]) : x \in 1..(p - 1)
  BY <1>2, <1>4, <1>7
<1>10. \A k \in 1..(n + 1) : \A x, y \in Words(s[k]) : \A j \in x..y : ~Cuts(j)
  <2> SUFFICES ASSUME NEW k \in 1..(n + 1), NEW x \in Words(s[k]), NEW y \in Words(s[k]),
                      NEW j \in x..y
               PROVE  ~Cuts(j)
    OBVIOUS
  <2>1. CASE k \in 1..n
    BY <1>2, <1>3, <1>7, <2>1
  <2>2. CASE k = n + 1
    <3>1. x \in Words(c) \cup {w} /\ y \in Words(c) \cup {w}
      BY <1>2, <2>2
    <3>2. n + 1 \in 1..(n + 1)
      BY <1>2
    <3>3. CASE x \in Words(c) /\ y \in Words(c)
      BY <1>2, <1>3, <3>2, <3>3
    <3>4. CASE x \in Words(c) /\ y = w
      <4>1. j \in x..(p - 1) \/ j \in p..(q - 1)
        BY <1>6, <3>4
      <4> QED
        BY <1>4, <3>4, <4>1
    <3>5. CASE x = w
      <4>1. y = w
        BY <1>6, <3>1, <3>5
      <4>2. j \in p..(q - 1)
        BY <3>5, <4>1
      <4> QED
        BY <4>2
    <3> QED
      BY <3>1, <3>3, <3>4, <3>5
  <2> QED
    BY <1>5, <2>1, <2>2
<1>11. \A k, m \in 1..(n + 1) : k < m =>
         \A x \in Words(s[k]), y \in Words(s[m]) : Apart(x, y)
  <2> SUFFICES ASSUME NEW k \in 1..(n + 1), NEW m \in 1..(n + 1), k < m,
                      NEW x \in Words(s[k]), NEW y \in Words(s[m])
               PROVE  Apart(x, y)
    OBVIOUS
  <2>1. k \in 1..n /\ x \in Words(r[k])
    <3>1. k \in 1..n
      BY <1>2
    <3> QED
      BY <1>2, <3>1
  <2>2. CASE y \in Words(r[m])
    <3>1. k \in 1..(n + 1) /\ m \in 1..(n + 1) /\ k < m /\ x \in Words(r[k]) /\ y \in Words(r[m])
      BY <2>1, <2>2
    <3> QED
      BY <1>3, <3>1, Zenon
  <2>3. CASE y \notin Words(r[m])
    <3>1. m = n + 1
      BY <1>2, <1>5, <2>3
    <3>2. y = w
      BY <1>2, <2>3, <3>1
    <3>3. x \in 1..(p - 1) /\ \E j \in x..(p - 1) : Cuts(j)
      BY <1>4, <1>7, <2>1
    <3>4. \A j \in x..(p - 1) : j \in x..y
      BY <3>2, <3>3
    <3> QED
      BY <3>2, <3>3, <3>4 DEF Apart
  <2> QED
    BY <2>2, <2>3
<1>12. Shape(s)
  BY <1>2, <1>10, <1>11 DEF Shape
<1>13. \A k \in 1..(n + 1) : \A x \in Words(s[k]) : x \in 1..(q - 1)
  <2> SUFFICES ASSUME NEW k \in 1..(n + 1), NEW x \in Words(s[k]) PROVE x \in 1..(q - 1)
    OBVIOUS
  <2>1. x \in 1..(p - 1) \/ x = w
    BY <1>2, <1>5, <1>6, <1>8
  <2> QED
    BY <2>1
<1>14. \A x \in Words(d) : \A j \in x..(q - 1) : ~Cuts(j)
  <2> SUFFICES ASSUME NEW x \in Words(d), NEW j \in x..(q - 1) PROVE ~Cuts(j)
    OBVIOUS
  <2>1. x \in 1..(p - 1) \/ x = w
    BY <1>6
  <2>2. j \in p..(q - 1) \/ (x \in Words(c) /\ j \in x..(p - 1))
    BY <2>1
  <2> QED
    BY <1>4, <2>2
<1>15. \A k \in 1..n : \A x \in Words(s[k]) : \E j \in x..(q - 1) : Cuts(j)
  <2> SUFFICES ASSUME NEW k \in 1..n, NEW x \in Words(s[k]) PROVE \E j \in x..(q - 1) : Cuts(j)
    OBVIOUS
  <2>1. x \in 1..(p - 1) /\ \E j \in x..(p - 1) : Cuts(j)
    BY <1>2, <1>4, <1>8
  <2>2. \A j \in x..(p - 1) : j \in x..(q - 1)
    BY <2>1
  <2> QED
    BY <2>1, <2>2
<1>16. Reach(s, q)
  <2>1. (n + 1) - 1 = n
    BY <1>2
  <2> QED
    BY <1>2, <1>13, <1>14, <1>15, <2>1 DEF Reach
<1> QED
  BY <1>1, <1>12, <1>16

\* A command has no words when it is opened, behind a token that cuts.
LEMMA EmptyHasNoWords == Words(EmptyCommand) = {}
BY EmptySeq DEF Words, EmptyCommand, Range

LEMMA CommandOpened ==
  ASSUME NEW cs \in Seq(Command), Len(cs) \in Nat \ {0}, NEW p \in Nat \ {0}, Cuts(p),
         Shape(cs), Reach(cs, p)
  PROVE  Shape(Append(cs, EmptyCommand)) /\ Reach(Append(cs, EmptyCommand), p + 1)
<1>1. PICK n, s : n = Len(cs) /\ s = Append(cs, EmptyCommand)
  OBVIOUS
<1>2. /\ n \in Nat \ {0} /\ Len(s) = n + 1 /\ s[n + 1] = EmptyCommand
      /\ \A k \in 1..n : s[k] = cs[k]
  BY <1>1, EmptyIsCommand, AppendProperties
<1>3. Words(s[n + 1]) = {}
  BY <1>2, EmptyHasNoWords
<1>4. \A k \in 1..(n + 1) : k \in 1..n \/ k = n + 1
  BY <1>2
<1>5. /\ \A k \in 1..n : \A x, y \in Words(s[k]) : \A j \in x..y : ~Cuts(j)
      /\ \A k, m \in 1..n : k < m =>
           \A x \in Words(s[k]), y \in Words(s[m]) : Apart(x, y)
  BY <1>1, <1>2 DEF Shape
<1>6. Shape(s)
  <2>2. \A k \in 1..(n + 1) : \A x, y \in Words(s[k]) : \A j \in x..y : ~Cuts(j)
    BY <1>3, <1>4, <1>5
  <2>3. \A k, m \in 1..(n + 1) : k < m =>
          \A x \in Words(s[k]), y \in Words(s[m]) : Apart(x, y)
    <3> SUFFICES ASSUME NEW k \in 1..(n + 1), NEW m \in 1..(n + 1), k < m,
                        NEW x \in Words(s[k]), NEW y \in Words(s[m])
                 PROVE  Apart(x, y)
      OBVIOUS
    <3>1. m \in 1..n
      BY <1>3, <1>4
    <3>2. k \in 1..n
      BY <1>2, <3>1
    <3> QED
      BY <1>5, <3>1, <3>2, Zenon
  <2> QED
    BY <1>2, <2>2, <2>3 DEF Shape
<1>7. \A k \in 1..n : \A x \in Words(s[k]) : x \in 1..(p - 1)
  BY <1>1, <1>2 DEF Reach
<1>8. Reach(s, p + 1)
  <2>1. \A k \in 1..(n + 1) : \A x \in Words(s[k]) : x \in 1..((p + 1) - 1)
    <3> SUFFICES ASSUME NEW k \in 1..(n + 1), NEW x \in Words(s[k])
                 PROVE  x \in 1..((p + 1) - 1)
      OBVIOUS
    <3>1. x \in 1..(p - 1)
      BY <1>3, <1>4, <1>7
    <3> QED
      BY <3>1
  <2>2. \A k \in 1..n : \A x \in Words(s[k]) : \E j \in x..((p + 1) - 1) : Cuts(j)
    <3> SUFFICES ASSUME NEW k \in 1..n, NEW x \in Words(s[k])
                 PROVE  \E j \in x..((p + 1) - 1) : Cuts(j)
      OBVIOUS
    <3>1. x \in 1..(p - 1)
      BY <1>7
    <3>2. p \in x..((p + 1) - 1)
      BY <3>1
    <3> QED
      BY <3>2
  <2>3. (n + 1) - 1 = n
    BY <1>2
  <2> QED
    BY <1>2, <1>3, <2>1, <2>2, <2>3 DEF Reach
<1> QED
  BY <1>1, <1>6, <1>8

-----------------------------------------------------------------------------
(* What the list holds, and what has been expanded of it. *)

\* Parser and list agree on what has been read.
Held ==
    /\ Shape(Commands)
    /\ pc[Shell] = "parse" =>
         Reach(Commands, pos) /\ (pos = 1 \/ tokens[pos - 1] # "redir")

\* The assignments the words of the line wait for.
Awaited(k) == {a \in Assignments : a < k \/ (k \notin Assignments /\ SameCommand(a, k))}

\* The first commands have been expanded and their assignments carried out.
Expansion ==
    /\ DOMAIN seen = UNION {Words(Commands[k]) : k \in 1..expanded}
    /\ assigned = UNION {Range(Commands[k].assignments) : k \in 1..expanded}
    /\ \A k \in 1..expanded : \A w \in Words(Commands[k]) : seen[w] = Awaited(w)
    /\ pc[Shell] \notin {"parse", "segv", "expand"} => expanded = Len(Commands)

WordsInv == NothingDropped /\ Held /\ Expansion

-----------------------------------------------------------------------------
(* The positions of the words, in the order of the list. *)

Piece(c)        == c.assignments \o c.argv
PositionsIn(cs) == FlattenSeq([k \in DOMAIN cs |-> Piece(cs[k])])
TargetsIn(cs)   == FlattenSeq([k \in DOMAIN cs |-> cs[k].targets])

\* The words and the targets up to p.
TextRead(p)    == {k \in 1..(p - 1) : IsText(k) /\ ~IsTarget(k)}
TargetsRead(p) == {k \in 1..(p - 1) : IsTarget(k)}

LEMMA PositionsAre == Positions = PositionsIn(Commands) /\ Targets = TargetsIn(Commands)
BY DEF Positions, PositionsIn, Targets, TargetsIn, Piece

LEMMA NextPositionsAre == (Positions = PositionsIn(Commands) /\ Targets = TargetsIn(Commands))'
BY PositionsAre, PTL

LEMMA PieceTyped ==
  ASSUME NEW c \in Command
  PROVE  Piece(c) \in Seq(Position) /\ c.targets \in Seq(Position)
<1>1. c.assignments \in Seq(Position) /\ c.argv \in Seq(Position) /\ c.targets \in Seq(Position)
  BY DEF Command
<1> QED
  BY <1>1, ConcatProperties DEF Piece

\* A function over the elements of a sequence grows with it.
LEMMA PositionsGrow ==
  ASSUME NEW front \in Seq(Command), NEW c \in Command
  PROVE  /\ PositionsIn(front) \in Seq(Position) /\ TargetsIn(front) \in Seq(Position)
         /\ PositionsIn(Append(front, c)) = PositionsIn(front) \o Piece(c)
         /\ TargetsIn(Append(front, c)) = TargetsIn(front) \o c.targets
<1>1. PICK s : s = Append(front, c)
  OBVIOUS
<1>2. PICK n : n = Len(front)
  OBVIOUS
<1>3. /\ n \in Nat /\ s \in Seq(Command) /\ Len(s) = n + 1 /\ s[n + 1] = c
      /\ \A k \in 1..n : s[k] = front[k]
      /\ DOMAIN s = 1..(n + 1) /\ DOMAIN front = 1..n
  <2>1. /\ n \in Nat /\ s \in Seq(Command) /\ Len(s) = n + 1 /\ s[n + 1] = c
        /\ \A k \in 1..n : s[k] = front[k]
    BY <1>1, <1>2, AppendProperties
  <2> QED
    BY <1>2, <2>1, LenProperties
<1>4. \A k \in 1..(n + 1) : Piece(s[k]) \in Seq(Position) /\ s[k].targets \in Seq(Position)
  BY <1>3, ElementOfSeq, PieceTyped
<1>5. \A k \in 1..n : Piece(front[k]) \in Seq(Position) /\ front[k].targets \in Seq(Position)
  BY <1>2, ElementOfSeq, PieceTyped
<1>6. PICK T : T = Seq(Position)
  OBVIOUS
<1>7. /\ PositionsIn(front) \in Seq(Position)
      /\ PositionsIn(s) = PositionsIn(front) \o Piece(c)
  <2>1. PICK f, g : /\ f = [k \in 1..n |-> Piece(front[k])]
                    /\ g = [k \in 1..(n + 1) |-> Piece(s[k])]
    OBVIOUS
  <2>2. f \in Seq(T) /\ Len(f) = n
    <3>1. f \in [1..n -> T]
      BY <1>5, <1>6, <2>1
    <3> QED
      BY <1>3, <3>1
  <2>3. g \in Seq(T) /\ Len(g) = n + 1
    <3>1. g \in [1..(n + 1) -> T]
      BY <1>4, <1>6, <2>1
    <3>2. n + 1 \in Nat
      BY <1>3
    <3> QED
      BY <3>1, <3>2
  <2>4. g[n + 1] = Piece(c) /\ \A k \in 1..n : g[k] = f[k]
    BY <1>3, <2>1
  <2>5. g = Append(f, g[Len(g)])
    <3>1. f \in Seq(T) /\ g \in Seq(T) /\ Len(g) = Len(f) + 1 /\ \A k \in 1..Len(f) : g[k] = f[k]
      BY <2>2, <2>3, <2>4
    <3> QED
      BY ONLY <3>1, OneMore
  <2>6. f \in Seq(Seq(Position)) /\ Piece(c) \in Seq(Position) /\ g = Append(f, Piece(c))
    BY <1>6, <2>2, <2>3, <2>4, <2>5, PieceTyped
  <2>7. FlattenSeq(f) \in Seq(Position) /\ FlattenSeq(g) = FlattenSeq(f) \o Piece(c)
    BY <2>6, FlattenTyped, FlattenAppend
  <2>8. PositionsIn(front) = FlattenSeq(f) /\ PositionsIn(s) = FlattenSeq(g)
    BY <1>3, <2>1 DEF PositionsIn
  <2> QED
    BY <2>7, <2>8
<1>8. /\ TargetsIn(front) \in Seq(Position)
      /\ TargetsIn(s) = TargetsIn(front) \o c.targets
  <2>1. PICK f, g : /\ f = [k \in 1..n |-> front[k].targets]
                    /\ g = [k \in 1..(n + 1) |-> s[k].targets]
    OBVIOUS
  <2>2. f \in Seq(T) /\ Len(f) = n
    <3>1. f \in [1..n -> T]
      BY <1>5, <1>6, <2>1
    <3> QED
      BY <1>3, <3>1
  <2>3. g \in Seq(T) /\ Len(g) = n + 1
    <3>1. g \in [1..(n + 1) -> T]
      BY <1>4, <1>6, <2>1
    <3>2. n + 1 \in Nat
      BY <1>3
    <3> QED
      BY <3>1, <3>2
  <2>4. g[n + 1] = c.targets /\ \A k \in 1..n : g[k] = f[k]
    BY <1>3, <2>1
  <2>5. g = Append(f, g[Len(g)])
    <3>1. f \in Seq(T) /\ g \in Seq(T) /\ Len(g) = Len(f) + 1 /\ \A k \in 1..Len(f) : g[k] = f[k]
      BY <2>2, <2>3, <2>4
    <3> QED
      BY ONLY <3>1, OneMore
  <2>6. f \in Seq(Seq(Position)) /\ c.targets \in Seq(Position) /\ g = Append(f, c.targets)
    BY <1>6, <2>2, <2>3, <2>4, <2>5, PieceTyped
  <2>7. FlattenSeq(f) \in Seq(Position) /\ FlattenSeq(g) = FlattenSeq(f) \o c.targets
    BY <2>6, FlattenTyped, FlattenAppend
  <2>8. TargetsIn(front) = FlattenSeq(f) /\ TargetsIn(s) = FlattenSeq(g)
    BY <1>3, <2>1 DEF TargetsIn
  <2> QED
    BY <2>7, <2>8
<1> QED
  BY <1>1, <1>7, <1>8

\* A command without words adds none.
LEMMA EmptyAddsNone ==
  ASSUME NEW cs \in Seq(Command)
  PROVE  /\ PositionsIn(Append(cs, EmptyCommand)) = PositionsIn(cs)
         /\ TargetsIn(Append(cs, EmptyCommand)) = TargetsIn(cs)
<1>1. Piece(EmptyCommand) = <<>> /\ EmptyCommand.targets = <<>>
  <2>1. <<>> \in Seq(Position)
    BY EmptySeq, Zenon
  <2>2. <<>> \o <<>> = <<>>
    BY <2>1, ConcatEmptySeq
  <2> QED
    BY <2>2 DEF Piece, EmptyCommand
<1>2. /\ PositionsIn(cs) \in Seq(Position) /\ TargetsIn(cs) \in Seq(Position)
      /\ PositionsIn(Append(cs, EmptyCommand)) = PositionsIn(cs) \o <<>>
      /\ TargetsIn(Append(cs, EmptyCommand)) = TargetsIn(cs) \o <<>>
  BY <1>1, EmptyIsCommand, PositionsGrow
<1>3. \A s \in Seq(Position) : s \o <<>> = s
  BY ConcatEmptySeq
<1> QED
  BY <1>2, <1>3

\* All of a line's words, in two ways.
LEMMA PositionsHold ==
  ASSUME NEW cs \in Seq(Command)
  PROVE  Range(PositionsIn(cs)) \cup Range(TargetsIn(cs))
           = UNION {Words(cs[k]) : k \in 1..Len(cs)}
<1>1. PICK n : n = Len(cs)
  OBVIOUS
<1>2. n \in Nat /\ DOMAIN cs = 1..n /\ \A k \in 1..n : cs[k] \in Command
  BY <1>1, LenProperties, ElementOfSeq
<1>3. \A k \in 1..n : Piece(cs[k]) \in Seq(Position) /\ cs[k].targets \in Seq(Position)
  BY <1>2, PieceTyped
<1>4. PICK f, g : f = [k \in 1..n |-> Piece(cs[k])] /\ g = [k \in 1..n |-> cs[k].targets]
  OBVIOUS
<1>5. f \in Seq(Seq(Position)) /\ Len(f) = n /\ g \in Seq(Seq(Position)) /\ Len(g) = n
  <2>1. f \in [1..n -> Seq(Position)] /\ g \in [1..n -> Seq(Position)]
    BY <1>3, <1>4
  <2> QED
    BY <1>2, <2>1
<1>6. /\ Range(FlattenSeq(f)) = UNION {Range(f[k]) : k \in 1..n}
      /\ Range(FlattenSeq(g)) = UNION {Range(g[k]) : k \in 1..n}
  BY <1>5, RangeOfFlatten
<1>7. \A k \in 1..n : Words(cs[k]) = Range(f[k]) \cup Range(g[k])
  <2> SUFFICES ASSUME NEW k \in 1..n PROVE Words(cs[k]) = Range(f[k]) \cup Range(g[k])
    OBVIOUS
  <2>1. f[k] = Piece(cs[k]) /\ g[k] = cs[k].targets
    BY <1>4
  <2>2. cs[k].assignments \in Seq(Position) /\ cs[k].argv \in Seq(Position)
    BY <1>2 DEF Command
  <2>3. Range(Piece(cs[k])) = Range(cs[k].assignments) \cup Range(cs[k].argv)
    BY <2>2, RangeOfConcat DEF Piece
  <2> QED
    BY <2>1, <2>3 DEF Words
<1>8. PositionsIn(cs) = FlattenSeq(f) /\ TargetsIn(cs) = FlattenSeq(g)
  BY <1>2, <1>4 DEF PositionsIn, TargetsIn
<1>9. PICK F, G : F = FlattenSeq(f) /\ G = FlattenSeq(g)
  OBVIOUS
<1>10. /\ Range(F) \cup Range(G) = UNION {Words(cs[k]) : k \in 1..n}
  <2>1. ASSUME NEW x \in Range(F) \cup Range(G) PROVE \E k \in 1..n : x \in Words(cs[k])
    BY <1>6, <1>7, <1>9
  <2>2. ASSUME NEW k \in 1..n, NEW x \in Words(cs[k]) PROVE x \in Range(F) \cup Range(G)
    BY <1>6, <1>7, <1>9
  <2> QED
    BY <2>1, <2>2
<1> QED
  BY <1>1, <1>8, <1>9, <1>10

\* What a sequence holds with an element more.
LEMMA RangeOfAppend ==
  ASSUME NEW S, NEW s \in Seq(S), NEW w \in S
  PROVE  Append(s, w) \in Seq(S) /\ Range(Append(s, w)) = Range(s) \cup {w}
<1>1. PICK n, t : n = Len(s) /\ t = Append(s, w)
  OBVIOUS
<1>2. /\ n \in Nat /\ t \in Seq(S) /\ t[n + 1] = w /\ \A k \in 1..n : t[k] = s[k]
      /\ DOMAIN t = 1..(n + 1) /\ DOMAIN s = 1..n
  <2>1. /\ n \in Nat /\ t \in Seq(S) /\ Len(t) = n + 1 /\ t[n + 1] = w
        /\ \A k \in 1..n : t[k] = s[k]
    BY <1>1, AppendProperties
  <2> QED
    BY <1>1, <2>1, LenProperties
<1>3. \A k : k \in 1..(n + 1) <=> k \in 1..n \/ k = n + 1
  BY <1>2
<1>4. Range(t) = {t[k] : k \in 1..(n + 1)} /\ Range(s) = {s[k] : k \in 1..n}
  BY <1>2 DEF Range
<1> QED
  BY <1>1, <1>2, <1>3, <1>4

\* Numbers in order stay in order when a greater one comes behind them.
LEMMA OrderGrows ==
  ASSUME NEW S \in SUBSET Nat, NEW s \in Seq(S), NEW w \in S, InOrder(s),
         \A x \in Range(s) : x < w
  PROVE  InOrder(Append(s, w)) /\ Range(Append(s, w)) = Range(s) \cup {w}
<1>1. PICK n, t : n = Len(s) /\ t = Append(s, w)
  OBVIOUS
<1>2. /\ n \in Nat /\ Len(t) = n + 1 /\ t[n + 1] = w /\ \A k \in 1..n : t[k] = s[k]
      /\ DOMAIN t = 1..(n + 1) /\ DOMAIN s = 1..n
  <2>1. /\ n \in Nat /\ t \in Seq(S) /\ Len(t) = n + 1 /\ t[n + 1] = w
        /\ \A k \in 1..n : t[k] = s[k]
    BY <1>1, AppendProperties
  <2> QED
    BY <1>1, <2>1, LenProperties
<1>3. \A k \in 1..(n + 1) : k \in 1..n \/ k = n + 1
  BY <1>2
<1>4. \A k \in 1..n : s[k] \in Range(s) /\ s[k] < w
  BY <1>2 DEF Range
<1>5. \A a, b \in 1..n : a < b => s[a] < s[b]
  BY <1>2 DEF InOrder
<1>6. InOrder(t)
  <2> SUFFICES ASSUME NEW a \in 1..(n + 1), NEW b \in 1..(n + 1), a < b PROVE t[a] < t[b]
    BY <1>2 DEF InOrder
  <2>1. a \in 1..n
    BY <1>2
  <2> QED
    BY <1>2, <1>3, <1>4, <1>5, <2>1
<1> QED
  BY <1>1, <1>6, RangeOfAppend

-----------------------------------------------------------------------------
(* The parser drops nothing. *)

\* The commands of the next state, seen from this one.
LEMMA HeldNext ==
  ASSUME tokens' = tokens, NEW cs \in Seq(Command), NEW q, Commands' = cs, pos' = q, Shape(cs),
         pc'[Shell] = "parse" => Reach(cs, q) /\ (q = 1 \/ tokens[q - 1] # "redir")
  PROVE  Held'
<1>1. Shape(Commands)'
  <2>1. tokens' = tokens /\ Commands' = cs /\ Shape(cs)
    OBVIOUS
  <2> QED
    BY ONLY <2>1 DEF Shape, Apart, Cuts
<1>2. ASSUME pc'[Shell] = "parse" PROVE Reach(Commands, pos)'
  <2>1. tokens' = tokens /\ Commands' = cs /\ pos' = q /\ Reach(cs, q)
    BY <1>2
  <2> QED
    BY ONLY <2>1 DEF Reach, Cuts
<1> QED
  BY <1>1, <1>2 DEF Held

LEMMA DroppedNext ==
  ASSUME tokens' = tokens, NEW ps, NEW ts, NEW q, Positions' = ps, Targets' = ts, pos' = q,
         InOrder(ps), Range(ps) = TextRead(q), InOrder(ts), Range(ts) = TargetsRead(q),
         pc'[Shell] \notin {"parse", "segv"} => tokens[q] \in {"paren", "newline", "eof"}
  PROVE  NothingDropped'
BY DEF NothingDropped, TextRead, TargetsRead, IsText, IsTarget, Peek

LEMMA Dropped ==
  ASSUME NothingDropped
  PROVE  /\ InOrder(Positions) /\ Range(Positions) = TextRead(pos)
         /\ InOrder(Targets) /\ Range(Targets) = TargetsRead(pos)
BY DEF NothingDropped, TextRead, TargetsRead

\* Nothing is expanded while the parser works.
LEMMA NothingExpanded ==
  ASSUME Expansion, expanded = 0, UNCHANGED expansion, pc'[Shell] \in {"parse", "segv", "expand"}
  PROVE  Expansion'
<1>1. expanded' = 0 /\ seen' = seen /\ assigned' = assigned /\ 1..0 = {}
  BY DEF expansion
<1>2. DOMAIN seen = {} /\ assigned = {}
  BY <1>1 DEF Expansion
<1>3. /\ UNION {Words(Commands'[k]) : k \in 1..expanded'} = {}
      /\ UNION {Range(Commands'[k].assignments) : k \in 1..expanded'} = {}
  BY <1>1
<1>4. \A k \in 1..expanded' : FALSE
  BY <1>1
<1> QED
  BY <1>1, <1>2, <1>3, <1>4 DEF Expansion

\* The parser passes a word and puts it at the end of a command's list.
LEMMA WordTaken ==
  ASSUME IInv, WordsInv, pc[Shell] = "parse", tokens' = tokens, UNCHANGED expansion,
         NEW d \in Command, NEW w \in Position, NEW q \in Nat,
         list' = WithCommand(d), pos' = q, pc' = pc, pos =< w, w < q,
         \A j \in pos..(q - 1) : ~Cuts(j), tokens[q - 1] # "redir",
         Words(d) = Words(Current) \cup {w},
         \/ /\ Piece(d) = Append(Piece(Current), w) /\ d.targets = Current.targets
            /\ TextRead(q) = TextRead(pos) \cup {w} /\ TargetsRead(q) = TargetsRead(pos)
         \/ /\ Piece(d) = Piece(Current) /\ d.targets = Append(Current.targets, w)
            /\ TextRead(q) = TextRead(pos) /\ TargetsRead(q) = TargetsRead(pos) \cup {w}
  PROVE  WordsInv'
<1>1. TypeOK /\ Fresh /\ NothingDropped /\ Held /\ Expansion
  BY DEF IInv, WordsInv
<1>2. PICK front \in Seq(Command) :
        Commands = Append(front, Current) /\ Commands' = Append(front, d)
  BY <1>1, CommandGrows
<1>3. PICK c : c = Current
  OBVIOUS
<1>4. c \in Command /\ pos \in Nat \ {0} /\ w \in Nat /\ Position \subseteq Nat
  BY <1>1, <1>3, CurrentFacts DEF TypeOK, Position
<1>5. Append(front, d) \in Seq(Command)
  BY AppendProperties
<1>6. Shape(Append(front, d)) /\ Reach(Append(front, d), q)
  <2>1. Shape(Append(front, c)) /\ Reach(Append(front, c), pos)
    BY <1>1, <1>2, <1>3 DEF Held
  <2>2. Words(d) = Words(c) \cup {w}
    BY <1>3
  <2>3. pos =< w /\ w < q /\ \A j \in pos..(q - 1) : ~Cuts(j)
    OBVIOUS
  <2> QED
    BY ONLY <1>4, <2>1, <2>2, <2>3, WordAdded, d \in Command, q \in Nat, front \in Seq(Command)
<1>7. Held'
  BY <1>2, <1>5, <1>6, HeldNext
<1>8. Expansion'
  BY <1>1, NothingExpanded DEF Fresh
<1>9. PICK ps, ts : ps = PositionsIn(front) /\ ts = TargetsIn(front)
  OBVIOUS
<1>10. /\ ps \in Seq(Position) /\ ts \in Seq(Position)
       /\ Positions = ps \o Piece(c) /\ Targets = ts \o c.targets
       /\ Positions' = ps \o Piece(d) /\ Targets' = ts \o d.targets
  <2>1. /\ ps \in Seq(Position) /\ ts \in Seq(Position)
        /\ PositionsIn(Append(front, c)) = ps \o Piece(c)
        /\ TargetsIn(Append(front, c)) = ts \o c.targets
    BY <1>4, <1>9, PositionsGrow
  <2>2. /\ PositionsIn(Append(front, d)) = ps \o Piece(d)
        /\ TargetsIn(Append(front, d)) = ts \o d.targets
    BY <1>9, PositionsGrow
  <2> QED
    BY <1>2, <1>3, <2>1, <2>2, PositionsAre, NextPositionsAre
<1>11. Piece(c) \in Seq(Position) /\ c.targets \in Seq(Position)
  BY <1>4, PieceTyped
<1>12. Positions \in Seq(Position) /\ Targets \in Seq(Position)
  BY <1>10, <1>11, ConcatProperties
<1>13. /\ \A x \in TextRead(pos) : x < w
       /\ \A x \in TargetsRead(pos) : x < w
  BY <1>4 DEF TextRead, TargetsRead
<1>14. /\ InOrder(Positions) /\ Range(Positions) = TextRead(pos)
       /\ InOrder(Targets) /\ Range(Targets) = TargetsRead(pos)
  BY <1>1, Dropped
<1>15. pc'[Shell] \notin {"parse", "segv"} => tokens[q] \in {"paren", "newline", "eof"}
  OBVIOUS
<1>16. CASE /\ Piece(d) = Append(Piece(Current), w) /\ d.targets = Current.targets
            /\ TextRead(q) = TextRead(pos) \cup {w} /\ TargetsRead(q) = TargetsRead(pos)
  <2>1. Positions' = Append(Positions, w)
    <3>1. ps \o Append(Piece(c), w) = Append(ps \o Piece(c), w)
      <4>1. ps \in Seq(Position) /\ Piece(c) \in Seq(Position) /\ w \in Position
        BY <1>10, <1>11
      <4> QED
        BY ONLY <4>1, ConcatThenAppend
    <3> QED
      BY <1>3, <1>10, <1>16, <3>1
  <2>2. Targets' = Targets
    BY <1>3, <1>10, <1>16
  <2>3. InOrder(Append(Positions, w)) /\ Range(Append(Positions, w)) = TextRead(pos) \cup {w}
    <3>1. \A x \in Range(Positions) : x < w
      BY <1>13, <1>14
    <3> QED
      BY <1>4, <1>12, <1>14, <3>1, OrderGrows
  <2>4. NothingDropped'
    BY <1>14, <1>15, <1>16, <2>1, <2>2, <2>3, DroppedNext
  <2> QED
    BY <1>7, <1>8, <2>4 DEF WordsInv
<1>17. CASE /\ Piece(d) = Piece(Current) /\ d.targets = Append(Current.targets, w)
            /\ TextRead(q) = TextRead(pos) /\ TargetsRead(q) = TargetsRead(pos) \cup {w}
  <2>1. Targets' = Append(Targets, w)
    <3>1. ts \o Append(c.targets, w) = Append(ts \o c.targets, w)
      <4>1. ts \in Seq(Position) /\ c.targets \in Seq(Position) /\ w \in Position
        BY <1>10, <1>11
      <4> QED
        BY ONLY <4>1, ConcatThenAppend
    <3> QED
      BY <1>3, <1>10, <1>17, <3>1
  <2>2. Positions' = Positions
    BY <1>3, <1>10, <1>17
  <2>3. InOrder(Append(Targets, w)) /\ Range(Append(Targets, w)) = TargetsRead(pos) \cup {w}
    <3>1. \A x \in Range(Targets) : x < w
      BY <1>13, <1>14
    <3> QED
      BY <1>4, <1>12, <1>14, <3>1, OrderGrows
  <2>4. NothingDropped'
    BY <1>14, <1>15, <1>17, <2>1, <2>2, <2>3, DroppedNext
  <2> QED
    BY <1>7, <1>8, <2>4 DEF WordsInv
<1> QED
  BY <1>16, <1>17

\* What has been read when the parser has passed one token more.
LEMMA ReadOne ==
  ASSUME NEW p \in Nat \ {0}
  PROVE  /\ IsText(p) /\ ~IsTarget(p) =>
              TextRead(p + 1) = TextRead(p) \cup {p} /\ TargetsRead(p + 1) = TargetsRead(p)
         /\ IsTarget(p) =>
              TextRead(p + 1) = TextRead(p) /\ TargetsRead(p + 1) = TargetsRead(p) \cup {p}
         /\ ~IsText(p) /\ ~IsTarget(p) =>
              TextRead(p + 1) = TextRead(p) /\ TargetsRead(p + 1) = TargetsRead(p)
<1>1. \A k : k \in 1..((p + 1) - 1) <=> k \in 1..(p - 1) \/ k = p
  OBVIOUS
<1>2. \A k : k \in TextRead(p + 1) <=> k \in TextRead(p) \/ (k = p /\ IsText(p) /\ ~IsTarget(p))
  BY <1>1 DEF TextRead
<1>3. \A k : k \in TargetsRead(p + 1) <=> k \in TargetsRead(p) \/ (k = p /\ IsTarget(p))
  BY <1>1 DEF TargetsRead
<1>4. ASSUME IsText(p), ~IsTarget(p)
      PROVE  TextRead(p + 1) = TextRead(p) \cup {p} /\ TargetsRead(p + 1) = TargetsRead(p)
  <2>1. /\ \A k : k \in TextRead(p + 1) <=> k \in TextRead(p) \/ k = p
        /\ \A k : k \in TargetsRead(p + 1) <=> k \in TargetsRead(p)
    BY <1>2, <1>3, <1>4, Zenon
  <2> QED
    BY ONLY <2>1
<1>5. ASSUME IsTarget(p)
      PROVE  TextRead(p + 1) = TextRead(p) /\ TargetsRead(p + 1) = TargetsRead(p) \cup {p}
  <2>1. /\ \A k : k \in TextRead(p + 1) <=> k \in TextRead(p)
        /\ \A k : k \in TargetsRead(p + 1) <=> k \in TargetsRead(p) \/ k = p
    BY <1>2, <1>3, <1>5, Zenon
  <2> QED
    BY ONLY <2>1
<1>6. ASSUME ~IsText(p), ~IsTarget(p)
      PROVE  TextRead(p + 1) = TextRead(p) /\ TargetsRead(p + 1) = TargetsRead(p)
  <2>1. /\ \A k : k \in TextRead(p + 1) <=> k \in TextRead(p)
        /\ \A k : k \in TargetsRead(p + 1) <=> k \in TargetsRead(p)
    BY <1>2, <1>3, <1>6, Zenon
  <2> QED
    BY ONLY <2>1
<1> QED
  BY <1>4, <1>5, <1>6, Zenon

\* A word or an assignment goes to the command under construction.
LEMMA WordDropsNothing ==
  ASSUME IInv, WordsInv, Parse, ParseWord \/ ParseAssignment
  PROVE  WordsInv'
<1>1. /\ TypeOK /\ Text /\ Held /\ pc[Shell] = "parse" /\ tokens' = tokens
      /\ UNCHANGED expansion /\ pc' = pc /\ pos' = Read(pos)
      /\ tokens[pos] \in {"word", "assignment"}
  BY DEF IInv, WordsInv, Parse, ParseWord, ParseAssignment, Peek
<1>2. pos \in Position /\ pos' = pos + 1 /\ pos \in Nat \ {0} /\ pos + 1 \in Nat
  <2>1. tokens[pos] # "eof"
    BY <1>1
  <2>2. pos \in Position /\ Read(pos) = pos + 1 /\ pos \in Nat
    BY <1>1, <2>1, ReadOn
  <2>3. pos # 0
    BY <2>2 DEF Position
  <2> QED
    BY <1>1, <2>2, <2>3
<1>3. IsText(pos) /\ ~IsTarget(pos)
  BY <1>1, <1>2 DEF Held, IsText, IsTarget
<1>4. TextRead(pos + 1) = TextRead(pos) \cup {pos} /\ TargetsRead(pos + 1) = TargetsRead(pos)
  <2>1. pos \in Nat \ {0} /\ IsText(pos) /\ ~IsTarget(pos)
    BY <1>2, <1>3
  <2> QED
    BY ONLY <2>1, ReadOne
<1>5. /\ \A j \in pos..((pos + 1) - 1) : ~Cuts(j)
      /\ tokens[(pos + 1) - 1] # "redir" /\ pos =< pos /\ pos < pos + 1
  <2>1. \A j \in pos..((pos + 1) - 1) : j = pos
    BY <1>2
  <2>2. (pos + 1) - 1 = pos
    BY <1>2
  <2> QED
    BY <1>1, <1>2, <2>1, <2>2 DEF Cuts
<1>6. PICK c : c = Current
  OBVIOUS
<1>7. /\ c \in Command /\ c.argv \in Seq(Position) /\ c.assignments \in Seq(Position)
      /\ c.targets \in Seq(Position)
  BY <1>1, <1>6, CurrentFacts DEF Command
<1>8. PICK v, a : v = Append(c.argv, pos) /\ a = Append(c.assignments, pos)
  OBVIOUS
<1>9. /\ v \in Seq(Position) /\ Range(v) = Range(c.argv) \cup {pos}
      /\ a \in Seq(Position) /\ Range(a) = Range(c.assignments) \cup {pos}
  <2>1. pos \in Position /\ c.argv \in Seq(Position) /\ c.assignments \in Seq(Position)
    BY <1>2, <1>7
  <2> QED
    BY ONLY <1>8, <2>1, RangeOfAppend
<1>10. CASE ParseWord
  <2>1. PICK d : d = [c EXCEPT !.argv = v]
    OBVIOUS
  <2>2. /\ d \in Command /\ d.argv = v /\ d.assignments = c.assignments
        /\ d.targets = c.targets
    BY <1>7, <1>9, <2>1 DEF Command
  <2>3. list' = WithCommand(d)
    BY <1>6, <1>8, <1>10, <2>1 DEF ParseWord
  <2>4. Words(d) = Words(c) \cup {pos}
    BY <1>9, <2>2 DEF Words
  <2>5. Piece(d) = Append(Piece(c), pos)
    <3>1. PICK s, t, p : s = c.assignments /\ t = c.argv /\ p = pos
      OBVIOUS
    <3>2. s \in Seq(Position) /\ t \in Seq(Position) /\ p \in Position
      BY <1>2, <1>7, <3>1
    <3>3. s \o Append(t, p) = Append(s \o t, p)
      BY ONLY <3>2, ConcatThenAppend
    <3> QED
      BY <1>8, <2>2, <3>1, <3>3 DEF Piece
  <2> QED
    BY <1>1, <1>2, <1>4, <1>5, <1>6, <2>2, <2>3, <2>4, <2>5, WordTaken
<1>11. CASE ParseAssignment
  <2>1. PICK d : d = [c EXCEPT !.assignments = a]
    OBVIOUS
  <2>2. /\ d \in Command /\ d.argv = c.argv /\ d.assignments = a
        /\ d.targets = c.targets
    BY <1>7, <1>9, <2>1 DEF Command
  <2>3. list' = WithCommand(d) /\ c.argv = <<>>
    BY <1>6, <1>8, <1>11, <2>1 DEF ParseAssignment
  <2>4. Words(d) = Words(c) \cup {pos}
    BY <1>9, <2>2 DEF Words
  <2>5. Piece(d) = Append(Piece(c), pos)
    <3>1. \A s \in Seq(Position) : s \o <<>> = s
      BY ConcatEmptySeq
    <3>2. a \o <<>> = a /\ c.assignments \o <<>> = c.assignments
      BY <1>7, <1>9, <3>1
    <3> QED
      BY <1>8, <2>2, <2>3, <3>2 DEF Piece
  <2> QED
    BY <1>1, <1>2, <1>4, <1>5, <1>6, <2>2, <2>3, <2>4, <2>5, WordTaken
<1> QED
  BY <1>10, <1>11

\* A list without a word more.
LEMMA OperatorTaken ==
  ASSUME IInv, WordsInv, pc[Shell] = "parse", tokens' = tokens, UNCHANGED expansion,
         tokens[pos] \notin {"word", "assignment"},
         \/ /\ Commands' = Append(Commands, EmptyCommand) /\ pos' = pos + 1
            /\ Cuts(pos) /\ pc' = pc
         \/ /\ Commands' = Commands /\ pos' = pos + 1 /\ pc'[Shell] \in {"segv", "expand"}
            /\ pc'[Shell] = "expand" => tokens[pos + 1] \in {"eof", "newline"}
         \/ /\ Commands' = Commands /\ pos' = pos /\ pc'[Shell] = "expand"
            /\ tokens[pos] \in {"paren", "newline", "eof"}
  PROVE  WordsInv'
<1>1. /\ TypeOK /\ NothingDropped /\ Held /\ Expansion /\ expanded = 0
      /\ pos \in Nat \ {0}
  BY DEF IInv, WordsInv, Fresh, TypeOK, Position
<1>2. PICK cs : cs = Commands'
  OBVIOUS
<1>3. Commands \in Seq(Command) /\ Len(Commands) \in Nat \ {0}
  BY <1>1, CurrentIsLast
<1>4. cs \in Seq(Command)
  BY <1>2, <1>3, EmptyIsCommand, AppendProperties
<1>5. PositionsIn(cs) = Positions /\ TargetsIn(cs) = Targets
  BY <1>2, <1>3, EmptyAddsNone, PositionsAre
<1>6. Positions' = Positions /\ Targets' = Targets
  BY <1>2, <1>5, NextPositionsAre
<1>7. Expansion'
  BY <1>1, NothingExpanded
<1>8. ~IsText(pos) /\ ~IsTarget(pos)
  BY DEF IsText, IsTarget
<1>9. TextRead(pos + 1) = TextRead(pos) /\ TargetsRead(pos + 1) = TargetsRead(pos)
  <2>1. pos \in Nat \ {0}
    BY <1>1
  <2> QED
    BY ONLY <1>8, <2>1, ReadOne
<1>10. TextRead(pos') = TextRead(pos) /\ TargetsRead(pos') = TargetsRead(pos)
  BY <1>9
<1>11. pc'[Shell] \notin {"parse", "segv"} => tokens[pos'] \in {"paren", "newline", "eof"}
  OBVIOUS
<1>12. NothingDropped'
  <2>1. /\ InOrder(Positions) /\ Range(Positions) = TextRead(pos')
        /\ InOrder(Targets) /\ Range(Targets) = TargetsRead(pos')
    BY <1>1, <1>10, Dropped
  <2> QED
    BY <1>6, <1>11, <2>1, DroppedNext
<1>13. Shape(Commands) /\ Reach(Commands, pos)
  BY <1>1 DEF Held
<1>14. Held'
  <2>1. CASE pc' = pc
    <3>1. Commands' = Append(Commands, EmptyCommand) /\ pos' = pos + 1 /\ Cuts(pos)
      BY <2>1
    <3>2. Shape(cs) /\ Reach(cs, pos + 1)
      BY <1>1, <1>2, <1>3, <1>13, <3>1, CommandOpened
    <3>3. tokens[(pos + 1) - 1] # "redir"
      BY <1>1, <3>1 DEF Cuts
    <3> QED
      BY <1>2, <1>4, <3>1, <3>2, <3>3, HeldNext
  <2>2. CASE Commands' = Commands /\ pc'[Shell] # "parse"
    BY <1>3, <1>13, <2>2, HeldNext
  <2> QED
    BY <2>1, <2>2
<1> QED
  BY <1>7, <1>12, <1>14 DEF WordsInv

\* The commands of a list that stays.
LEMMA SameCommands ==
  ASSUME list' = list
  PROVE  Commands' = Commands
<1>1. Elements' = Elements
  BY DEF Elements
<1> QED
  BY <1>1, Zenon DEF Commands

\* The target of a redirection goes to it too; without one the shell is lost.
LEMMA RedirectDropsNothing ==
  ASSUME IInv, WordsInv, Parse, ParseRedirect
  PROVE  WordsInv'
<1>1. /\ TypeOK /\ Text /\ pc[Shell] = "parse" /\ tokens' = tokens
      /\ UNCHANGED expansion /\ tokens[pos] = "redir" /\ Shell \in Proc
      /\ pc \in [Proc -> Places]
  BY Bounds DEF IInv, Parse, ParseRedirect, Peek
<1>2. /\ Read(pos) = pos + 1 /\ pos \in Nat \ {0} /\ pos + 1 \in Position
      /\ pos + 1 \in Nat \ {0}
  <2>1. tokens[pos] # "eof"
    BY <1>1
  <2>2. pos \in Position /\ Read(pos) = pos + 1 /\ pos + 1 \in Position /\ pos \in Nat
    BY <1>1, <2>1, ReadOn
  <2>3. pos # 0
    BY <2>2 DEF Position
  <2> QED
    BY <2>2, <2>3
<1>3. CASE tokens[pos + 1] = "word"
  <2>1. Read(pos + 1) = (pos + 1) + 1
    <3>1. pos + 1 # Len(tokens)
      BY <1>1, <1>2, <1>3 DEF Text
    <3> QED
      BY <3>1 DEF Read
  <2>2. PICK c, t, d : /\ c = Current /\ t = Append(c.targets, pos + 1)
                       /\ d = [c EXCEPT !.targets = t]
    OBVIOUS
  <2>3. /\ list' = WithCommand(d) /\ pos' = (pos + 1) + 1 /\ pc' = pc
    BY <1>2, <1>3, <2>1, <2>2 DEF ParseRedirect
  <2>4. /\ c \in Command /\ c.argv \in Seq(Position) /\ c.assignments \in Seq(Position)
        /\ c.targets \in Seq(Position)
    BY <1>1, <2>2, CurrentFacts DEF Command
  <2>5. t \in Seq(Position) /\ Range(t) = Range(c.targets) \cup {pos + 1}
    BY ONLY <1>2, <2>2, <2>4, RangeOfAppend
  <2>6. /\ d \in Command /\ d.argv = c.argv /\ d.assignments = c.assignments
        /\ d.targets = t
    BY <2>2, <2>4, <2>5 DEF Command
  <2>7. Words(d) = Words(c) \cup {pos + 1} /\ Piece(d) = Piece(c)
    BY <2>5, <2>6 DEF Words, Piece
  <2>8. /\ TextRead((pos + 1) + 1) = TextRead(pos)
        /\ TargetsRead((pos + 1) + 1) = TargetsRead(pos) \cup {pos + 1}
    <3>1. ~IsText(pos) /\ ~IsTarget(pos)
      BY <1>1 DEF IsText, IsTarget
    <3>2. IsTarget(pos + 1)
      <4>1. (pos + 1) - 1 = pos /\ pos + 1 > 1
        BY <1>2
      <4> QED
        BY <1>1, <1>3, <4>1 DEF IsTarget
    <3>3. TextRead(pos + 1) = TextRead(pos) /\ TargetsRead(pos + 1) = TargetsRead(pos)
      BY ONLY <1>2, <3>1, ReadOne
    <3>4. PICK p : p = pos + 1
      OBVIOUS
    <3>5. p \in Nat \ {0} /\ IsTarget(p)
      BY <1>2, <3>2, <3>4
    <3>6. TextRead(p + 1) = TextRead(p) /\ TargetsRead(p + 1) = TargetsRead(p) \cup {p}
      BY ONLY <3>5, ReadOne
    <3> QED
      BY <3>3, <3>4, <3>6
  <2>9. /\ \A j \in pos..(((pos + 1) + 1) - 1) : ~Cuts(j)
        /\ tokens[((pos + 1) + 1) - 1] # "redir" /\ pos =< pos + 1 /\ pos + 1 < (pos + 1) + 1
    <3>1. \A j \in pos..(((pos + 1) + 1) - 1) : j = pos \/ j = pos + 1
      BY <1>2
    <3>2. ((pos + 1) + 1) - 1 = pos + 1
      BY <1>2
    <3> QED
      BY <1>1, <1>2, <1>3, <3>1, <3>2 DEF Cuts
  <2>10. (pos + 1) + 1 \in Nat
    BY <1>2
  <2> QED
    BY <1>1, <1>2, <2>2, <2>3, <2>6, <2>7, <2>8, <2>9, <2>10, WordTaken
<1>4. CASE tokens[pos + 1] # "word"
  <2>1. pos' = pos + 1 /\ pc' = [pc EXCEPT ![Shell] = "segv"] /\ list' = list
    BY <1>2, <1>4 DEF ParseRedirect
  <2>2. Commands' = Commands
    BY <2>1, SameCommands
  <2>3. pc'[Shell] = "segv"
    BY <1>1, <2>1
  <2> QED
    BY <1>1, <2>1, <2>2, <2>3, OperatorTaken
<1> QED
  BY <1>3, <1>4

\* Whatever the token is, the parser drops none.
LEMMA ParseDropsNothing ==
  ASSUME IInv, WordsInv, Parse
  PROVE  WordsInv'
<1>1. /\ TypeOK /\ Text /\ pc[Shell] = "parse" /\ tokens' = tokens
      /\ UNCHANGED expansion /\ Shell \in Proc /\ pc \in [Proc -> Places]
  BY Bounds DEF IInv, Parse
<1>2. CASE ParseWord \/ ParseAssignment
  BY <1>2, WordDropsNothing
<1>3. CASE ParseRedirect
  BY <1>3, RedirectDropsNothing
<1>4. CASE ParsePipe
  <2>1. tokens[pos] = "pipe" /\ pos' = Read(pos) /\ pc' = pc
    BY <1>4 DEF ParsePipe, Peek
  <2>2. Read(pos) = pos + 1
    BY <1>1, <2>1, ReadOn
  <2>3. Commands' = Append(Commands, EmptyCommand)
    BY <1>1, <1>4, PipeOpens
  <2> QED
    BY <1>1, <2>1, <2>2, <2>3, OperatorTaken DEF Cuts
<1>5. CASE ParseAndOr
  <2>1. tokens[pos] \in {"and", "or"} /\ pos' = Read(pos) /\ pc' = pc
    BY <1>5 DEF ParseAndOr, Peek
  <2>2. Read(pos) = pos + 1
    BY <1>1, <2>1, ReadOn
  <2>3. Commands' = Append(Commands, EmptyCommand)
    BY <1>1, <1>5, AndOrOpens
  <2> QED
    BY <1>1, <2>1, <2>2, <2>3, OperatorTaken DEF Cuts
<1>6. CASE ParseSeparator
  <2>1. /\ pos' = pos + 1
        /\ IF tokens[pos + 1] \in {"eof", "newline"} THEN Commands' = Commands
           ELSE Commands' = Append(Commands, EmptyCommand)
    BY <1>1, <1>6, SeparatorOpens
  <2>2. /\ tokens[pos] \in {"semi", "amp"}
        /\ pc' = IF tokens[pos + 1] \in {"eof", "newline"}
                 THEN [pc EXCEPT ![Shell] = "expand"] ELSE pc
    BY <1>6, <2>1 DEF ParseSeparator, Peek
  <2>3. CASE tokens[pos + 1] \in {"eof", "newline"}
    <3>1. Commands' = Commands /\ pc'[Shell] = "expand"
      BY <1>1, <2>1, <2>2, <2>3
    <3> QED
      BY <1>1, <2>1, <2>2, <2>3, <3>1, OperatorTaken
  <2>4. CASE tokens[pos + 1] \notin {"eof", "newline"}
    BY <1>1, <2>1, <2>2, <2>4, OperatorTaken DEF Cuts
  <2> QED
    BY <2>3, <2>4
<1>7. CASE ParseEnd
  <2>1. /\ tokens[pos] \in {"paren", "newline", "eof"} /\ pos' = pos /\ list' = list
        /\ pc' = [pc EXCEPT ![Shell] = "expand"]
    BY <1>7 DEF ParseEnd, Peek
  <2>2. Commands' = Commands /\ pc'[Shell] = "expand"
    BY <1>1, <2>1, SameCommands
  <2> QED
    BY <1>1, <2>1, <2>2, OperatorTaken
<1> QED
  BY <1>2, <1>3, <1>4, <1>5, <1>6, <1>7 DEF Parse

-----------------------------------------------------------------------------
(* Expansion and execution. *)

\* A step that leaves the list alone leaves alone what it holds.
LEMMA ListHolds ==
  ASSUME WordsInv, UNCHANGED <<tokens, pos, list>>, TypeOK,
         pc'[Shell] = pc[Shell] \/ {pc[Shell], pc'[Shell]} \cap {"parse", "segv"} = {}
  PROVE  /\ NothingDropped' /\ Held'
         /\ Commands' = Commands /\ \A k : Awaited(k)' = Awaited(k)
<1>1. tokens' = tokens /\ pos' = pos /\ list' = list /\ NothingDropped /\ Held
  BY DEF WordsInv
<1>2. Commands' = Commands /\ Commands \in Seq(Command)
  BY <1>1, SameCommands, CurrentIsLast
<1>3. Positions' = Positions /\ Targets' = Targets
  BY <1>2, PositionsAre, NextPositionsAre
<1>4. NothingDropped'
  <2>1. pc'[Shell] \notin {"parse", "segv"} => tokens[pos] \in {"paren", "newline", "eof"}
    BY <1>1 DEF NothingDropped, Peek
  <2> QED
    BY <1>1, <1>3, <2>1, Dropped, DroppedNext
<1>5. Held'
  <2>1. Shape(Commands) /\ (pc'[Shell] = "parse" =>
          Reach(Commands, pos) /\ (pos = 1 \/ tokens[pos - 1] # "redir"))
    BY <1>1 DEF Held
  <2> QED
    BY <1>1, <1>2, <2>1, HeldNext
<1>6. Assignments' = Assignments
  BY <1>2 DEF Assignments
<1>7. \A k : Awaited(k)' = Awaited(k)
  BY <1>1, <1>6 DEF Awaited, SameCommand
<1> QED
  BY <1>2, <1>4, <1>5, <1>7

\* A word sees what it waits for.
LEMMA SeesAwaited ==
  ASSUME IInv, WordsInv, ExpandCommand, NEW w \in Words(Commands[expanded + 1])
  PROVE  /\ SeenBy(Commands[expanded + 1])[w] = Awaited(w)
         /\ \A k \in 1..expanded : w \notin Words(Commands[k])
<1>1. PICK cs, n, c : cs = Commands /\ n = expanded + 1 /\ c = cs[n]
  OBVIOUS
<1>2. /\ cs \in Seq(Command) /\ Shape(cs) /\ expanded \in Nat /\ n \in 1..Len(cs)
      /\ n \in Nat /\ Len(cs) \in Nat /\ DOMAIN cs = 1..Len(cs)
  <2>1. TypeOK /\ Held /\ expanded < Len(cs)
    BY <1>1 DEF IInv, WordsInv, ExpandCommand
  <2>2. cs \in Seq(Command)
    BY <1>1, <2>1, CurrentIsLast
  <2>3. Len(cs) \in Nat /\ DOMAIN cs = 1..Len(cs)
    BY <2>2, LenProperties
  <2>4. expanded \in 0..Len(cs) /\ Shape(cs)
    BY <1>1, <2>1 DEF TypeOK, Held
  <2> QED
    BY <1>1, <2>1, <2>2, <2>3, <2>4
<1>3. assigned = UNION {Range(cs[k].assignments) : k \in 1..expanded}
  BY <1>1 DEF WordsInv, Expansion
<1>4. Assignments = UNION {Range(cs[k].assignments) : k \in 1..Len(cs)}
  BY <1>1, <1>2 DEF Assignments
<1>5. \A k \in 1..Len(cs) : /\ Range(cs[k].assignments) \subseteq Words(cs[k])
                            /\ Words(cs[k]) \subseteq Nat
  <2> SUFFICES ASSUME NEW k \in 1..Len(cs)
               PROVE  Range(cs[k].assignments) \subseteq Words(cs[k]) /\ Words(cs[k]) \subseteq Nat
    OBVIOUS
  <2>1. cs[k] \in Command
    BY <1>2, ElementOfSeq
  <2>2. Words(cs[k]) \subseteq Position
    BY <2>1, WordsTyped
  <2> QED
    BY <2>2 DEF Words, Position
<1>6. w \in Words(c) /\ w \in Nat
  BY <1>1, <1>2, <1>5
<1>7. \A k, m \in 1..Len(cs) : k < m =>
        \A x \in Words(cs[k]), y \in Words(cs[m]) : Apart(x, y)
  BY <1>2 DEF Shape
<1>8. \A k \in 1..(n - 1) : \A x \in Words(cs[k]) : x < w
  <2> SUFFICES ASSUME NEW k \in 1..(n - 1), NEW x \in Words(cs[k]) PROVE x < w
    OBVIOUS
  <2>1. k \in 1..Len(cs) /\ k < n
    BY <1>2
  <2>2. Apart(x, w)
    BY <1>1, <1>2, <1>6, <1>7, <2>1
  <2> QED
    BY <2>2 DEF Apart
<1>9. \A k \in (n + 1)..Len(cs) : \A y \in Words(cs[k]) : w < y /\ ~SameCommand(y, w)
  <2> SUFFICES ASSUME NEW k \in (n + 1)..Len(cs), NEW y \in Words(cs[k])
               PROVE  w < y /\ ~SameCommand(y, w)
    OBVIOUS
  <2>1. k \in 1..Len(cs) /\ n < k
    BY <1>2
  <2>2. Apart(w, y)
    BY <1>1, <1>2, <1>6, <1>7, <2>1
  <2> QED
    BY <2>2 DEF Apart, Cuts, SameCommand
<1>10. \A a \in Words(c) : SameCommand(a, w)
  <2>1. \A x, y \in Words(c) : \A j \in x..y : ~Cuts(j)
    BY <1>1, <1>2 DEF Shape
  <2> QED
    BY <1>6, <2>1 DEF SameCommand, Cuts
<1>11. 1..expanded = 1..(n - 1)
  BY <1>1, <1>2
<1>12. \A k \in 1..Len(cs) : k \in 1..(n - 1) \/ k = n \/ k \in (n + 1)..Len(cs)
  BY <1>2
<1>13. \A k \in 1..(n - 1) : k \in 1..Len(cs)
  BY <1>2
<1>14. \A k \in (n + 1)..Len(cs) : k \in 1..Len(cs)
  BY <1>2
<1>15. \A a \in assigned : a \in Assignments /\ a < w
  BY <1>3, <1>4, <1>5, <1>8, <1>11, <1>13
<1>16. Range(c.assignments) \subseteq Assignments
  BY <1>1, <1>2, <1>4
<1>17. w \in Assignments => w \in Range(c.assignments)
  <2> SUFFICES ASSUME NEW k \in 1..Len(cs), w \in Range(cs[k].assignments)
               PROVE  w \in Range(c.assignments)
    BY <1>4
  <2>1. w \in Words(cs[k])
    BY <1>5
  <2>2. ~(w < w)
    BY <1>6
  <2>3. k = n
    BY <1>8, <1>9, <1>12, <2>1, <2>2
  <2> QED
    BY <1>1, <2>3
<1>18. \A a \in Assignments : \/ a \in assigned
                              \/ a \in Range(c.assignments)
                              \/ ~(a < w) /\ ~SameCommand(a, w)
  <2> SUFFICES ASSUME NEW k \in 1..Len(cs), NEW a \in Range(cs[k].assignments)
               PROVE  \/ a \in assigned
                      \/ a \in Range(c.assignments)
                      \/ ~(a < w) /\ ~SameCommand(a, w)
    BY <1>4
  <2>1. a \in Words(cs[k]) /\ a \in Nat
    BY <1>5
  <2>2. CASE k \in 1..(n - 1)
    BY <1>3, <1>11, <2>2
  <2>3. CASE k = n
    BY <1>1, <2>3
  <2>4. CASE k \in (n + 1)..Len(cs)
    <3>1. w < a /\ ~SameCommand(a, w)
      BY <1>9, <2>1, <2>4
    <3> QED
      BY <1>6, <2>1, <3>1
  <2> QED
    BY <1>12, <2>2, <2>3, <2>4
<1>19. \A a \in Range(c.assignments) : SameCommand(a, w)
  BY <1>1, <1>2, <1>5, <1>10
<1>20. SeenBy(c)[w]
         = assigned \cup {a \in Range(c.assignments) : a < w \/ w \notin Range(c.assignments)}
  BY <1>6 DEF SeenBy, Words
<1>21. SeenBy(c)[w] = Awaited(w)
  <2> DEFINE R == Range(c.assignments)
  <2>1. ASSUME NEW a \in Awaited(w)
        PROVE  a \in assigned \cup {b \in R : b < w \/ w \notin R}
    <3>1. a \in Assignments /\ (a < w \/ (w \notin Assignments /\ SameCommand(a, w)))
      BY <2>1 DEF Awaited
    <3>2. a \in assigned \/ a \in R
      BY <1>18, <3>1
    <3>3. a < w \/ w \notin R
      BY <1>16, <3>1
    <3> QED
      BY <3>2, <3>3
  <2>2. ASSUME NEW a \in assigned \cup {b \in R : b < w \/ w \notin R}
        PROVE  a \in Awaited(w)
    <3>1. a \in Assignments /\ (a < w \/ (a \in R /\ w \notin R))
      BY <1>15, <1>16
    <3>2. a < w \/ (w \notin Assignments /\ SameCommand(a, w))
      BY <1>17, <1>19, <3>1
    <3> QED
      BY <3>1, <3>2 DEF Awaited
  <2> QED
    BY <1>20, <2>1, <2>2
<1>22. \A k \in 1..expanded : w \notin Words(cs[k])
  <2>1. ~(w < w)
    BY <1>6
  <2> QED
    BY <1>8, <1>11, <2>1
<1> QED
  BY <1>1, <1>21, <1>22

\* The command that is expanded next sees what its words wait for.
LEMMA ExpandKeepsOrder ==
  ASSUME IInv, WordsInv, ExpandCommand
  PROVE  WordsInv'
<1>1. /\ TypeOK /\ Expansion /\ pc[Shell] = "expand" /\ pc' = pc /\ expanded' = expanded + 1
      /\ UNCHANGED <<tokens, pos, list>> /\ expanded \in Nat
  BY DEF IInv, WordsInv, ExpandCommand, TypeOK
<1>2. /\ NothingDropped' /\ Held' /\ Commands' = Commands
      /\ \A k : Awaited(k)' = Awaited(k)
  BY <1>1, ListHolds
<1>3. PICK cs, n, c : cs = Commands /\ n = expanded + 1 /\ c = cs[n]
  OBVIOUS
<1>4. /\ seen' = [k \in DOMAIN seen \cup DOMAIN SeenBy(c) |->
                    IF k \in DOMAIN SeenBy(c) THEN SeenBy(c)[k] ELSE seen[k]]
      /\ assigned' = assigned \cup Range(c.assignments)
  BY <1>3 DEF ExpandCommand
<1>5. DOMAIN SeenBy(c) = Words(c)
  BY DEF SeenBy, Words
<1>6. \A k : k \in 1..n <=> k \in 1..expanded \/ k = n
  BY <1>1, <1>3
<1>7. /\ DOMAIN seen = UNION {Words(cs[k]) : k \in 1..expanded}
      /\ assigned = UNION {Range(cs[k].assignments) : k \in 1..expanded}
      /\ \A k \in 1..expanded : \A w \in Words(cs[k]) : seen[w] = Awaited(w)
  BY <1>1, <1>3 DEF Expansion
<1>8. \A w \in Words(c) :
        SeenBy(c)[w] = Awaited(w) /\ \A k \in 1..expanded : w \notin Words(cs[k])
  BY <1>3, SeesAwaited
<1>9. DOMAIN seen' = UNION {Words(cs[k]) : k \in 1..n}
  <2>1. DOMAIN seen' = DOMAIN seen \cup Words(c)
    BY <1>4, <1>5
  <2> QED
    BY <1>3, <1>6, <1>7, <2>1
<1>10. assigned' = UNION {Range(cs[k].assignments) : k \in 1..n}
  BY <1>3, <1>4, <1>6, <1>7
<1>11. \A k \in 1..n : \A w \in Words(cs[k]) : seen'[w] = Awaited(w)
  <2> SUFFICES ASSUME NEW k \in 1..n, NEW w \in Words(cs[k]) PROVE seen'[w] = Awaited(w)
    OBVIOUS
  <2>1. CASE k = n
    <3>1. w \in Words(c) /\ seen'[w] = SeenBy(c)[w]
      BY <1>3, <1>4, <1>5, <2>1
    <3> QED
      BY <1>8, <3>1
  <2>2. CASE k \in 1..expanded
    <3>1. w \notin Words(c)
      BY <1>8, <2>2
    <3>2. w \in DOMAIN seen /\ seen[w] = Awaited(w)
      BY <1>7, <2>2
    <3> QED
      BY <1>4, <1>5, <3>1, <3>2
  <2> QED
    BY <1>6, <2>1, <2>2
<1>12. Expansion'
  BY <1>1, <1>2, <1>3, <1>9, <1>10, <1>11 DEF Expansion
<1> QED
  BY <1>2, <1>12 DEF WordsInv

\* From then on nothing more is expanded.
LEMMA RestKeepsOrder ==
  ASSUME IInv, WordsInv, UNCHANGED <<tokens, pos, list, expansion>>,
         \/ pc' = pc
         \/ /\ pc[Shell] \notin {"parse", "segv"} /\ expanded = Len(Commands)
            /\ pc'[Shell] \notin {"parse", "segv", "expand"}
  PROVE  WordsInv'
<1>1. /\ TypeOK /\ Expansion /\ UNCHANGED <<tokens, pos, list>>
      /\ expanded' = expanded /\ assigned' = assigned /\ seen' = seen
      /\ (pc'[Shell] = pc[Shell] \/ {pc[Shell], pc'[Shell]} \cap {"parse", "segv"} = {})
  BY DEF IInv, WordsInv, expansion
<1>2. /\ NothingDropped' /\ Held' /\ Commands' = Commands
      /\ \A k : Awaited(k)' = Awaited(k)
  BY <1>1, ListHolds
<1>3. Expansion'
  BY <1>1, <1>2 DEF Expansion
<1> QED
  BY <1>2, <1>3 DEF WordsInv

\* One sequence flattened is that sequence.
LEMMA FlattenOne ==
  ASSUME NEW seqs, Len(seqs) = 1
  PROVE  FlattenSeq(seqs) = seqs[1]
<1>1. Len(seqs) \in Nat \ {0} /\ 1 \in 1..Len(seqs)
  OBVIOUS
<1> QED
  BY <1>1, FlattenSteps

\* A line of which nothing has been read.
LEMMA InitWordsInv == Init => WordsInv
<1> SUFFICES ASSUME Init PROVE WordsInv
  OBVIOUS
<1>1. /\ TypeOK /\ pos = 1 /\ list = <<NewElement(1)>> /\ expanded = 0 /\ assigned = {}
      /\ seen = <<>> /\ pc[Shell] = "parse"
  BY InitIInv, Bounds DEF IInv, Init
<1>2. list \in Seq(Element) /\ Len(list) = 1 /\ list[1] = NewElement(1)
  BY <1>1 DEF TypeOK
<1>3. /\ Len(list[1].andor) = 1
      /\ list[1].andor[1].pipeline.commands = <<EmptyCommand>>
  BY <1>2 DEF NewElement, NewAndOr, NewPipeline
<1>4. PICK x, cs : x = Spine(list) /\ cs = <<EmptyCommand>>
  OBVIOUS
<1>5. Len(x) = 1 /\ Len(x[1]) = 1 /\ x[1][1] = cs
  <2>1. 1 \in 1..Len(list) /\ 1 \in 1..Len(list[1].andor)
    BY <1>2, <1>3
  <2> QED
    BY <1>2, <1>3, <1>4, <2>1, SpineFacts
<1>6. Commands = cs
  <2>1. FlattenSeq(x) = x[1] /\ FlattenSeq(x[1]) = x[1][1]
    BY <1>5, FlattenOne
  <2> QED
    BY <1>4, <1>5, <2>1, CommandsAreFlat DEF Flattened
<1>7. cs \in Seq(Command) /\ Len(cs) = 1 /\ cs[1] = EmptyCommand /\ DOMAIN cs = 1..1
  BY <1>4, EmptyIsCommand
<1>8. \A k \in 1..1 : Words(cs[k]) = {}
  BY <1>7, EmptyHasNoWords
<1>9. Positions = <<>> /\ Targets = <<>>
  <2>1. Piece(EmptyCommand) = <<>> /\ EmptyCommand.targets = <<>>
    <3>1. <<>> \in Seq(Position)
      BY EmptySeq, Zenon
    <3>2. <<>> \o <<>> = <<>>
      BY <3>1, ConcatEmptySeq
    <3> QED
      BY <3>2 DEF Piece, EmptyCommand
  <2>2. PICK f, g : f = [k \in 1..1 |-> Piece(cs[k])] /\ g = [k \in 1..1 |-> cs[k].targets]
    OBVIOUS
  <2>3. Len(f) = 1 /\ f[1] = <<>> /\ Len(g) = 1 /\ g[1] = <<>>
    BY <1>7, <2>1, <2>2
  <2>4. FlattenSeq(f) = <<>> /\ FlattenSeq(g) = <<>>
    BY <2>3, FlattenOne
  <2>5. PositionsIn(cs) = FlattenSeq(f) /\ TargetsIn(cs) = FlattenSeq(g)
    BY <1>7, <2>2 DEF PositionsIn, TargetsIn
  <2> QED
    BY <1>6, <2>4, <2>5, PositionsAre
<1>10. NothingDropped
  <2>1. DOMAIN <<>> = {} /\ Range(<<>>) = {} /\ InOrder(<<>>)
    BY DEF Range, InOrder
  <2>2. 1..(pos - 1) = {}
    BY <1>1
  <2> QED
    BY <1>1, <1>9, <2>1, <2>2 DEF NothingDropped
<1>11. Held
  <2>1. Shape(cs)
    BY <1>7, <1>8 DEF Shape
  <2>2. Reach(cs, 1)
    <3>1. 1..(Len(cs) - 1) = {} /\ 1 \in 1..1
      BY <1>7
    <3> QED
      BY <1>7, <1>8, <3>1 DEF Reach
  <2> QED
    BY <1>1, <1>6, <2>1, <2>2 DEF Held
<1>12. Expansion
  <2>1. 1..expanded = {} /\ DOMAIN seen = {}
    BY <1>1
  <2> QED
    BY <1>1, <2>1 DEF Expansion
<1> QED
  BY <1>10, <1>11, <1>12 DEF WordsInv

\* Every step keeps what the list holds and what has been expanded.
LEMMA NextWordsInv == IInv /\ WordsInv /\ [Next]_vars => WordsInv'
<1> SUFFICES ASSUME IInv, WordsInv, [Next]_vars PROVE WordsInv'
  OBVIOUS
<1>1. Shell \in Proc /\ pc \in [Proc -> Places] /\ Fresh /\ Expansion
  BY Bounds DEF IInv, WordsInv
<1>2. CASE Parse
  BY <1>2, ParseDropsNothing
<1>3. CASE ExpandCommand
  BY <1>3, ExpandKeepsOrder
<1>4. CASE ExpandDone
  <2>1. /\ pc[Shell] = "expand" /\ expanded = Len(Commands)
        /\ pc' = [pc EXCEPT ![Shell] = "list"] /\ UNCHANGED <<tokens, pos, list, expansion>>
    BY <1>4 DEF ExpandDone
  <2>2. pc'[Shell] = "list"
    BY <1>1, <2>1
  <2> QED
    BY <2>1, <2>2, RestKeepsOrder
<1>5. ASSUME pc[Shell] \notin {"parse", "segv", "expand"}
      PROVE  expanded = Len(Commands)
  BY <1>1, <1>5 DEF Expansion
<1>6. ASSUME NEW p \in Proc, ListStep(p) \/ SecondShellEnds(p) PROVE WordsInv'
  <2> DEFINE quiet == /\ pc[p] \in {"list", "andor", "pipes", "done"}
                      /\ UNCHANGED <<tokens, pos, list, expansion>>
                      /\ pc'[Shell] = pc[Shell] \/ pc'[Shell] \in Runners
  <2>1. ASSUME StartChain(p) PROVE quiet
    BY <1>1, <2>1 DEF StartChain, AtElement, Runners
  <2>2. ASSUME ForkChain(p) PROVE quiet
    BY <1>1, <2>2 DEF ForkChain, AtElement, Runners
  <2>3. ASSUME AndOrTurn(p) PROVE quiet
    BY <1>1, <2>3 DEF AndOrTurn, RunPipeline, ChainDone, Runners
  <2>4. ASSUME ForkMember(p) PROVE quiet
    BY <1>1, <2>4 DEF ForkMember, Runners
  <2>5. ASSUME WaitMembers(p) PROVE quiet
    BY <1>1, <2>5 DEF WaitMembers, Runners
  <2>6. ASSUME ListDone(p) PROVE quiet
    BY <1>1, <2>6 DEF ListDone, Runners
  <2>7. ASSUME SecondShellEnds(p) PROVE quiet
    BY <1>1, <2>7 DEF SecondShellEnds, Runners
  <2>8. quiet
    BY <1>6, <2>1, <2>2, <2>3, <2>4, <2>5, <2>6, <2>7 DEF ListStep
  <2>9. pc[Shell] \notin {"parse", "segv", "expand"}
    <3>1. CASE p = Shell
      BY <2>8, <3>1
    <3>2. CASE p # Shell
      BY <1>1, <2>8, <3>2 DEF Fresh
    <3> QED
      BY <3>1, <3>2
  <2>10. pc'[Shell] \notin {"parse", "segv", "expand"}
    BY <2>8, <2>9 DEF Runners
  <2> QED
    BY <1>5, <2>8, <2>9, <2>10, RestKeepsOrder
<1>7. CASE UNCHANGED vars
  BY <1>7, RestKeepsOrder DEF vars
<1> QED
  BY <1>1, <1>2, <1>3, <1>4, <1>6, <1>7 DEF Next, Rest

\* The words of a line, for lines of any length.
THEOREM WordsInvariant == Spec => []WordsInv
BY InitWordsInv, NextWordsInv, EvalInvariant, PTL DEF Spec

\* Of a line of any length and any mixture of operators the parser keeps each
\* word it has read, once and in its order, as a target of a redirection or
\* for the command it stands in.
THEOREM NothingIsDropped == Spec => []NothingDropped
<1>1. WordsInv => NothingDropped
  BY DEF WordsInv
<1> QED
  BY <1>1, WordsInvariant, PTL

\* When the first pipeline of a line of any length runs, each of its words has
\* been expanded and has seen the assignments in front of it, and those of its
\* own command, and no others.
THEOREM AssignmentsAreSeen == Spec => []SeesAssignmentsBefore
<1>1. IInv /\ WordsInv => SeesAssignmentsBefore
  <2> SUFFICES ASSUME IInv, WordsInv, pc[Shell] = "list"
               PROVE  /\ DOMAIN seen = Range(Positions) \cup Range(Targets)
                      /\ \A k \in DOMAIN seen : seen[k] = Awaited(k)
    BY DEF SeesAssignmentsBefore, Awaited
  <2>1. TypeOK /\ Expansion /\ Commands \in Seq(Command)
    BY CurrentIsLast DEF IInv, WordsInv
  <2>2. /\ DOMAIN seen = UNION {Words(Commands[k]) : k \in 1..Len(Commands)}
        /\ \A k \in 1..Len(Commands) : \A w \in Words(Commands[k]) : seen[w] = Awaited(w)
    BY <2>1 DEF Expansion
  <2>3. Range(Positions) \cup Range(Targets)
          = UNION {Words(Commands[k]) : k \in 1..Len(Commands)}
    BY <2>1, PositionsHold, PositionsAre
  <2> QED
    BY <2>2, <2>3
<1> QED
  BY <1>1, WordsInvariant, EvalInvariant, PTL
=============================================================================
