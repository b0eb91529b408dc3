--------------------------- MODULE PipelineProofs ---------------------------
(***************************************************************************)
(* What Pipeline promises, for every set of lines and redirections, every  *)
(* number of processes and every junk on the stack.                        *)
(***************************************************************************)
EXTENDS Pipeline, WellFoundedInduction, TLAPS

-----------------------------------------------------------------------------
(* The inductive invariant. *)

\* What the shell has on its descriptors when execute_pipeline starts.
ShellTable == [f \in Fd |-> IF f \in Std THEN Tty ELSE Closed]

\* Where the shell and the others can be, for one command and for several.
Roles ==
    /\ pc[Shell] \in IF n = 1 THEN {"lone", "waitLone", "returned", "dead"}
                     ELSE {"loop", "wait", "returned"}
    /\ \A c \in Proc \ {Shell} :
         pc[c] \in {"unborn", "run", "exited", "reaped"} \cup
                   IF n = 1 THEN {"redirect"}
                   ELSE {"loop", "setup", "wait", "returned"}

\* A child that has not gone on with the loop has a command of its own.
Positions ==
    \A c \in Proc : pc[c] \in {"unborn", "redirect", "setup", "run"} => pos[c] < n

\* A child that has been forked and not collected is in pids[], where the
\* shell has yet to wait for it.
Recorded ==
    ~forkFailed =>
        \A c \in Proc \ {Shell} :
            parent[c] = Shell /\ pc[c] \notin {"unborn", "reaped"} =>
                /\ pc[Shell] \notin {"lone", "returned"}
                /\ \E i \in 0..(n-1) :
                     /\ pids[Shell][i] = c
                     /\ pc[Shell] = "loop" => i < pos[Shell]
                     /\ pc[Shell] = "wait" => i >= pos[Shell]

\* The numbers of pipe j are its two ends in table t.
PipeOpen(t, pp, j) ==
    /\ pp[j][1] \in Fd \ Std /\ t[pp[j][1]] = End("r", Shell, j)
    /\ pp[j][2] \in Fd \ Std /\ t[pp[j][2]] = End("w", Shell, j)

\* Table t and pipes[] after m turns of the shell's fork loop: above the
\* standard numbers nothing is open that pipes[] does not name, and pipes[]
\* holds junk where no pipe was made.
AfterTurns(t, pp, failed, m) ==
    /\ \A d \in Std : t[d] = Tty
    /\ \A f \in Fd \ Std : t[f] # Closed =>
         \E j \in 0..(n-2) : j < m /\ f \in {pp[j][1], pp[j][2]}
    /\ \A j \in 0..(n-2) :
         IF j < m THEN PipeOpen(t, pp, j) \/ (failed /\ pp[j] = junk[j])
                  ELSE pp[j] = junk[j]

\* The shell's table: the ends of its pipes while it forks, nothing of them
\* once it waits.
ShellEnds ==
    /\ pc[Shell] = "loop" =>
           AfterTurns(fdtab[Shell], pipes[Shell], pipeFailed, pos[Shell])
    /\ n = 1 => fdtab[Shell] = ShellTable
    /\ pc[Shell] \in {"wait", "returned"} =>
           \/ forkFailed
           \/ pipeFailed /\ ~Harmless(0..(n-2))
           \/ fdtab[Shell] = ShellTable

\* A child of the shell starts with a copy of the shell's table.
ChildEnds ==
    ~pipeFailed => \A c \in Proc \ {Shell} :
        pc[c] = "setup" /\ parent[c] = Shell =>
            AfterTurns(fdtab[c], pipes[c], FALSE, pos[c] + 1)

\* A command that stands alone has at most one process, and it is the one the
\* shell waits for.
OneChild ==
    n = 1 =>
        /\ ~pipeFailed
        /\ forkFailed => pc[Shell] = "dead"
        /\ pc[Shell] \in {"lone", "dead"} => \A c \in Proc \ {Shell} : pc[c] = "unborn"
        /\ pc[Shell] = "lone" => applied = 0
        /\ pc[Shell] = "waitLone" => LoneChild \in Proc \ {Shell}
        /\ \A c \in Proc : parent[c] = Shell

\* The redirections among the first m that are in force for number d.
TargetsUpTo(d, m) == {k \in 1..m : k \in Targets(d)}

\* What holds the standard number d after the first m redirections.
InForce(d, m) == IF TargetsUpTo(d, m) = {} THEN Tty ELSE File(Max(TargetsUpTo(d, m)))

\* The table of a lone command's child: the standard numbers hold what the
\* redirections so far put there, and each has taken at most one number more.
LoneTable ==
    \A c \in Proc : n = 1 /\ pc[c] \in {"redirect", "run"} =>
        /\ \A d \in Std : fdtab[c][d] = InForce(d, applied)
        /\ \A f \in Fd : f >= 3 + applied => fdtab[c][f] = Closed
        /\ \A k \in 1..applied : ~Refused(redirs[k])
        /\ pc[c] = "run" => applied = Len(redirs) /\ LoneName \notin {"unknown", "noexec"}

\* A lone command's child that reports success had something to run.
LoneCode ==
    \A c \in Proc : n = 1 /\ pc[c] = "exited" /\ code = Exited(0) =>
        /\ LoneName \notin {"unknown", "noexec"}
        /\ \A k \in DOMAIN redirs : ~Refused(redirs[k])

IInv ==
    /\ TypeOK /\ Roles /\ Positions
    /\ Recorded /\ ShellEnds /\ ChildEnds /\ Connected
    /\ OneChild /\ LoneTable /\ LoneCode /\ StatusTells

-----------------------------------------------------------------------------
(* Numbers and ends. *)

\* Min, by which the kernel's choice of the lowest free number is modelled,
\* is an element of the set and a lower bound of it.
LEMMA MinInSet ==
  ASSUME NEW S \in SUBSET Nat, S # {}
  PROVE  Min(S) \in S /\ \A y \in S : Min(S) =< y
<1>1. PICK x \in S : \A y \in S : ~ (<<y, x>> \in OpToRel(<, Nat))
  BY NatLessThanWellFounded, WFMin, Zenon
<1>2. \A y, z \in Nat : y < z => <<y, z>> \in OpToRel(<, Nat)
  BY Zenon DEF OpToRel
<1>3. \A y \in S : x =< y
  <2> SUFFICES ASSUME NEW y \in S PROVE x =< y
    OBVIOUS
  <2>1. ~ (y < x)
    BY <1>1, <1>2, Zenon
  <2> QED
    BY <2>1
<1> QED
  BY <1>3 DEF Min

\* Max of numbers with an upper bound, likewise.
LEMMA MaxInSet ==
  ASSUME NEW L \in Nat, NEW S \in SUBSET (1..L), S # {}
  PROVE  Max(S) \in S /\ \A y \in S : y =< Max(S)
<1> DEFINE T == {L - k : k \in S}
<1>1. T \in SUBSET Nat /\ T # {}
  <2>1. \A k \in S : k \in 1..L /\ L - k \in Nat
    OBVIOUS
  <2>2. PICK k \in S : TRUE
    OBVIOUS
  <2> QED
    BY <2>1, <2>2
<1>2. Min(T) \in T /\ \A y \in T : Min(T) =< y
  <2> HIDE DEF T
  <2> QED BY <1>1, MinInSet
<1>3. PICK x \in S : Min(T) = L - x
  BY <1>2
<1>4. ASSUME NEW y \in S PROVE y =< x
  <2>1. L - x =< L - y
    BY <1>2, <1>3
  <2>2. x \in 1..L /\ y \in 1..L
    OBVIOUS
  <2> QED
    BY <2>1, <2>2
<1> QED
  BY <1>4 DEF Max

\* The constants.
LEMMA Constants ==
  /\ MaxChildren \in Nat /\ MaxFd \in Nat
  /\ Proc \in SUBSET Nat /\ Shell \in Proc /\ NoPid \notin Proc
  /\ Fd \in SUBSET Nat /\ Std \subseteq Fd
BY MaxChildrenAssumption, MaxFdAssumption DEF Proc, Shell, NoPid, Fd, Std

\* An open end is told from a closed number, and ends of different pipes from
\* each other.
LEMMA EndFacts ==
  /\ Tty # Closed
  /\ \A k : File(k) # Closed
  /\ \A e \in {"r", "w"} : \A p, k : End(e, p, k) # Closed /\ End(e, p, k) # Tty
BY DEF Tty, Closed, File, End

\* What can be on a descriptor.
LEMMA EndsFacts ==
  /\ Tty \in Ends /\ Closed \in Ends
  /\ \A k \in DOMAIN redirs : File(k) \in Ends
  /\ \A e \in {"r", "w"}, p \in Proc, k \in 0..(n-2) : End(e, p, k) \in Ends
  /\ \A x \in Ends : x.end = "w" \/ x.end = "r" => x.pipe \in Proc \X (0..(n-2))
<1>1. \A x \in Ends : x.end = "w" \/ x.end = "r" => x.pipe \in Proc \X (0..(n-2))
  <2> SUFFICES ASSUME NEW x \in Ends, x.end = "w" \/ x.end = "r"
               PROVE  x.pipe \in Proc \X (0..(n-2))
    OBVIOUS
  <2>1. PICK e \in {"r", "w"}, p \in Proc, k \in 0..(n-2) : x = End(e, p, k)
    BY DEF Ends, Tty, Closed, File, End
  <2> QED
    BY <2>1 DEF End
<1> QED
  BY <1>1 DEF Ends

\* The pipeline and its redirections.
LEMMA LineFacts ==
  ASSUME TypeOK
  PROVE  /\ n \in Nat /\ n >= 1
         /\ \A i \in 0..(n-1) : line[i + 1] \in Kind
         /\ redirs \in Seq(Redirect) /\ Len(redirs) \in Nat
         /\ Len(redirs) + 2 =< MaxFd
         /\ DOMAIN redirs = 1..Len(redirs)
<1>1. line \in Seq(Kind) /\ Len(line) >= 1
  BY LinesAssumption DEF TypeOK
<1>2. redirs \in Seq(Redirect)
  <2>1. redirs \in Redirs \cup {<<>>} /\ <<>> \in Seq(Redirect)
    BY DEF TypeOK
  <2> QED
    BY <2>1, RedirsAssumption, Zenon
<1>3. Len(redirs) + 2 =< MaxFd
  BY MaxFdAssumption DEF TypeOK
<1> QED
  BY <1>1, <1>2, <1>3 DEF n

\* The input does not change, nor what is derived from it.
LEMMA Frozen ==
  ASSUME UNCHANGED input
  PROVE  /\ line' = line /\ redirs' = redirs /\ junk' = junk
         /\ n' = n /\ Ends' = Ends /\ LoneName' = LoneName
         /\ \A d : Targets(d)' = Targets(d)
         /\ \A d, m : InForce(d, m)' = InForce(d, m)
         /\ \A J : Harmless(J)' = Harmless(J)
         /\ \A t, pp, failed, m : AfterTurns(t, pp, failed, m)' = AfterTurns(t, pp, failed, m)
<1>1. line' = line /\ redirs' = redirs /\ junk' = junk
  BY DEF input
<1>2. n' = n /\ LoneName' = LoneName
  BY <1>1 DEF n, LoneName
<1>3. Ends' = Ends
  BY <1>1, <1>2 DEF Ends, File, End, Tty, Closed
<1>4. \A d : Targets(d)' = Targets(d)
  BY <1>1 DEF Targets
<1>5. \A d, m : InForce(d, m)' = InForce(d, m)
  <2>1. \A d, m : TargetsUpTo(d, m)' = TargetsUpTo(d, m)
    BY <1>4 DEF TargetsUpTo
  <2> QED
    BY <2>1 DEF InForce, File, Tty, End
<1>6. \A J : Harmless(J)' = Harmless(J)
  BY <1>1 DEF Harmless
<1>7. \A t, pp, failed, m : AfterTurns(t, pp, failed, m)' = AfterTurns(t, pp, failed, m)
  BY <1>1, <1>2 DEF AfterTurns, PipeOpen
<1> QED
  BY <1>1, <1>2, <1>3, <1>4, <1>5, <1>6, <1>7

-----------------------------------------------------------------------------
(* The fork loop. *)

\* pipe() finds its two numbers among the free ones.
LEMMA FreeNumbers ==
  ASSUME NEW t \in [Fd -> Ends], HasRoom(t)
  PROVE  /\ ReadFd(t) \in Free(t) /\ WriteFd(t) \in Free(t)
         /\ ReadFd(t) # WriteFd(t) /\ Free(t) \in SUBSET Fd
<1>1. Free(t) \in SUBSET Nat /\ Free(t) \in SUBSET Fd /\ Free(t) # {}
  BY Constants DEF Free, HasRoom
<1>2. ReadFd(t) \in Free(t)
  BY <1>1, MinInSet DEF ReadFd
<1>3. Free(t) \ {ReadFd(t)} \in SUBSET Nat /\ Free(t) \ {ReadFd(t)} # {}
  BY <1>1, <1>2 DEF HasRoom
<1>4. WriteFd(t) \in Free(t) \ {ReadFd(t)}
  BY <1>3, MinInSet DEF WriteFd
<1> QED
  BY <1>1, <1>2, <1>4

\* A turn of the loop leaves tables and numbers of the right type.
LEMMA TurnTyped ==
  ASSUME TypeOK, NEW p \in Proc, pos[p] < n, NEW t \in Turns(p)
  PROVE  /\ t.fds \in [Fd -> Ends]
         /\ t.pipes \in [0..(n-2) -> Int \X Int]
         /\ t.failed \in BOOLEAN
<1>1. /\ fdtab[p] \in [Fd -> Ends] /\ pipes[p] \in [0..(n-2) -> Int \X Int]
      /\ pos[p] \in 0..n /\ n \in Nat
  BY LineFacts DEF TypeOK
<1>2. CASE t = NoPipe(p)
  BY <1>1, <1>2 DEF NoPipe, NeedsPipe
<1>3. CASE t = NewPipe(p) /\ NeedsPipe(pos[p]) /\ HasRoom(fdtab[p])
  <2> DEFINE r == ReadFd(fdtab[p])
             w == WriteFd(fdtab[p])
             i == pos[p]
  <2>1. r \in Fd /\ w \in Fd /\ r \in Int /\ w \in Int
    <3>1. r \in Fd /\ w \in Fd
      BY <1>1, <1>3, FreeNumbers
    <3>2. \A f \in Fd : f \in Int
      BY Constants
    <3> QED
      BY <3>1, <3>2, Zenon
  <2>2. i \in 0..(n-2)
    BY <1>1, <1>3 DEF NeedsPipe
  <2>3. End("r", p, i) \in Ends /\ End("w", p, i) \in Ends
    BY <2>2, EndsFacts
  <2>4. t = [fds |-> [fdtab[p] EXCEPT ![r] = End("r", p, i), ![w] = End("w", p, i)],
             pipes |-> [pipes[p] EXCEPT ![i] = <<r, w>>],
             failed |-> FALSE]
    BY <1>3 DEF NewPipe, WithPipe
  <2> QED
    <3> HIDE DEF r, w, i
    <3> QED BY <1>1, <2>1, <2>2, <2>3, <2>4
<1> QED
  BY <1>2, <1>3 DEF Turns

\* A turn of the shell's loop adds its pipe to the ends that are open and in
\* pipes[], or leaves both alone.
LEMMA TurnAdvances ==
  ASSUME TypeOK, pos[Shell] < n, NEW t \in Turns(Shell),
         AfterTurns(fdtab[Shell], pipes[Shell], pipeFailed, pos[Shell])
  PROVE  AfterTurns(t.fds, t.pipes, pipeFailed \/ t.failed, pos[Shell] + 1)
<1> DEFINE i  == pos[Shell]
           t0 == fdtab[Shell]
           pp == pipes[Shell]
<1>1. /\ t0 \in [Fd -> Ends] /\ pp \in [0..(n-2) -> Int \X Int]
      /\ i \in 0..n /\ n \in Nat /\ i < n /\ Std \subseteq Fd
  BY LineFacts, Constants DEF TypeOK
<1>2. CASE t = NoPipe(Shell)
  <2>1. t.fds = t0 /\ t.pipes = pp /\ t.failed = NeedsPipe(i)
    BY <1>2 DEF NoPipe
  <2> HIDE DEF i, t0, pp
  <2>2. AfterTurns(t0, pp, pipeFailed, i)
    BY DEF i, t0, pp
  <2>3. AfterTurns(t0, pp, pipeFailed \/ NeedsPipe(i), i + 1)
    <3>1. \A d \in Std : t0[d] = Tty
      BY <2>2 DEF AfterTurns
    <3>2. ASSUME NEW f \in Fd \ Std, t0[f] # Closed
          PROVE  \E j \in 0..(n-2) : j < i + 1 /\ f \in {pp[j][1], pp[j][2]}
      <4>1. PICK j \in 0..(n-2) : j < i /\ f \in {pp[j][1], pp[j][2]}
        BY <2>2, <3>2 DEF AfterTurns
      <4>2. j < i + 1
        BY <1>1, <4>1
      <4> QED
        BY <4>1, <4>2
    <3>3. ASSUME NEW j \in 0..(n-2)
          PROVE  IF j < i + 1
                 THEN PipeOpen(t0, pp, j) \/ ((pipeFailed \/ NeedsPipe(i)) /\ pp[j] = junk[j])
                 ELSE pp[j] = junk[j]
      <4>1. IF j < i THEN PipeOpen(t0, pp, j) \/ (pipeFailed /\ pp[j] = junk[j])
                     ELSE pp[j] = junk[j]
        BY <2>2 DEF AfterTurns
      <4>2. (j < i => j < i + 1) /\ (j < i + 1 /\ ~(j < i) => j = i /\ i < n-1)
        BY <1>1
      <4> QED
        BY <4>1, <4>2 DEF NeedsPipe
    <3> QED
      BY <3>1, <3>2, <3>3 DEF AfterTurns
  <2> QED
    BY <2>1, <2>3 DEF i
<1>3. CASE t = NewPipe(Shell) /\ NeedsPipe(i) /\ HasRoom(t0)
  <2> DEFINE r  == ReadFd(t0)
             w  == WriteFd(t0)
             t1 == [t0 EXCEPT ![r] = End("r", Shell, i), ![w] = End("w", Shell, i)]
             p1 == [pp EXCEPT ![i] = <<r, w>>]
  <2>1. /\ r \in Fd /\ w \in Fd /\ r # w /\ t0[r] = Closed /\ t0[w] = Closed
    BY <1>1, <1>3, FreeNumbers DEF Free
  <2>2. i \in 0..(n-2)
    BY <1>1, <1>3 DEF NeedsPipe
  <2>3. t.fds = t1 /\ t.pipes = p1 /\ t.failed = FALSE
    BY <1>3 DEF NewPipe, WithPipe
  <2>4. AfterTurns(t0, pp, pipeFailed, i)
    OBVIOUS
  <2> HIDE DEF i, t0, pp, r, w
  <2>5. r \notin Std /\ w \notin Std
    BY <2>1, <2>4, EndFacts DEF AfterTurns
  <2>6. \A f \in Fd : f # r /\ f # w => t1[f] = t0[f]
    BY <1>1
  <2>7. t1[r] = End("r", Shell, i) /\ t1[w] = End("w", Shell, i)
    BY <1>1, <2>1
  <2>8. \A j \in 0..(n-2) : j # i => p1[j] = pp[j]
    BY <1>1
  <2>9. p1[i] = <<r, w>> /\ p1[i][1] = r /\ p1[i][2] = w
    BY <1>1, <2>2
  <2> HIDE DEF t1, p1
  <2>10. \A d \in Std : t1[d] = Tty
    BY <1>1, <2>4, <2>5, <2>6 DEF AfterTurns
  <2>11. ASSUME NEW f \in Fd \ Std, t1[f] # Closed
         PROVE  \E j \in 0..(n-2) : j < i + 1 /\ f \in {p1[j][1], p1[j][2]}
    <3>1. CASE f = r \/ f = w
      BY <1>1, <2>2, <2>9, <3>1
    <3>2. CASE f # r /\ f # w
      <4>1. PICK j \in 0..(n-2) : j < i /\ f \in {pp[j][1], pp[j][2]}
        BY <2>4, <2>6, <2>11, <3>2 DEF AfterTurns
      <4>2. p1[j] = pp[j] /\ j < i + 1
        BY <1>1, <2>8, <4>1
      <4> QED
        BY <4>1, <4>2
    <3> QED
      BY <3>1, <3>2
  <2>12. ASSUME NEW j \in 0..(n-2), j < i + 1
         PROVE  PipeOpen(t1, p1, j) \/ (pipeFailed /\ p1[j] = junk[j])
    <3>1. CASE j = i
      BY <2>1, <2>5, <2>7, <2>9, <3>1 DEF PipeOpen
    <3>2. CASE j # i
      <4>1. p1[j] = pp[j] /\ j < i
        BY <1>1, <2>8, <2>12, <3>2
      <4>2. PipeOpen(t0, pp, j) \/ (pipeFailed /\ pp[j] = junk[j])
        BY <2>4, <4>1 DEF AfterTurns
      <4>3. PipeOpen(t0, pp, j) => PipeOpen(t1, p1, j)
        BY <2>1, <2>6, <4>1, EndFacts DEF PipeOpen
      <4> QED
        BY <4>1, <4>2, <4>3
    <3> QED
      BY <3>1, <3>2
  <2>13. \A j \in 0..(n-2) : ~(j < i + 1) => p1[j] = junk[j]
    BY <1>1, <2>4, <2>8 DEF AfterTurns
  <2>14. AfterTurns(t1, p1, pipeFailed, i + 1)
    BY <2>10, <2>11, <2>12, <2>13 DEF AfterTurns
  <2>15. AfterTurns(t.fds, t.pipes, pipeFailed \/ t.failed, i + 1)
    BY <2>3, <2>14 DEF AfterTurns
  <2> QED
    BY <2>15 DEF i
<1> QED
  BY <1>2, <1>3 DEF Turns

\* Closing what pipes[] names leaves the shell with the table it started with.
LEMMA EndsClosed ==
  ASSUME TypeOK, pos[Shell] = n,
         AfterTurns(fdtab[Shell], pipes[Shell], pipeFailed, n),
         ~pipeFailed \/ Harmless(0..(n-2))
  PROVE  CloseNumbers(fdtab[Shell], Numbers(Shell)) = ShellTable
<1> DEFINE t  == fdtab[Shell]
           pp == pipes[Shell]
<1>1. t \in [Fd -> Ends] /\ Std \subseteq Fd /\ n \in Nat
  BY LineFacts, Constants DEF TypeOK
<1>2. AfterTurns(t, pp, pipeFailed, n)
  OBVIOUS
<1>3. Numbers(Shell) = UNION {{pp[j][1], pp[j][2]} : j \in 0..(n-2)}
  BY DEF Numbers
<1> HIDE DEF t, pp
<1>4. \A j \in 0..(n-2) : pp[j][1] \notin Std /\ pp[j][2] \notin Std
  BY <1>1, <1>2 DEF AfterTurns, PipeOpen, Harmless
<1>5. ASSUME NEW f \in Fd
      PROVE  (IF f \in Numbers(Shell) THEN Closed ELSE t[f]) =
             (IF f \in Std THEN Tty ELSE Closed)
  <2>1. CASE f \in Std
    BY <1>2, <1>3, <1>4, <2>1 DEF AfterTurns
  <2>2. CASE f \notin Std
    BY <1>2, <1>3, <2>2 DEF AfterTurns
  <2> QED
    BY <2>1, <2>2
<1>6. CloseNumbers(t, Numbers(Shell)) = ShellTable
  BY <1>5 DEF CloseNumbers, ShellTable
<1> QED
  BY <1>6 DEF t

\* What Connected says of a command: it reads from its predecessor, writes to
\* its successor, and holds nothing else.
HoldsItsEnds(c, t) ==
    /\ t[0] = IF pos[c] = 0 THEN Tty ELSE End("r", Shell, pos[c] - 1)
    /\ t[1] = IF pos[c] = n-1 THEN Tty ELSE End("w", Shell, pos[c])
    /\ t[2] = Tty
    /\ \A f \in Fd \ Std : t[f] = Closed

\* The child's dup2 and close make of a copy of the shell's table just that.
LEMMA ChildConnected ==
  ASSUME TypeOK, NEW c \in Proc, pos[c] < n, Harmless(1..(n-2)),
         AfterTurns(fdtab[c], pipes[c], FALSE, pos[c] + 1)
  PROVE  HoldsItsEnds(c, ChildTable(c))
<1> DEFINE i  == pos[c]
           t  == fdtab[c]
           pp == pipes[c]
           t1 == IF i > 0 THEN Dup2(t, pp[i-1][1], 0) ELSE t
           t2 == IF i < n-1 THEN Dup2(t1, pp[i][2], 1) ELSE t1
<1>1. /\ t \in [Fd -> Ends] /\ i \in Nat /\ n \in Nat /\ i < n
      /\ Std \subseteq Fd /\ 0 \in Std /\ 1 \in Std /\ 2 \in Std
  <2>1. t \in [Fd -> Ends] /\ pos[c] \in 0..n
    BY DEF TypeOK
  <2> QED
    BY <2>1, LineFacts, Constants DEF Std
<1>2. AfterTurns(t, pp, FALSE, i + 1)
  OBVIOUS
<1>3. Numbers(c) = UNION {{pp[j][1], pp[j][2]} : j \in 0..(n-2)}
  BY DEF Numbers
<1>4. ChildTable(c) = CloseNumbers(t2, Numbers(c))
  BY DEF ChildTable
<1> HIDE DEF t, pp, i
<1>5. \A j \in 0..(n-2) : j =< i => PipeOpen(t, pp, j)
  BY <1>1, <1>2 DEF AfterTurns
<1>6. \A j \in 0..(n-2) : pp[j][1] \notin Std /\ pp[j][2] \notin Std
  BY <1>1, <1>2, <1>5 DEF AfterTurns, PipeOpen, Harmless
<1>7. /\ t1 \in [Fd -> Ends]
      /\ t1[0] = IF i = 0 THEN Tty ELSE End("r", Shell, i - 1)
      /\ \A f \in Fd : f # 0 => t1[f] = t[f]
  <2>1. CASE i = 0
    BY <1>1, <1>2, <2>1 DEF AfterTurns
  <2>2. CASE i > 0
    <3>1. PipeOpen(t, pp, i - 1)
      BY <1>1, <1>5, <2>2
    <3>2. t1 = [t EXCEPT ![0] = t[pp[i-1][1]]]
      BY <1>1, <2>2, <3>1, EndFacts DEF Dup2, PipeOpen
    <3>3. t[pp[i-1][1]] \in Ends /\ t[pp[i-1][1]] = End("r", Shell, i - 1)
      BY <1>1, <3>1 DEF PipeOpen
    <3> HIDE DEF t1
    <3> QED
      BY <1>1, <2>2, <3>2, <3>3
  <2> QED
    BY <1>1, <2>1, <2>2
<1> HIDE DEF t1
<1>8. /\ t2[0] = t1[0]
      /\ t2[1] = IF i = n-1 THEN Tty ELSE End("w", Shell, i)
      /\ \A f \in Fd : f # 0 /\ f # 1 => t2[f] = t[f]
  <2>1. CASE i = n-1
    BY <1>1, <1>2, <1>7, <2>1 DEF AfterTurns
  <2>2. CASE i < n-1
    <3>1. PipeOpen(t, pp, i) /\ pp[i][2] # 0
      BY <1>1, <1>5, <1>6, <2>2
    <3>2. t2 = [t1 EXCEPT ![1] = t[pp[i][2]]]
      BY <1>1, <1>7, <2>2, <3>1, EndFacts DEF Dup2, PipeOpen
    <3>3. t[pp[i][2]] = End("w", Shell, i)
      BY <3>1 DEF PipeOpen
    <3> HIDE DEF t2
    <3> QED
      BY <1>1, <1>7, <2>2, <3>2, <3>3
  <2> QED
    BY <1>1, <2>1, <2>2
<1> HIDE DEF t2
<1>9. \A f \in Fd : ChildTable(c)[f] = IF f \in Numbers(c) THEN Closed ELSE t2[f]
  BY <1>4 DEF CloseNumbers
<1>10. \A d \in Std : ChildTable(c)[d] = t2[d]
  BY <1>1, <1>3, <1>6, <1>9
<1>11. ASSUME NEW f \in Fd \ Std PROVE ChildTable(c)[f] = Closed
  <2>1. t2[f] = t[f]
    BY <1>1, <1>8
  <2>2. t[f] # Closed => f \in Numbers(c)
    BY <1>2, <1>3 DEF AfterTurns
  <2> QED
    BY <1>9, <2>1, <2>2
<1>12. t[2] = Tty /\ t2[2] = t[2]
  BY <1>1, <1>2, <1>8 DEF AfterTurns
<1> QED
  BY <1>1, <1>7, <1>8, <1>10, <1>11, <1>12 DEF HoldsItsEnds, i

\* Tables of the right type stay so.
LEMMA ChildTableTyped ==
  ASSUME TypeOK, NEW c \in Proc
  PROVE  ChildTable(c) \in [Fd -> Ends]
<1>1. \A t \in [Fd -> Ends], new \in Fd : \A old : Dup2(t, old, new) \in [Fd -> Ends]
  BY DEF Dup2
<1>2. \A t \in [Fd -> Ends] : \A S : CloseNumbers(t, S) \in [Fd -> Ends]
  BY EndsFacts DEF CloseNumbers
<1>3. fdtab[c] \in [Fd -> Ends] /\ 0 \in Fd /\ 1 \in Fd
  BY Constants DEF TypeOK, Std
<1> QED
  BY <1>1, <1>2, <1>3 DEF ChildTable

\* What was true of a table stays true once a pipe() has failed.
LEMMA FailureTells ==
  ASSUME NEW t, NEW pp, NEW failed \in BOOLEAN, NEW more \in BOOLEAN, NEW m,
         AfterTurns(t, pp, failed, m)
  PROVE  AfterTurns(t, pp, failed \/ more, m)
BY DEF AfterTurns

\* The lowest process that has not been forked is not the shell.
LEMMA NextProcess ==
  ASSUME IInv, Unborn # {}
  PROVE  Min(Unborn) \in Proc \ {Shell} /\ pc[Min(Unborn)] = "unborn"
<1>1. Unborn \in SUBSET Nat
  BY Constants DEF Unborn
<1>2. Min(Unborn) \in Unborn
  BY <1>1, MinInSet
<1>3. pc[Shell] # "unborn"
  BY DEF IInv, Roles
<1> QED
  BY <1>2, <1>3 DEF Unborn

\* Forking a command gives the new child a copy of the shell's table after
\* the turn, and leaves the other processes alone.
LEMMA ForkCommandKeeps ==
  ASSUME IInv, NEW p \in Proc, ForkCommand(p)
  PROVE  IInv'
<1> DEFINE c == Min(Unborn)
           i == pos[p]
<1>1. /\ c \in Proc \ {Shell} /\ pc[c] = "unborn" /\ c # p
      /\ pc[p] = "loop" /\ i < n
  BY NextProcess DEF ForkCommand
<1>2. PICK t \in Turns(p) :
        /\ fdtab' = [fdtab EXCEPT ![p] = t.fds, ![c] = t.fds]
        /\ pipes' = [pipes EXCEPT ![p] = t.pipes, ![c] = t.pipes]
        /\ pipeFailed' = (pipeFailed \/ t.failed)
  BY DEF ForkCommand
<1>3. /\ pids'  = [pids EXCEPT ![p][i] = c, ![c] = pids[p]]
      /\ pos'   = [pos EXCEPT ![p] = i+1, ![c] = i]
      /\ pc'    = [pc EXCEPT ![c] = "setup"]
      /\ parent' = [parent EXCEPT ![c] = p]
      /\ UNCHANGED <<input, data, lone, forkFailed>>
  BY DEF ForkCommand
<1>4. /\ TypeOK /\ Roles /\ Positions /\ Recorded /\ ShellEnds /\ ChildEnds /\ Connected
  BY DEF IInv
<1>5. /\ n' = n /\ Ends' = Ends /\ line' = line /\ redirs' = redirs /\ junk' = junk
      /\ \A J : Harmless(J)' = Harmless(J)
      /\ \A tt, pp, failed, m : AfterTurns(tt, pp, failed, m)' = AfterTurns(tt, pp, failed, m)
  BY <1>3, Frozen
<1>6. n > 1 /\ n \in Nat /\ Shell \in Proc
  BY <1>1, <1>4, LineFacts, Constants DEF Roles
<1>7. /\ t.fds \in [Fd -> Ends]
      /\ t.pipes \in [0..(n-2) -> Int \X Int]
      /\ t.failed \in BOOLEAN
  BY <1>1, <1>4, TurnTyped
<1> HIDE DEF c
<1>8. i \in 0..(n-1)
  BY <1>1, <1>4, <1>6 DEF TypeOK
<1>9. /\ \A q \in Proc : fdtab'[q] = IF q \in {p, c} THEN t.fds ELSE fdtab[q]
      /\ \A q \in Proc : pipes'[q] = IF q \in {p, c} THEN t.pipes ELSE pipes[q]
      /\ \A q \in Proc : pos'[q] = IF q = c THEN i ELSE IF q = p THEN i + 1 ELSE pos[q]
      /\ \A q \in Proc : pc'[q] = IF q = c THEN "setup" ELSE pc[q]
      /\ \A q \in Proc : parent'[q] = IF q = c THEN p ELSE parent[q]
      /\ \A q \in Proc : q # c =>
            pids'[q] = IF q = p THEN [pids[p] EXCEPT ![i] = c] ELSE pids[q]
  BY <1>1, <1>2, <1>3, <1>4 DEF TypeOK
<1>10. TypeOK'
  <2>1. /\ pc' \in [Proc -> Place]
        /\ parent' \in [Proc -> Proc]
    BY <1>3, <1>4 DEF TypeOK, Place
  <2>2. pos' \in [Proc -> 0..n]
    <3>1. pos \in [Proc -> 0..n]
      BY <1>4 DEF TypeOK
    <3> HIDE DEF i
    <3>2. i \in 0..n /\ i + 1 \in 0..n
      BY <1>6, <1>8
    <3> QED
      BY <1>3, <3>1, <3>2
  <2>3. pipes' \in [Proc -> [0..(n-2) -> Int \X Int]]
    BY <1>2, <1>4, <1>7 DEF TypeOK
  <2>4. fdtab' \in [Proc -> [Fd -> Ends]]
    BY <1>2, <1>4, <1>7 DEF TypeOK
  <2>5. pids' \in [Proc -> [0..(n-1) -> Proc \cup {NoPid}]]
    <3> HIDE DEF i
    <3> QED
      BY <1>1, <1>3, <1>4, <1>8 DEF TypeOK
  <2>6. pipeFailed' \in BOOLEAN
    BY <1>2, <1>4, <1>7 DEF TypeOK
  <2> QED
    BY <1>3, <1>4, <1>5, <2>1, <2>2, <2>3, <2>4, <2>5, <2>6 DEF TypeOK, data, lone
<1>11. Roles' /\ Positions'
  BY <1>1, <1>4, <1>5, <1>6, <1>8, <1>9 DEF Roles, Positions
<1>12. Recorded'
  <2> SUFFICES ASSUME ~forkFailed, NEW d \in Proc \ {Shell},
                      parent'[d] = Shell, pc'[d] \notin {"unborn", "reaped"}
               PROVE  /\ pc'[Shell] \notin {"lone", "returned"}
                      /\ \E k \in 0..(n-1) :
                           /\ pids'[Shell][k] = d
                           /\ pc'[Shell] = "loop" => k < pos'[Shell]
                           /\ pc'[Shell] = "wait" => k >= pos'[Shell]
    BY <1>3, <1>5 DEF Recorded
  <2>1. CASE d = c
    <3>1. p = Shell
      BY <1>9, <2>1
    <3>2. pids'[Shell] = [pids[Shell] EXCEPT ![i] = c]
      BY <1>1, <1>6, <1>9, <3>1
    <3>3. pids'[Shell][i] = d
      BY <1>4, <1>6, <1>8, <2>1, <3>2 DEF TypeOK
    <3>4. pc'[Shell] = "loop" /\ pos'[Shell] = i + 1
      BY <1>1, <1>6, <1>9, <3>1
    <3> QED
      BY <1>8, <3>3, <3>4
  <2>2. CASE d # c
    <3>1. parent[d] = Shell /\ pc[d] \notin {"unborn", "reaped"} /\ pc'[Shell] = pc[Shell]
      BY <1>1, <1>6, <1>9, <2>2
    <3>2. PICK k \in 0..(n-1) : /\ pids[Shell][k] = d
                                /\ pc[Shell] = "loop" => k < pos[Shell]
                                /\ pc[Shell] = "wait" => k >= pos[Shell]
      BY <1>4, <3>1 DEF Recorded
    <3>3. pc[Shell] \notin {"lone", "returned"}
      BY <1>4, <3>1 DEF Recorded
    <3>4. CASE p = Shell
      <4>1. k < i /\ pos'[Shell] = i + 1
        BY <1>1, <1>9, <3>2, <3>4
      <4>2. pids'[Shell] = [pids[Shell] EXCEPT ![i] = c]
        BY <1>1, <1>6, <1>9, <3>4
      <4>3. pids[Shell] \in [0..(n-1) -> Proc \cup {NoPid}]
        BY <1>4, <1>6 DEF TypeOK
      <4>5. k # i
        BY <1>6, <1>8, <4>1
      <4>4. pids'[Shell][k] = d
        <5> HIDE DEF i
        <5> QED
          BY <3>2, <4>2, <4>3, <4>5
      <4> QED
        BY <1>1, <1>8, <3>1, <3>4, <4>1, <4>4
    <3>5. CASE p # Shell
      BY <1>1, <1>6, <1>9, <3>1, <3>2, <3>3, <3>5
    <3> QED
      BY <3>4, <3>5
  <2> QED
    BY <2>1, <2>2
<1>13. ShellEnds'
  <2>1. CASE p = Shell
    <3>1. AfterTurns(fdtab[Shell], pipes[Shell], pipeFailed, pos[Shell])
      BY <1>1, <1>4, <2>1 DEF ShellEnds
    <3>2. AfterTurns(t.fds, t.pipes, pipeFailed \/ t.failed, i + 1)
      BY <1>1, <1>4, <2>1, <3>1, TurnAdvances
    <3>3. /\ fdtab'[Shell] = t.fds /\ pipes'[Shell] = t.pipes /\ pos'[Shell] = i + 1
          /\ pc'[Shell] = "loop"
      BY <1>1, <1>6, <1>9, <2>1
    <3>4. AfterTurns(fdtab'[Shell], pipes'[Shell], pipeFailed', pos'[Shell])
      BY <1>2, <3>2, <3>3
    <3> QED
      BY <1>5, <1>6, <3>3, <3>4 DEF ShellEnds
  <2>2. CASE p # Shell
    <3>1. /\ fdtab'[Shell] = fdtab[Shell] /\ pipes'[Shell] = pipes[Shell]
          /\ pos'[Shell] = pos[Shell] /\ pc'[Shell] = pc[Shell]
      BY <1>1, <1>6, <1>9, <2>2
    <3>2. pc[Shell] = "loop" =>
            AfterTurns(fdtab'[Shell], pipes'[Shell], pipeFailed', pos'[Shell])
      BY <1>2, <1>4, <1>7, <3>1, FailureTells DEF ShellEnds, TypeOK
    <3>3. ShellTable' = ShellTable
      BY DEF ShellTable, Tty, Closed, End
    <3> QED
      BY <1>2, <1>3, <1>4, <1>5, <1>6, <3>1, <3>2, <3>3 DEF ShellEnds
  <2> QED
    BY <2>1, <2>2
<1>14. ChildEnds'
  <2> SUFFICES ASSUME ~pipeFailed', NEW d \in Proc \ {Shell},
                      pc'[d] = "setup", parent'[d] = Shell
               PROVE  AfterTurns(fdtab'[d], pipes'[d], FALSE, pos'[d] + 1)
    BY <1>5 DEF ChildEnds
  <2>1. ~pipeFailed /\ ~t.failed
    BY <1>2
  <2>2. CASE d = c
    <3>1. p = Shell
      BY <1>9, <2>2
    <3>2. AfterTurns(fdtab[Shell], pipes[Shell], pipeFailed, pos[Shell])
      BY <1>1, <1>4, <3>1 DEF ShellEnds
    <3>3. AfterTurns(t.fds, t.pipes, pipeFailed \/ t.failed, i + 1)
      BY <1>1, <1>4, <3>1, <3>2, TurnAdvances
    <3>4. (pipeFailed \/ t.failed) = FALSE
      BY <2>1
    <3>5. fdtab'[d] = t.fds /\ pipes'[d] = t.pipes /\ pos'[d] = i
      BY <1>1, <1>9, <2>2
    <3> QED
      BY <3>3, <3>4, <3>5
  <2>3. CASE d # c
    BY <1>1, <1>4, <1>9, <2>1, <2>3 DEF ChildEnds
  <2> QED
    BY <2>2, <2>3
<1>15. Connected'
  <2> SUFFICES ASSUME ~pipeFailed', Harmless(1..(n-2)), NEW d \in Proc,
                      pc'[d] = "run", parent'[d] = Shell
               PROVE  HoldsItsEnds(d, fdtab[d]) /\ fdtab'[d] = fdtab[d] /\ pos'[d] = pos[d]
    BY <1>5 DEF Connected, HoldsItsEnds, In, Out
  <2>1. d # c /\ d # p /\ ~pipeFailed /\ parent[d] = Shell /\ pc[d] = "run"
    BY <1>1, <1>2, <1>9
  <2> QED
    BY <1>4, <1>6, <1>9, <2>1 DEF Connected, HoldsItsEnds, In, Out
<1>16. OneChild' /\ LoneTable' /\ LoneCode' /\ StatusTells'
  BY <1>5, <1>6 DEF OneChild, LoneTable, LoneCode, StatusTells
<1> QED
  BY <1>10, <1>11, <1>12, <1>13, <1>14, <1>15, <1>16 DEF IInv

-----------------------------------------------------------------------------
(* Steps of one process. *)

\* A child's own step, that forks nothing and collects nothing, leaves alone
\* what the shell and the other children have.
LEMMA ChildMoves ==
  ASSUME IInv, NEW q \in Proc \ {Shell}, pc[q] \notin {"unborn", "reaped"},
         UNCHANGED <<input, parent, pids, pipes, failures>>,
         \A d \in Proc \ {q} : pc'[d] = pc[d] /\ fdtab'[d] = fdtab[d] /\ pos'[d] = pos[d],
         pc'[q] # "setup",
         /\ pc'[q] = "run" /\ parent[q] = Shell /\ n > 1
         /\ ~pipeFailed /\ Harmless(1..(n-2))
         => HoldsItsEnds(q, fdtab'[q]) /\ pos'[q] = pos[q]
  PROVE  Recorded' /\ ShellEnds' /\ ChildEnds' /\ Connected'
<1>1. /\ Recorded /\ ShellEnds /\ ChildEnds /\ Connected
  BY DEF IInv
<1>2. /\ n' = n /\ junk' = junk
      /\ \A J : Harmless(J)' = Harmless(J)
      /\ \A tt, pp, failed, m : AfterTurns(tt, pp, failed, m)' = AfterTurns(tt, pp, failed, m)
  BY Frozen
<1>3. /\ pc'[Shell] = pc[Shell] /\ fdtab'[Shell] = fdtab[Shell] /\ pos'[Shell] = pos[Shell]
      /\ pipes' = pipes /\ pids' = pids /\ parent' = parent
      /\ forkFailed' = forkFailed /\ pipeFailed' = pipeFailed
  BY Constants DEF failures
<1>4. Recorded'
  BY <1>1, <1>2, <1>3 DEF Recorded
<1>5. ShellTable' = ShellTable
  BY DEF ShellTable, Tty, Closed, End
<1>6. ShellEnds'
  BY <1>1, <1>2, <1>3, <1>5 DEF ShellEnds
<1>7. ChildEnds'
  BY <1>1, <1>2, <1>3 DEF ChildEnds
<1>8. Connected'
  <2> SUFFICES ASSUME n > 1, ~pipeFailed, Harmless(1..(n-2)), NEW d \in Proc,
                      pc'[d] = "run", parent[d] = Shell
               PROVE  HoldsItsEnds(d, fdtab'[d]) /\ pos'[d] = pos[d]
    BY <1>2, <1>3 DEF Connected, HoldsItsEnds, In, Out
  <2>1. CASE d = q
    BY <2>1
  <2>2. CASE d # q
    BY <1>1, <2>2 DEF Connected, HoldsItsEnds, In, Out
  <2> QED
    BY <2>1, <2>2
<1> QED
  BY <1>4, <1>6, <1>7, <1>8

\* A command that stands alone has one process at most.
LEMMA OnlyChild ==
  ASSUME IInv, n = 1,
         NEW c \in Proc \ {Shell}, pc[c] \notin {"unborn", "reaped"}
  PROVE  pc[Shell] = "waitLone" /\ LoneChild = c /\ ~forkFailed
<1>1. /\ pc[Shell] \in {"lone", "waitLone", "returned", "dead"}
      /\ ~forkFailed /\ pc[Shell] # "dead" /\ parent[c] = Shell
  BY DEF IInv, Roles, OneChild
<1>2. PICK i \in 0..(n-1) : pids[Shell][i] = c
  BY <1>1 DEF IInv, Recorded
<1>3. pc[Shell] \notin {"lone", "returned"}
  BY <1>1 DEF IInv, Recorded
<1> QED
  BY <1>1, <1>2, <1>3 DEF LoneChild

\* A command ends, in whatever way.
LEMMA ExitKeeps ==
  ASSUME IInv, NEW c \in Proc, pc[c] = "run", NEW k \in Code, Exit(c, k),
         full' \subseteq full
  PROVE  IInv'
<1>1. /\ pc' = [pc EXCEPT ![c] = "exited"]
      /\ fdtab' = [fdtab EXCEPT ![c] = AllClosed]
      /\ code' = IF n = 1 THEN k ELSE code
      /\ UNCHANGED <<input, parent, pos, pipes, pids, has, applied, status, failures>>
  BY DEF Exit
<1>2. /\ TypeOK /\ Roles /\ Positions /\ OneChild /\ LoneTable /\ LoneCode /\ StatusTells
  BY DEF IInv
<1>3. c # Shell
  BY <1>2 DEF Roles
<1>4. /\ n' = n /\ Ends' = Ends /\ line' = line /\ redirs' = redirs /\ junk' = junk /\ LoneName' = LoneName
      /\ \A d, m : InForce(d, m)' = InForce(d, m)
      /\ forkFailed' = forkFailed /\ pipeFailed' = pipeFailed
  BY <1>1, Frozen DEF failures
<1>5. /\ \A d \in Proc \ {c} : pc'[d] = pc[d] /\ fdtab'[d] = fdtab[d] /\ pos'[d] = pos[d]
      /\ pc'[c] = "exited"
  BY <1>1, <1>2 DEF TypeOK
<1>6. TypeOK'
  <2>1. AllClosed \in [Fd -> Ends]
    BY EndsFacts DEF AllClosed
  <2> QED
    BY <1>1, <1>2, <1>4, <2>1 DEF TypeOK, Place, failures
<1>7. Roles' /\ Positions'
  BY <1>1, <1>2, <1>3, <1>4, <1>5 DEF Roles, Positions
<1>8. Recorded' /\ ShellEnds' /\ ChildEnds' /\ Connected'
  BY <1>1, <1>3, <1>5, ChildMoves
<1>9. CASE n > 1
  BY <1>4, <1>6, <1>7, <1>8, <1>9 DEF IInv, OneChild, LoneTable, LoneCode, StatusTells
<1>10. CASE n = 1
  <2>1. /\ pc[Shell] = "waitLone" /\ LoneChild = c /\ ~forkFailed
    BY <1>3, <1>10, OnlyChild
  <2>2. pc'[Shell] = "waitLone" /\ LoneChild' = c
    BY <1>1, <1>3, <1>5, <2>1, Constants DEF LoneChild
  <2>3. OneChild'
    BY <1>1, <1>2, <1>3, <1>4, <1>10, <2>1, <2>2 DEF OneChild
  <2>4. LoneTable'
    BY <1>1, <1>2, <1>4, <1>5 DEF LoneTable, File, Tty, Closed, End
  <2>5. LoneCode'
    BY <1>1, <1>2, <1>4, <1>10, LineFacts DEF LoneTable, LoneCode
  <2>6. StatusTells'
    BY <2>2 DEF StatusTells
  <2> QED
    BY <1>6, <1>7, <1>8, <2>3, <2>4, <2>5, <2>6 DEF IInv
<1> QED
  BY <1>2, <1>9, <1>10, LineFacts

\* Only what is in the pipes, and in the commands' hands, changes.
LEMMA DataKeeps ==
  ASSUME IInv, UNCHANGED <<input, procs, lone, failures>>,
         full' \subseteq (Proc \X (0..(n-2))), has' \in [Proc -> BOOLEAN]
  PROVE  IInv'
<1>1. /\ n' = n /\ Ends' = Ends /\ LoneName' = LoneName
      /\ line' = line /\ redirs' = redirs /\ junk' = junk
      /\ pc' = pc /\ parent' = parent /\ pos' = pos /\ pipes' = pipes /\ pids' = pids
      /\ fdtab' = fdtab /\ applied' = applied /\ code' = code /\ status' = status
      /\ forkFailed' = forkFailed /\ pipeFailed' = pipeFailed
      /\ \A d, m : InForce(d, m)' = InForce(d, m)
      /\ \A J : Harmless(J)' = Harmless(J)
      /\ \A tt, pp, failed, m : AfterTurns(tt, pp, failed, m)' = AfterTurns(tt, pp, failed, m)
  BY Frozen DEF procs, lone, failures
<1>2. TypeOK'
  BY <1>1 DEF IInv, TypeOK
<1>3. Roles' /\ Positions' /\ Recorded' /\ ChildEnds'
  BY <1>1 DEF IInv, Roles, Positions, Recorded, ChildEnds
<1>4. ShellEnds'
  BY <1>1 DEF IInv, ShellEnds, ShellTable, Tty, Closed, End
<1>5. Connected'
  BY <1>1 DEF IInv, Connected, In, Out, Tty, Closed, End
<1>6. OneChild' /\ LoneCode' /\ StatusTells'
  BY <1>1 DEF IInv, OneChild, LoneCode, StatusTells, LoneChild
<1>7. LoneTable'
  BY <1>1 DEF IInv, LoneTable, File, Tty, Closed, End
<1> QED
  BY <1>2, <1>3, <1>4, <1>5, <1>6, <1>7 DEF IInv

\* A command does something, or a signal ends it.
LEMMA CommandKeeps ==
  ASSUME IInv, NEW c \in Proc, CommandStep(c) \/ Killed(c)
  PROVE  IInv'
<1>1. /\ full \subseteq (Proc \X (0..(n-2))) /\ has \in [Proc -> BOOLEAN]
      /\ fdtab[c] \in [Fd -> Ends]
  BY DEF IInv, TypeOK
<1>2. CASE Write(c)
  <2>1. Out(c) \in Ends
    BY <1>1, Constants DEF Out, Std
  <2>2. full' \subseteq (Proc \X (0..(n-2)))
    BY <1>1, <1>2, <2>1, EndsFacts DEF Write
  <2>3. has' \in [Proc -> BOOLEAN]
    BY <1>1, <1>2 DEF Write, Does
  <2> QED
    BY <1>2, <2>2, <2>3, DataKeeps DEF Write
<1>3. CASE WriteFails(c)
  BY <1>3, ExitKeeps DEF WriteFails, SigPipe, Exited, Code
<1>4. CASE Read(c)
  <2>1. CASE Does(c, {"cat"})
    <3>1. /\ full' = full \ {In(c).pipe} /\ has' = [has EXCEPT ![c] = TRUE]
          /\ UNCHANGED <<input, procs, lone, failures>>
      BY <1>4, <2>1 DEF Read
    <3> QED
      BY <1>1, <3>1, DataKeeps
  <2>2. CASE ~Does(c, {"cat"})
    BY <1>4, <2>2, ExitKeeps DEF Read, Does, Exited, Code
  <2> QED
    BY <2>1, <2>2
<1>5. CASE EndOfInput(c)
  BY <1>5, ExitKeeps DEF EndOfInput, Does, Exited, Code
<1>6. CASE EchoDone(c)
  BY <1>6, ExitKeeps DEF EchoDone, Does, Exited, Code
<1>7. CASE Killed(c)
  BY <1>7, ExitKeeps DEF Killed, SigInt, Code
<1> QED
  BY <1>2, <1>3, <1>4, <1>5, <1>6, <1>7 DEF CommandStep

-----------------------------------------------------------------------------
(* The rest of a pipeline of several commands. *)

\* With several commands a step that keeps these parts keeps the invariant.
LEMMA SeveralCommands ==
  ASSUME n > 1, UNCHANGED input, TypeOK', Roles', Positions', Recorded',
         ShellEnds', ChildEnds', Connected'
  PROVE  IInv'
<1>1. n' = n
  BY Frozen
<1> QED
  BY <1>1 DEF IInv, OneChild, LoneTable, LoneCode, StatusTells

\* The child wires itself to its neighbours and starts its command.
LEMMA ChildSetupKeeps ==
  ASSUME IInv, NEW c \in Proc, ChildSetup(c)
  PROVE  IInv'
<1> DEFINE k == kind(c)
           quits == k \in {"builtin", "unknown", "empty"}
<1>1. /\ pc[c] = "setup"
      /\ pc' = [pc EXCEPT ![c] = IF quits THEN "exited"
                                 ELSE IF k = "noexec" THEN "loop" ELSE "run"]
      /\ fdtab' = [fdtab EXCEPT ![c] = IF quits THEN AllClosed ELSE ChildTable(c)]
      /\ pos' = [pos EXCEPT ![c] = IF k = "noexec" THEN @ + 1 ELSE @]
      /\ has' = [has EXCEPT ![c] = k \in {"echo", "yes"}]
      /\ UNCHANGED <<input, parent, pipes, pids, full, lone, failures>>
  BY DEF ChildSetup
<1>2. TypeOK /\ Roles /\ Positions /\ ChildEnds
  BY DEF IInv
<1>3. c # Shell /\ n > 1 /\ n \in Nat /\ pos[c] < n /\ pos[c] \in 0..n
  <2>1. pos[c] \in 0..n /\ pos[c] < n
    BY <1>1, <1>2 DEF TypeOK, Positions
  <2>2. c # Shell /\ n # 1
    BY <1>1, <1>2 DEF Roles
  <2> QED
    BY <1>2, <2>1, <2>2, LineFacts
<1> HIDE DEF k
<1>4. n' = n /\ Ends' = Ends /\ line' = line /\ redirs' = redirs /\ junk' = junk
  BY <1>1, Frozen
<1>5. /\ \A d \in Proc \ {c} : pc'[d] = pc[d] /\ fdtab'[d] = fdtab[d] /\ pos'[d] = pos[d]
      /\ pc'[c] = IF quits THEN "exited" ELSE IF k = "noexec" THEN "loop" ELSE "run"
      /\ fdtab'[c] = IF quits THEN AllClosed ELSE ChildTable(c)
      /\ pos'[c] = IF k = "noexec" THEN pos[c] + 1 ELSE pos[c]
  BY <1>1, <1>2 DEF TypeOK
<1>6. TypeOK'
  <2>1. AllClosed \in [Fd -> Ends] /\ ChildTable(c) \in [Fd -> Ends]
    BY <1>2, EndsFacts, ChildTableTyped DEF AllClosed
  <2>2. fdtab' \in [Proc -> [Fd -> Ends]]
    BY <1>1, <1>2, <2>1 DEF TypeOK
  <2>3. pos' \in [Proc -> 0..n]
    <3>1. pos \in [Proc -> 0..n] /\ pos[c] + 1 \in 0..n
      BY <1>2, <1>3 DEF TypeOK
    <3> QED
      BY <1>1, <3>1
  <2>4. has' \in [Proc -> BOOLEAN]
    BY <1>1, <1>2 DEF TypeOK
  <2>5. pc' \in [Proc -> Place]
    BY <1>1, <1>2 DEF TypeOK, Place
  <2> HIDE DEF quits
  <2> QED
    BY <1>1, <1>2, <1>4, <2>2, <2>3, <2>4, <2>5 DEF TypeOK, lone, failures
<1>7. Roles' /\ Positions'
  BY <1>1, <1>2, <1>3, <1>4, <1>5 DEF Roles, Positions
<1>8. ASSUME pc'[c] = "run", parent[c] = Shell, ~pipeFailed, Harmless(1..(n-2))
      PROVE  HoldsItsEnds(c, fdtab'[c]) /\ pos'[c] = pos[c]
  <2>1. fdtab'[c] = ChildTable(c) /\ pos'[c] = pos[c]
    BY <1>5, <1>8
  <2>2. AfterTurns(fdtab[c], pipes[c], FALSE, pos[c] + 1)
    BY <1>1, <1>2, <1>3, <1>8 DEF ChildEnds
  <2> QED
    BY <1>2, <1>3, <1>8, <2>1, <2>2, ChildConnected
<1>9. Recorded' /\ ShellEnds' /\ ChildEnds' /\ Connected'
  <2>1. UNCHANGED <<input, parent, pids, pipes, failures>> /\ pc'[c] # "setup"
    BY <1>1, <1>5
  <2> QED
    BY <1>1, <1>3, <1>5, <1>8, <2>1, ChildMoves
<1> QED
  BY <1>1, <1>3, <1>6, <1>7, <1>9, SeveralCommands

\* When fork fails the process gives up where it stands, its pipes still open.
LEMMA ForkFailsKeeps ==
  ASSUME IInv, NEW p \in Proc, ForkFails(p)
  PROVE  IInv'
<1>1. PICK t \in Turns(p) :
        /\ fdtab' = [fdtab EXCEPT ![p] = t.fds]
        /\ pipes' = [pipes EXCEPT ![p] = t.pipes]
        /\ pipeFailed' = (pipeFailed \/ t.failed)
  BY DEF ForkFails
<1>2. /\ pc[p] = "loop" /\ pos[p] < n
      /\ pc' = [pc EXCEPT ![p] = "returned"]
      /\ forkFailed' = TRUE
      /\ status' = IF p = Shell THEN -1 ELSE status
      /\ UNCHANGED <<input, data, parent, pos, pids, applied, code>>
  BY DEF ForkFails
<1>3. TypeOK /\ Roles /\ Positions /\ ShellEnds /\ ChildEnds /\ Connected
  BY DEF IInv
<1>4. n > 1 /\ n \in Nat
  BY <1>2, <1>3, LineFacts DEF Roles
<1>5. /\ n' = n /\ Ends' = Ends /\ line' = line /\ redirs' = redirs /\ junk' = junk
      /\ \A J : Harmless(J)' = Harmless(J)
      /\ \A tt, pp, failed, m : AfterTurns(tt, pp, failed, m)' = AfterTurns(tt, pp, failed, m)
  BY <1>2, Frozen
<1>6. /\ t.fds \in [Fd -> Ends]
      /\ t.pipes \in [0..(n-2) -> Int \X Int]
      /\ t.failed \in BOOLEAN
  BY <1>2, <1>3, TurnTyped
<1>7. /\ \A d \in Proc \ {p} :
            pc'[d] = pc[d] /\ fdtab'[d] = fdtab[d] /\ pipes'[d] = pipes[d]
      /\ pc'[p] = "returned"
  BY <1>1, <1>2, <1>3 DEF TypeOK
<1>8. TypeOK'
  BY <1>1, <1>2, <1>3, <1>5, <1>6 DEF TypeOK, Place, data
<1>9. Roles' /\ Positions' /\ Recorded'
  BY <1>2, <1>3, <1>4, <1>5, <1>7 DEF Roles, Positions, Recorded
<1>10. ShellEnds'
  <2>1. CASE p = Shell
    BY <1>2, <1>4, <1>5, <1>7, <2>1 DEF ShellEnds
  <2>2. CASE p # Shell
    <3>1. /\ pc'[Shell] = pc[Shell] /\ fdtab'[Shell] = fdtab[Shell]
          /\ pipes'[Shell] = pipes[Shell] /\ pos'[Shell] = pos[Shell]
      BY <1>2, <1>7, <2>2, Constants
    <3>2. pc[Shell] = "loop" =>
            AfterTurns(fdtab'[Shell], pipes'[Shell], pipeFailed', pos'[Shell])
      BY <1>1, <1>3, <1>6, <3>1, FailureTells DEF ShellEnds, TypeOK
    <3> QED
      BY <1>2, <1>4, <1>5, <3>1, <3>2 DEF ShellEnds
  <2> QED
    BY <2>1, <2>2
<1>11. ChildEnds'
  BY <1>1, <1>2, <1>3, <1>5, <1>7 DEF ChildEnds
<1>12. Connected'
  <2> SUFFICES ASSUME ~pipeFailed', Harmless(1..(n-2)), NEW d \in Proc,
                      pc'[d] = "run", parent[d] = Shell
               PROVE  HoldsItsEnds(d, fdtab[d]) /\ fdtab'[d] = fdtab[d]
    BY <1>2, <1>5 DEF Connected, HoldsItsEnds, In, Out
  <2>1. d # p /\ ~pipeFailed
    BY <1>1, <1>7
  <2> QED
    BY <1>3, <1>4, <1>7, <2>1 DEF Connected, HoldsItsEnds, In, Out
<1> QED
  BY <1>2, <1>4, <1>8, <1>9, <1>10, <1>11, <1>12, SeveralCommands

\* The shell closes the ends it holds before it waits.
LEMMA CloseEndsKeeps ==
  ASSUME IInv, NEW p \in Proc, CloseEnds(p)
  PROVE  IInv'
<1> DEFINE t == CloseNumbers(fdtab[p], Numbers(p))
<1>1. /\ pc[p] = "loop" /\ pos[p] = n
      /\ fdtab' = [fdtab EXCEPT ![p] = t]
      /\ pc' = [pc EXCEPT ![p] = "wait"]
      /\ pos' = [pos EXCEPT ![p] = 0]
      /\ UNCHANGED <<input, parent, pipes, pids, data, lone, failures>>
  BY DEF CloseEnds
<1>2. TypeOK /\ Roles /\ Positions /\ Recorded /\ ShellEnds /\ ChildEnds /\ Connected
  BY DEF IInv
<1>3. n > 1 /\ n \in Nat
  BY <1>1, <1>2, LineFacts DEF Roles
<1>4. /\ n' = n /\ Ends' = Ends /\ line' = line /\ redirs' = redirs /\ junk' = junk
      /\ \A J : Harmless(J)' = Harmless(J)
      /\ \A tt, pp, failed, m : AfterTurns(tt, pp, failed, m)' = AfterTurns(tt, pp, failed, m)
  BY <1>1, Frozen
<1>5. t \in [Fd -> Ends]
  BY <1>2, EndsFacts DEF TypeOK, CloseNumbers
<1> HIDE DEF t
<1>6. /\ \A d \in Proc \ {p} : pc'[d] = pc[d] /\ fdtab'[d] = fdtab[d] /\ pos'[d] = pos[d]
      /\ pc'[p] = "wait" /\ fdtab'[p] = t /\ pos'[p] = 0
  BY <1>1, <1>2 DEF TypeOK
<1>7. TypeOK'
  <2>1. pos' \in [Proc -> 0..n]
    BY <1>1, <1>2, <1>3 DEF TypeOK
  <2>2. pc' \in [Proc -> Place] /\ fdtab' \in [Proc -> [Fd -> Ends]]
    BY <1>1, <1>2, <1>5 DEF TypeOK, Place
  <2> QED
    BY <1>1, <1>2, <1>4, <2>1, <2>2 DEF TypeOK, data, lone, failures
<1>8. Roles' /\ Positions'
  <2>1. Roles'
    BY <1>2, <1>3, <1>4, <1>6, Constants DEF Roles
  <2>2. Positions'
    BY <1>2, <1>4, <1>6 DEF Positions
  <2> QED
    BY <2>1, <2>2
<1>9. CASE p = Shell
  <2>1. Recorded'
    BY <1>1, <1>2, <1>4, <1>6, <1>9 DEF Recorded, failures
  <2>2. ShellEnds'
    <3>1. ~pipeFailed \/ Harmless(0..(n-2)) => t = ShellTable
      BY <1>1, <1>2, <1>9, EndsClosed DEF ShellEnds, t
    <3>2. ShellTable' = ShellTable
      BY DEF ShellTable, Tty, Closed, End
    <3> QED
      BY <1>1, <1>3, <1>4, <1>6, <1>9, <3>1, <3>2 DEF ShellEnds, failures
  <2>3. ChildEnds'
    BY <1>1, <1>2, <1>4, <1>6, <1>9 DEF ChildEnds, failures
  <2>4. Connected'
    <3> SUFFICES ASSUME ~pipeFailed, Harmless(1..(n-2)), NEW d \in Proc,
                        pc'[d] = "run", parent[d] = Shell
                 PROVE  HoldsItsEnds(d, fdtab[d]) /\ fdtab'[d] = fdtab[d] /\ pos'[d] = pos[d]
      BY <1>1, <1>4 DEF Connected, HoldsItsEnds, In, Out, failures
    <3> QED
      BY <1>2, <1>3, <1>6 DEF Connected, HoldsItsEnds, In, Out
  <2> QED
    BY <1>1, <1>3, <1>7, <1>8, <2>1, <2>2, <2>3, <2>4, SeveralCommands
<1>10. CASE p # Shell
  <2>1. UNCHANGED <<input, parent, pids, pipes, failures>>
    BY <1>1
  <2>2. Recorded' /\ ShellEnds' /\ ChildEnds' /\ Connected'
    BY <1>1, <1>6, <1>10, <2>1, ChildMoves
  <2> QED
    BY <1>1, <1>3, <1>7, <1>8, <2>2, SeveralCommands
<1> QED
  BY <1>9, <1>10

\* The shell takes one child's status.
LEMMA WaitKeeps ==
  ASSUME IInv, NEW p \in Proc, Wait(p)
  PROVE  IInv'
<1>0. PICK x : x = pids[p][pos[p]]
  OBVIOUS
<1>1. /\ pc[p] = "wait" /\ pos[p] < n
      /\ pos' = [pos EXCEPT ![p] = @ + 1]
      /\ UNCHANGED <<input, parent, pipes, pids, fdtab, data, lone, failures>>
  BY DEF Wait
<1>2. TypeOK /\ Roles /\ Positions /\ Recorded /\ ShellEnds /\ ChildEnds /\ Connected
  BY DEF IInv
<1>3. n > 1 /\ n \in Nat /\ pos[p] \in 0..(n-1)
  <2>1. pos[p] \in 0..n
    BY <1>2 DEF TypeOK
  <2> QED
    BY <1>1, <1>2, <2>1, LineFacts DEF Roles
<1>4. /\ n' = n /\ Ends' = Ends /\ line' = line /\ redirs' = redirs /\ junk' = junk
      /\ \A J : Harmless(J)' = Harmless(J)
      /\ \A tt, pp, failed, m : AfterTurns(tt, pp, failed, m)' = AfterTurns(tt, pp, failed, m)
  BY <1>1, Frozen
\* What waitpid did: it collected an exited child, or nothing.
<1>5. \/ \E y \in Proc \ {Shell} : /\ pc[y] = "exited" /\ parent[y] = p
                                   /\ pc' = [pc EXCEPT ![y] = "reaped"]
                                   /\ x # NoPid => y = x
      \/ /\ pc' = pc
         /\ x # NoPid => parent[x] # p \/ pc[x] = "reaped"
  <2>1. x \in Proc \cup {NoPid}
    BY <1>0, <1>2, <1>3 DEF TypeOK
  <2>2. pc[Shell] # "exited"
    BY <1>2, <1>3 DEF Roles
  <2> QED
    BY <1>0, <2>1, <2>2 DEF Wait
<1>6. /\ \A d \in Proc : pc'[d] = pc[d] \/ (d # Shell /\ pc[d] = "exited" /\ pc'[d] = "reaped")
      /\ \A d \in Proc \ {p} : pos'[d] = pos[d]
      /\ pos'[p] = pos[p] + 1
      /\ \A d \in Proc \ {Shell} : x = d /\ parent[d] = p => pc'[d] = "reaped"
      /\ pc' \in [Proc -> Place]
  <2>1. pc \in [Proc -> Place] /\ pos \in [Proc -> 0..n] /\ "reaped" \in Place
    BY <1>2 DEF TypeOK, Place
  <2>2. (\A d \in Proc \ {p} : pos'[d] = pos[d]) /\ pos'[p] = pos[p] + 1
    BY <1>1, <2>1
  <2>3. CASE \E y \in Proc \ {Shell} : /\ pc[y] = "exited" /\ parent[y] = p
                                       /\ pc' = [pc EXCEPT ![y] = "reaped"]
                                       /\ x # NoPid => y = x
    <3>1. PICK y \in Proc \ {Shell} : /\ pc[y] = "exited" /\ parent[y] = p
                                      /\ pc' = [pc EXCEPT ![y] = "reaped"]
                                      /\ x # NoPid => y = x
      BY <2>3
    <3> QED
      BY <2>1, <2>2, <3>1, Constants
  <2>4. CASE pc' = pc /\ (x # NoPid => parent[x] # p \/ pc[x] = "reaped")
    BY <2>1, <2>2, <2>4, Constants
  <2> QED
    BY <1>5, <2>3, <2>4
<1>7. TypeOK'
  <2>1. pc' \in [Proc -> Place]
    BY <1>6
  <2>2. pos' \in [Proc -> 0..n]
    <3>1. pos \in [Proc -> 0..n] /\ pos[p] + 1 \in 0..n
      BY <1>2, <1>3 DEF TypeOK
    <3> QED
      BY <1>1, <3>1
  <2> QED
    BY <1>1, <1>2, <1>4, <2>1, <2>2 DEF TypeOK, data, lone, failures
<1>8. Roles' /\ Positions'
  <2>1. pc'[Shell] = pc[Shell]
    BY <1>6, Constants
  <2> QED
    BY <1>1, <1>2, <1>3, <1>4, <1>6, <2>1 DEF Roles, Positions
<1>9. Recorded'
  <2> SUFFICES ASSUME ~forkFailed, NEW d \in Proc \ {Shell},
                      parent[d] = Shell, pc'[d] \notin {"unborn", "reaped"}
               PROVE  /\ pc'[Shell] \notin {"lone", "returned"}
                      /\ \E k \in 0..(n-1) :
                           /\ pids[Shell][k] = d
                           /\ pc'[Shell] = "loop" => k < pos'[Shell]
                           /\ pc'[Shell] = "wait" => k >= pos'[Shell]
    BY <1>1, <1>4 DEF Recorded, failures
  <2>1. pc[d] \notin {"unborn", "reaped"} /\ pc'[Shell] = pc[Shell]
    BY <1>6, Constants
  <2>2. PICK k \in 0..(n-1) : /\ pids[Shell][k] = d
                              /\ pc[Shell] = "loop" => k < pos[Shell]
                              /\ pc[Shell] = "wait" => k >= pos[Shell]
    BY <1>2, <2>1 DEF Recorded
  <2>3. pc[Shell] \notin {"lone", "returned"}
    BY <1>2, <2>1 DEF Recorded
  <2>4. CASE p # Shell
    BY <1>6, <2>1, <2>2, <2>3, <2>4, Constants
  <2>5. CASE p = Shell
    <3>1. k # pos[Shell]
      <4> SUFFICES ASSUME k = pos[Shell] PROVE FALSE
        OBVIOUS
      <4>1. x = d /\ x # NoPid
        BY <1>0, <2>2, <2>5, Constants
      <4>2. pc'[d] = "reaped"
        BY <1>6, <2>5, <4>1
      <4> QED
        BY <4>2
    <3>2. k >= pos[Shell] + 1
      BY <1>1, <1>3, <2>2, <2>5, <3>1
    <3> QED
      BY <1>1, <1>6, <2>1, <2>2, <2>5, <3>2
  <2> QED
    BY <2>4, <2>5
<1>10. ShellEnds'
  <2>1. /\ pc'[Shell] = pc[Shell] /\ fdtab' = fdtab /\ pipes' = pipes
        /\ pc[Shell] = "loop" => pos'[Shell] = pos[Shell]
        /\ forkFailed' = forkFailed /\ pipeFailed' = pipeFailed
        /\ ShellTable' = ShellTable
    BY <1>1, <1>6, Constants DEF failures, ShellTable, Tty, Closed, End
  <2> QED
    BY <1>2, <1>4, <2>1 DEF ShellEnds
<1>11. ChildEnds'
  BY <1>1, <1>2, <1>4, <1>6 DEF ChildEnds, failures
<1>12. Connected'
  <2> SUFFICES ASSUME ~pipeFailed, Harmless(1..(n-2)), NEW d \in Proc,
                      pc'[d] = "run", parent[d] = Shell
               PROVE  HoldsItsEnds(d, fdtab[d]) /\ pos'[d] = pos[d]
    BY <1>1, <1>4 DEF Connected, HoldsItsEnds, In, Out, failures
  <2> QED
    BY <1>1, <1>2, <1>3, <1>6 DEF Connected, HoldsItsEnds, In, Out
<1> QED
  BY <1>1, <1>3, <1>7, <1>8, <1>9, <1>10, <1>11, <1>12, SeveralCommands

\* The shell goes back to its caller with the last command's status.
LEMMA ReturnKeeps ==
  ASSUME IInv, NEW p \in Proc, Return(p)
  PROVE  IInv'
<1>1. /\ pc[p] = "wait" /\ pos[p] = n
      /\ pc' = [pc EXCEPT ![p] = "returned"]
      /\ UNCHANGED <<input, parent, pos, pipes, pids, fdtab, data, lone, failures>>
  BY DEF Return
<1>2. TypeOK /\ Roles /\ Positions /\ Recorded /\ ShellEnds /\ ChildEnds /\ Connected
  BY DEF IInv
<1>3. n > 1 /\ n \in Nat
  BY <1>1, <1>2, LineFacts DEF Roles
<1>4. /\ n' = n /\ Ends' = Ends /\ line' = line /\ redirs' = redirs /\ junk' = junk
      /\ \A J : Harmless(J)' = Harmless(J)
      /\ \A tt, pp, failed, m : AfterTurns(tt, pp, failed, m)' = AfterTurns(tt, pp, failed, m)
  BY <1>1, Frozen
<1>5. /\ \A d \in Proc \ {p} : pc'[d] = pc[d]
      /\ pc'[p] = "returned"
  BY <1>1, <1>2 DEF TypeOK
<1>6. TypeOK'
  <2>1. pc' \in [Proc -> Place]
    BY <1>1, <1>2 DEF TypeOK, Place
  <2> QED
    BY <1>1, <1>2, <1>4, <2>1 DEF TypeOK, data, lone, failures
<1>7. Roles' /\ Positions'
  BY <1>1, <1>2, <1>3, <1>4, <1>5 DEF Roles, Positions
<1>8. CASE p = Shell
  \* Every entry of pids[] has been waited for.
  <2>1. Recorded'
    <3>1. \A d \in Proc \ {Shell} :
            parent[d] = Shell /\ ~forkFailed => pc[d] \in {"unborn", "reaped"}
      BY <1>1, <1>2, <1>3, <1>8 DEF Recorded
    <3> QED
      BY <1>1, <1>5, <1>8, <3>1 DEF Recorded, failures
  <2>2. ShellEnds'
    <3>1. ShellTable' = ShellTable
      BY DEF ShellTable, Tty, Closed, End
    <3> QED
      BY <1>1, <1>2, <1>3, <1>4, <1>5, <1>8, <3>1 DEF ShellEnds, failures
  <2>3. ChildEnds' /\ Connected'
    <3>1. ChildEnds'
      BY <1>1, <1>2, <1>4, <1>5, <1>8 DEF ChildEnds, failures
    <3>2. Connected'
      <4> SUFFICES ASSUME ~pipeFailed, Harmless(1..(n-2)), NEW d \in Proc,
                          pc'[d] = "run", parent[d] = Shell
                   PROVE  HoldsItsEnds(d, fdtab[d])
        BY <1>1, <1>4 DEF Connected, HoldsItsEnds, In, Out, failures
      <4> QED
        BY <1>2, <1>3, <1>5 DEF Connected, HoldsItsEnds, In, Out
    <3> QED
      BY <3>1, <3>2
  <2> QED
    BY <1>1, <1>3, <1>6, <1>7, <2>1, <2>2, <2>3, SeveralCommands
<1>9. CASE p # Shell
  <2>1. Recorded' /\ ShellEnds' /\ ChildEnds' /\ Connected'
    BY <1>1, <1>5, <1>9, ChildMoves
  <2> QED
    BY <1>1, <1>3, <1>6, <1>7, <2>1, SeveralCommands
<1> QED
  BY <1>8, <1>9

-----------------------------------------------------------------------------
(* A command that stands alone. *)

\* With one command nothing is said that concerns several.
LEMMA OneCommand ==
  ASSUME n = 1, UNCHANGED input, TypeOK', Roles', Positions', Recorded', ShellEnds',
         OneChild', LoneTable', LoneCode', StatusTells'
  PROVE  IInv'
<1>1. n' = 1
  BY Frozen
<1>2. ChildEnds'
  BY <1>1 DEF Roles, ChildEnds
<1>3. Connected'
  BY <1>1 DEF Connected
<1> QED
  BY <1>2, <1>3 DEF IInv

\* Who stands in "lone", "redirect" and so on stands alone.
LEMMA LoneFacts ==
  ASSUME IInv, pc[Shell] \in {"lone", "waitLone", "dead"} \/
               \E c \in Proc : pc[c] = "redirect"
  PROVE  n = 1
<1>1. CASE pc[Shell] \in {"lone", "waitLone", "dead"}
  BY <1>1 DEF IInv, Roles
<1>2. CASE \E c \in Proc : pc[c] = "redirect"
  BY <1>2 DEF IInv, Roles
<1> QED
  BY <1>1, <1>2

\* Before the shell has forked it has no child.
LEMMA NoChild ==
  ASSUME IInv, n = 1, pc[Shell] \in {"lone", "returned", "dead"}
  PROVE  \A c \in Proc \ {Shell} : pc[c] \in {"unborn", "reaped"}
BY OnlyChild

\* A builtin that stands alone runs in the shell, which forks nothing.
LEMMA RunInShellKeeps ==
  ASSUME IInv, RunInShell
  PROVE  IInv'
<1>1. /\ pc[Shell] = "lone" /\ LoneName \in {"empty", "builtin"}
      /\ pc' = [pc EXCEPT ![Shell] = "returned"]
      /\ status' \in {-1, 0, 1}
      /\ UNCHANGED <<input, parent, pos, pipes, pids, fdtab, data, applied, code, failures>>
  BY DEF RunInShell
<1>2. TypeOK /\ Roles /\ Positions /\ ShellEnds /\ OneChild
  BY DEF IInv
<1>3. n = 1
  BY <1>1, LoneFacts
<1>4. /\ n' = n /\ Ends' = Ends /\ line' = line /\ redirs' = redirs /\ junk' = junk /\ LoneName' = LoneName
      /\ ShellTable' = ShellTable
  BY <1>1, Frozen DEF ShellTable, Tty, Closed, End
<1>5. /\ \A d \in Proc \ {Shell} : pc'[d] = pc[d]
      /\ pc'[Shell] = "returned"
  BY <1>1, <1>2, Constants DEF TypeOK
<1>6. \A d \in Proc \ {Shell} : pc'[d] \in {"unborn", "reaped"}
  BY <1>1, <1>3, <1>5, NoChild
<1>7. TypeOK'
  <2>1. pc' \in [Proc -> Place]
    BY <1>1, <1>2 DEF TypeOK, Place
  <2>2. status' \in -1..255
    BY <1>1
  <2> QED
    BY <1>1, <1>2, <1>4, <2>1, <2>2 DEF TypeOK, data, failures
<1>8. Roles' /\ Positions' /\ Recorded'
  <2>1. Roles' /\ Recorded'
    BY <1>3, <1>4, <1>5, <1>6 DEF Roles, Recorded
  <2>2. Positions'
    BY <1>1, <1>2, <1>4, <1>5, <1>6 DEF Positions
  <2> QED
    BY <2>1, <2>2
<1>9. ShellEnds'
  BY <1>1, <1>2, <1>3, <1>4, <1>5 DEF ShellEnds
<1>10. OneChild'
  BY <1>1, <1>2, <1>3, <1>4, <1>5 DEF OneChild, failures
<1>11. LoneTable' /\ LoneCode'
  BY <1>5, <1>6 DEF LoneTable, LoneCode
<1>12. StatusTells'
  BY <1>1, <1>4 DEF StatusTells
<1> QED
  BY <1>1, <1>3, <1>7, <1>8, <1>9, <1>10, <1>11, <1>12, OneCommand

\* A single command is forked with the shell's own table.
LEMMA ForkLoneKeeps ==
  ASSUME IInv, ForkLone
  PROVE  IInv'
<1> DEFINE c == Min(Unborn)
<1>1. /\ pc[Shell] = "lone" /\ LoneName \notin {"empty", "builtin"}
      /\ c \in Proc \ {Shell} /\ pc[c] = "unborn"
      /\ fdtab' = [fdtab EXCEPT ![c] = fdtab[Shell]]
      /\ pids' = [pids EXCEPT ![Shell][0] = c]
      /\ parent' = [parent EXCEPT ![c] = Shell]
      /\ pc' = [pc EXCEPT ![Shell] = "waitLone", ![c] = "redirect"]
      /\ UNCHANGED <<input, pos, pipes, data, lone, failures>>
  BY NextProcess DEF ForkLone
<1>2. TypeOK /\ Roles /\ Positions /\ ShellEnds /\ OneChild
  BY DEF IInv
<1>3. n = 1
  BY <1>1, LoneFacts
<1> HIDE DEF c
<1>4. /\ n' = n /\ Ends' = Ends /\ line' = line /\ redirs' = redirs /\ junk' = junk /\ LoneName' = LoneName
      /\ ShellTable' = ShellTable
      /\ \A d, m : InForce(d, m)' = InForce(d, m)
  BY <1>1, Frozen DEF ShellTable, Tty, Closed, End
<1>5. /\ \A d \in Proc \ {Shell, c} : pc'[d] = pc[d]
      /\ pc'[Shell] = "waitLone" /\ pc'[c] = "redirect"
      /\ fdtab'[Shell] = fdtab[Shell] /\ fdtab'[c] = fdtab[Shell]
      /\ \A d \in Proc : parent'[d] = Shell
      /\ pids'[Shell][0] = c
  BY <1>1, <1>2, <1>3, Constants DEF TypeOK, OneChild
<1>6. \A d \in Proc \ {Shell, c} : pc'[d] \in {"unborn", "reaped"}
  BY <1>1, <1>3, <1>5, NoChild
<1>7. TypeOK'
  <2>1. pc' \in [Proc -> Place] /\ parent' \in [Proc -> Proc]
    BY <1>1, <1>2, Constants DEF TypeOK, Place
  <2>2. fdtab' \in [Proc -> [Fd -> Ends]]
    BY <1>1, <1>2, Constants DEF TypeOK
  <2>3. pids' \in [Proc -> [0..(n-1) -> Proc \cup {NoPid}]]
    BY <1>1, <1>2, Constants DEF TypeOK
  <2> QED
    BY <1>1, <1>2, <1>4, <2>1, <2>2, <2>3 DEF TypeOK, data, lone, failures
<1>8. Roles' /\ Positions'
  <2>1. Roles'
    <3>1. \A d \in Proc \ {Shell} : pc'[d] \in {"unborn", "reaped", "redirect"}
      BY <1>5, <1>6
    <3> QED
      BY <1>3, <1>4, <1>5, <3>1 DEF Roles
  <2>2. Positions'
    BY <1>1, <1>2, <1>4, <1>5 DEF Positions
  <2> QED
    BY <2>1, <2>2
<1>9. Recorded'
  <2>1. \A d \in Proc \ {Shell} : pc'[d] \notin {"unborn", "reaped"} => pids'[Shell][0] = d
    BY <1>5, <1>6
  <2>2. 0 \in 0..(n'-1)
    BY <1>3, <1>4
  <2> QED
    BY <1>5, <2>1, <2>2 DEF Recorded
<1>10. ShellEnds'
  BY <1>1, <1>2, <1>3, <1>4, <1>5 DEF ShellEnds
<1>11. OneChild'
  BY <1>1, <1>2, <1>3, <1>4, <1>5 DEF OneChild, failures, LoneChild
\* The child starts with the shell's three numbers, and none above.
<1>12. LoneTable'
  <2> SUFFICES ASSUME NEW d \in Proc, pc'[d] \in {"redirect", "run"}
               PROVE  /\ \A k \in Std : fdtab'[d][k] = Tty
                      /\ \A f \in Fd : f >= 3 => fdtab'[d][f] = Closed
                      /\ pc'[d] # "run"
    <3>1. applied = 0 /\ applied' = 0
      BY <1>1, <1>2, <1>3 DEF OneChild, lone
    <3>2. \A k : TargetsUpTo(k, 0) = {}
      BY DEF TargetsUpTo
    <3>3. \A k : InForce(k, applied)' = Tty
      BY <1>4, <3>1, <3>2 DEF InForce
    <3> QED
      BY <1>4, <3>1, <3>3 DEF LoneTable, Tty, Closed, End
  <2>1. d = c
    BY <1>5, <1>6
  <2>2. fdtab'[d] = ShellTable
    BY <1>2, <1>3, <1>5, <2>1 DEF ShellEnds
  <2>3. \A k \in Std : ShellTable[k] = Tty
    BY Constants DEF ShellTable
  <2>4. \A f \in Fd : f >= 3 => ShellTable[f] = Closed
    BY Constants DEF ShellTable, Std
  <2> QED
    BY <1>5, <2>1, <2>2, <2>3, <2>4
<1>13. LoneCode'
  BY <1>5, <1>6 DEF LoneCode
<1>14. StatusTells'
  BY <1>5 DEF StatusTells
<1> QED
  BY <1>1, <1>3, <1>7, <1>8, <1>9, <1>10, <1>11, <1>12, <1>13, <1>14, OneCommand

\* When fork fails for a single command the shell ends.
LEMMA ForkLoneFailsKeeps ==
  ASSUME IInv, ForkLoneFails
  PROVE  IInv'
<1>1. /\ pc[Shell] = "lone"
      /\ pc' = [pc EXCEPT ![Shell] = "dead"]
      /\ forkFailed' = TRUE
      /\ UNCHANGED <<input, parent, pos, pipes, pids, fdtab, data, lone, pipeFailed>>
  BY DEF ForkLoneFails
<1>2. TypeOK /\ Roles /\ Positions /\ ShellEnds /\ OneChild
  BY DEF IInv
<1>3. n = 1
  BY <1>1, LoneFacts
<1>4. /\ n' = n /\ Ends' = Ends /\ line' = line /\ redirs' = redirs /\ junk' = junk /\ LoneName' = LoneName
      /\ ShellTable' = ShellTable
  BY <1>1, Frozen DEF ShellTable, Tty, Closed, End
<1>5. /\ \A d \in Proc \ {Shell} : pc'[d] = pc[d]
      /\ pc'[Shell] = "dead"
  BY <1>1, <1>2, Constants DEF TypeOK
<1>6. \A d \in Proc \ {Shell} : pc'[d] \in {"unborn", "reaped"}
  BY <1>1, <1>3, <1>5, NoChild
<1>7. TypeOK'
  <2>1. pc' \in [Proc -> Place]
    BY <1>1, <1>2 DEF TypeOK, Place
  <2> QED
    BY <1>1, <1>2, <1>4, <2>1 DEF TypeOK, data, lone
<1>8. Roles' /\ Positions' /\ Recorded'
  BY <1>1, <1>2, <1>3, <1>4, <1>5, <1>6 DEF Roles, Positions, Recorded
<1>9. ShellEnds'
  BY <1>1, <1>2, <1>3, <1>4, <1>5 DEF ShellEnds
<1>10. OneChild'
  BY <1>1, <1>2, <1>3, <1>4, <1>5, <1>6 DEF OneChild
<1>11. LoneTable' /\ LoneCode'
  BY <1>5, <1>6 DEF LoneTable, LoneCode
<1>12. StatusTells'
  BY <1>5 DEF StatusTells
<1> QED
  BY <1>1, <1>3, <1>7, <1>8, <1>9, <1>10, <1>11, <1>12, OneCommand

\* open() takes the lowest free number, which is above the standard ones and
\* at most one more than there are files.
LEMMA LowestFree ==
  ASSUME NEW t \in [Fd -> Ends], NEW m \in Nat, m + 2 < MaxFd,
         \A d \in Std : t[d] # Closed,
         \A f \in Fd : f >= 3 + m => t[f] = Closed
  PROVE  /\ Min(Free(t)) \in Fd \ Std /\ Min(Free(t)) =< 3 + m
         /\ t[Min(Free(t))] = Closed
<1>1. 3 + m \in Fd
  BY Constants DEF Fd
<1>2. 3 + m \in Free(t) /\ Free(t) \in SUBSET Nat /\ Free(t) \in SUBSET Fd
  <2>1. t[3 + m] = Closed
    BY <1>1
  <2> QED
    BY <1>1, <2>1, Constants DEF Free
<1>3. Min(Free(t)) \in Free(t) /\ Min(Free(t)) =< 3 + m
  BY <1>2, MinInSet
<1> QED
  BY <1>2, <1>3 DEF Free

\* One redirection more: the last one that is in force for a number wins.
LEMMA NextTarget ==
  ASSUME TypeOK, NEW m \in Nat, m < Len(redirs), NEW d
  PROVE  InForce(d, m + 1) = IF (m + 1) \in Targets(d) THEN File(m + 1) ELSE InForce(d, m)
<1>1. m + 1 \in DOMAIN redirs /\ DOMAIN redirs = 1..Len(redirs) /\ Len(redirs) \in Nat
  BY LineFacts
<1>2. CASE (m + 1) \in Targets(d)
  <2>1. TargetsUpTo(d, m + 1) \in SUBSET (1..(m+1)) /\ (m + 1) \in TargetsUpTo(d, m + 1)
    BY <1>2 DEF TargetsUpTo
  <2>2. Max(TargetsUpTo(d, m + 1)) = m + 1
    <3>1. /\ Max(TargetsUpTo(d, m + 1)) \in 1..(m+1)
          /\ m + 1 =< Max(TargetsUpTo(d, m + 1))
      <4>1. m + 1 \in Nat
        OBVIOUS
      <4> QED
        BY <2>1, <4>1, MaxInSet
    <3> QED
      BY <3>1
  <2> QED
    BY <1>2, <2>1, <2>2 DEF InForce
<1>3. CASE (m + 1) \notin Targets(d)
  <2>1. TargetsUpTo(d, m + 1) = TargetsUpTo(d, m)
    BY <1>3 DEF TargetsUpTo
  <2> QED
    BY <1>3, <2>1 DEF InForce
<1> QED
  BY <1>2, <1>3

\* open, dup2 and close put the file on the number of the redirection, when
\* it is one of its mode's, and take at most one number more.
LEMMA RedirectedTable ==
  ASSUME TypeOK, NEW m \in Nat, m < Len(redirs), NEW t \in [Fd -> Ends],
         ~Refused(redirs[m + 1]),
         \A d \in Std : t[d] = InForce(d, m),
         \A f \in Fd : f >= 3 + m => t[f] = Closed
  PROVE  LET u == Redirected(t, redirs[m + 1], m + 1) IN
         /\ u \in [Fd -> Ends]
         /\ \A d \in Std : u[d] = InForce(d, m + 1)
         /\ \A f \in Fd : f >= 3 + (m + 1) => u[f] = Closed
<1> DEFINE r == redirs[m + 1]
           f == Min(Free(t))
           o == [t EXCEPT ![f] = File(m + 1)]
           u == Redirected(t, r, m + 1)
<1>1. /\ r \in Redirect /\ r.fd \in Nat /\ r.opens \in BOOLEAN
      /\ m + 1 \in DOMAIN redirs /\ m + 2 < MaxFd
  <2>1. redirs \in Seq(Redirect) /\ m + 1 \in 1..Len(redirs) /\ Len(redirs) + 2 =< MaxFd
        /\ MaxFd \in Nat /\ Len(redirs) \in Nat
    BY LineFacts, Constants
  <2>2. r \in Redirect
    BY <2>1
  <2> QED
    BY <2>1, <2>2 DEF Redirect
<1>2. \A d \in Std : t[d] # Closed
  BY EndFacts DEF InForce
<1>3. f \in Fd \ Std /\ f =< 3 + m /\ t[f] = Closed
  BY <1>1, <1>2, LowestFree
<1>4. \A d \in Std : InForce(d, m + 1) = IF (m + 1) \in Targets(d) THEN File(m + 1)
                                        ELSE InForce(d, m)
  BY NextTarget
<1>5. \A d \in Std : (m + 1) \in Targets(d) <=> r.opens /\ r.fd = d /\ d \in Moves(r)
  BY <1>1 DEF Targets
<1>6. File(m + 1) \in Ends /\ File(m + 1) # Closed /\ Closed \in Ends
  BY <1>1, EndsFacts, EndFacts
<1> HIDE DEF r, f
<1>7. /\ o \in [Fd -> Ends] /\ o[f] = File(m + 1)
      /\ \A g \in Fd : g # f => o[g] = t[g]
  BY <1>3, <1>6
<1>8. CASE ~r.opens
  <2>1. u = t
    BY <1>8 DEF Redirected
  <2> QED
    BY <1>4, <1>5, <1>8, <2>1, Constants DEF r
<1>9. CASE r.opens /\ r.fd \notin Moves(r)
  <2>1. u = o
    BY <1>9 DEF Redirected, f
  <2> HIDE DEF u, o
  <2>2. \A d \in Std : u[d] = t[d]
    BY <1>3, <1>7, <2>1, Constants
  <2>3. \A g \in Fd : g >= 3 + (m + 1) => g # f /\ g >= 3 + m
    BY <1>3, Constants
  <2>4. \A g \in Fd : g >= 3 + (m + 1) => u[g] = Closed
    BY <1>7, <2>1, <2>3
  <2>5. \A d \in Std : u[d] = InForce(d, m + 1)
    BY <1>4, <1>5, <1>9, <2>2
  <2> QED
    BY <1>7, <2>1, <2>4, <2>5 DEF u, r
<1>10. CASE r.opens /\ r.fd \in Moves(r)
  <2> DEFINE v == [o EXCEPT ![r.fd] = o[f]]
  <2>1. r.fd \in Std
    BY <1>10 DEF Moves, Std
  <2>2. u = CloseNumbers(v, {f})
    BY <1>3, <1>6, <1>7, <1>10 DEF Redirected, Dup2, f
  <2>3. /\ v \in [Fd -> Ends] /\ v[r.fd] = File(m + 1)
        /\ \A g \in Fd : g # r.fd => v[g] = o[g]
    BY <1>3, <1>6, <1>7, <2>1, Constants
  <2> HIDE DEF o, v
  <2>4. \A g \in Fd : CloseNumbers(v, {f})[g] = IF g = f THEN Closed ELSE v[g]
    BY DEF CloseNumbers
  <2>5. CloseNumbers(v, {f}) \in [Fd -> Ends]
    BY <1>6, <2>3 DEF CloseNumbers
  <2> HIDE DEF u
  <2>6. \A d \in Std : u[d] = IF d = r.fd THEN File(m + 1) ELSE t[d]
    BY <1>3, <1>7, <2>1, <2>2, <2>3, <2>4, Constants
  <2>7. \A d \in Std : u[d] = InForce(d, m + 1)
    BY <1>4, <1>5, <1>10, <2>6
  <2>8. \A g \in Fd : g >= 3 + (m + 1) => g # f /\ g >= 3 + m /\ g # r.fd
    BY <1>3, <2>1, Constants DEF Std
  <2>9. \A g \in Fd : g >= 3 + (m + 1) => u[g] = Closed
    BY <1>7, <2>2, <2>3, <2>4, <2>8
  <2> QED
    BY <2>2, <2>5, <2>7, <2>9 DEF u, r
<1> QED
  BY <1>1, <1>8, <1>9, <1>10

\* One redirection more is in force in the single command's child.
LEMMA ApplyRedirectKeeps ==
  ASSUME IInv, NEW c \in Proc \ {Shell}, ApplyRedirect(c)
  PROVE  IInv'
<1> DEFINE r == redirs[applied + 1]
           u == Redirected(fdtab[c], r, applied + 1)
<1>1. /\ pc[c] = "redirect" /\ applied < Len(redirs)
      /\ UNCHANGED <<input, parent, pos, pipes, pids, data, status, failures>>
  BY DEF ApplyRedirect
<1>2. TypeOK /\ Roles /\ Positions /\ OneChild /\ LoneTable
  BY DEF IInv
<1>3. n = 1 /\ pc[Shell] = "waitLone" /\ LoneChild = c
  BY <1>1, LoneFacts, OnlyChild
<1>4. /\ n' = n /\ Ends' = Ends /\ line' = line /\ redirs' = redirs /\ junk' = junk /\ LoneName' = LoneName
      /\ \A d, m : InForce(d, m)' = InForce(d, m)
  BY <1>1, Frozen
<1>5. /\ applied \in Nat /\ Len(redirs) \in Nat /\ DOMAIN redirs = 1..Len(redirs)
      /\ fdtab[c] \in [Fd -> Ends] /\ pc \in [Proc -> Place]
      /\ fdtab \in [Proc -> [Fd -> Ends]]
  <2>1. /\ applied \in 0..Len(redirs) /\ fdtab \in [Proc -> [Fd -> Ends]]
        /\ pc \in [Proc -> Place]
    BY <1>2 DEF TypeOK
  <2> QED
    BY <1>2, <2>1, LineFacts
\* No other process is anywhere.
<1>6. \A d \in Proc \ {Shell, c} : pc[d] \in {"unborn", "reaped"}
  BY <1>3, OnlyChild
<1>7. /\ \A d \in Std : fdtab[c][d] = InForce(d, applied)
      /\ \A f \in Fd : f >= 3 + applied => fdtab[c][f] = Closed
      /\ \A k \in 1..applied : ~Refused(redirs[k])
  BY <1>1, <1>2, <1>3 DEF LoneTable
<1>8. CASE Refused(r)
  <2>1. /\ pc' = [pc EXCEPT ![c] = "exited"]
        /\ fdtab' = [fdtab EXCEPT ![c] = AllClosed]
        /\ code' = Exited(1) /\ applied' = applied
    BY <1>8 DEF ApplyRedirect
  <2>2. /\ \A d \in Proc \ {c} : pc'[d] = pc[d] /\ fdtab'[d] = fdtab[d]
        /\ pc'[c] = "exited"
    BY <1>5, <2>1
  <2>3. TypeOK'
    <3>1. pc' \in [Proc -> Place] /\ code' \in Code
      BY <1>5, <2>1 DEF Place, Exited, Code
    <3>2. fdtab' \in [Proc -> [Fd -> Ends]]
      BY <1>5, <2>1, EndsFacts DEF AllClosed
    <3> QED
      BY <1>1, <1>2, <1>4, <2>1, <3>1, <3>2 DEF TypeOK, data, failures
  <2>4. Roles' /\ Positions'
    <3>1. Roles'
      BY <1>2, <1>3, <1>4, <2>2, Constants DEF Roles
    <3>2. Positions'
      BY <1>1, <1>2, <1>4, <2>2 DEF Positions
    <3> QED
      BY <3>1, <3>2
  <2>5. Recorded' /\ ShellEnds'
    BY <1>1, <2>2, ChildMoves
  <2>6. OneChild'
    BY <1>1, <1>2, <1>3, <1>4, <2>2, Constants DEF OneChild, LoneChild, failures
  <2>7. LoneTable'
    BY <1>3, <1>6, <2>2, Constants DEF LoneTable
  <2>8. LoneCode'
    BY <2>1 DEF LoneCode, Exited
  <2>9. StatusTells'
    BY <1>3, <2>2, Constants DEF StatusTells
  <2> QED
    BY <1>1, <1>3, <2>3, <2>4, <2>5, <2>6, <2>7, <2>8, <2>9, OneCommand
<1>9. CASE ~Refused(r)
  <2>1. /\ fdtab' = [fdtab EXCEPT ![c] = u]
        /\ applied' = applied + 1 /\ pc' = pc /\ code' = code
    BY <1>9 DEF ApplyRedirect
  <2>2. /\ u \in [Fd -> Ends]
        /\ \A d \in Std : u[d] = InForce(d, applied + 1)
        /\ \A f \in Fd : f >= 3 + (applied + 1) => u[f] = Closed
    BY <1>1, <1>2, <1>5, <1>7, <1>9, RedirectedTable
  <2> HIDE DEF u
  <2>3. /\ \A d \in Proc \ {c} : pc'[d] = pc[d] /\ fdtab'[d] = fdtab[d]
        /\ fdtab'[c] = u
    BY <1>5, <2>1
  <2>4. TypeOK'
    <3>1. applied' \in 0..Len(redirs)
      BY <1>1, <1>5, <2>1
    <3>2. fdtab' \in [Proc -> [Fd -> Ends]]
      BY <1>5, <2>1, <2>2
    <3> QED
      BY <1>1, <1>2, <1>4, <2>1, <3>1, <3>2 DEF TypeOK, data, failures
  <2>5. Roles' /\ Positions'
    BY <1>1, <1>2, <1>4, <2>1 DEF Roles, Positions
  <2>6. Recorded' /\ ShellEnds'
    BY <1>1, <2>1, <2>3, ChildMoves
  <2>7. OneChild'
    BY <1>1, <1>2, <1>3, <1>4, <2>1 DEF OneChild, LoneChild, failures
  <2>8. LoneTable'
    <3> SUFFICES ASSUME NEW d \in Proc, pc'[d] \in {"redirect", "run"}
                 PROVE  /\ \A k \in Std : fdtab'[d][k] = InForce(k, applied + 1)
                        /\ \A f \in Fd : f >= 3 + (applied + 1) => fdtab'[d][f] = Closed
                        /\ \A k \in 1..(applied + 1) : ~Refused(redirs[k])
                        /\ pc'[d] # "run"
      BY <1>4, <2>1 DEF LoneTable, Tty, Closed, End
    <3>1. d = c
      BY <1>3, <1>6, <2>1
    <3>2. \A k \in 1..(applied + 1) : ~Refused(redirs[k])
      BY <1>5, <1>7, <1>9
    <3> QED
      BY <1>1, <2>1, <2>2, <2>3, <3>1, <3>2
  <2>9. LoneCode' /\ StatusTells'
    BY <1>1, <1>3, <1>4, <1>6, <2>1 DEF LoneCode, StatusTells
  <2> QED
    BY <1>1, <1>3, <2>4, <2>5, <2>6, <2>7, <2>8, <2>9, OneCommand
<1> QED
  BY <1>8, <1>9

\* The child of a single command starts it, every redirection in force.
LEMMA ExecLoneKeeps ==
  ASSUME IInv, NEW c \in Proc \ {Shell}, ExecLone(c)
  PROVE  IInv'
<1>1. /\ pc[c] = "redirect" /\ applied = Len(redirs)
      /\ UNCHANGED <<input, parent, pos, pipes, pids, full, applied, status, failures>>
  BY DEF ExecLone
<1>2. TypeOK /\ Roles /\ Positions /\ OneChild /\ LoneTable /\ LoneCode
  BY DEF IInv
<1>3. n = 1 /\ pc[Shell] = "waitLone" /\ LoneChild = c
  BY <1>1, LoneFacts, OnlyChild
<1>4. /\ n' = n /\ Ends' = Ends /\ line' = line /\ redirs' = redirs /\ junk' = junk /\ LoneName' = LoneName
      /\ \A d, m : InForce(d, m)' = InForce(d, m)
  BY <1>1, Frozen
<1>5. /\ pc \in [Proc -> Place] /\ fdtab \in [Proc -> [Fd -> Ends]]
      /\ has \in [Proc -> BOOLEAN]
  BY <1>2 DEF TypeOK
<1>6. \A d \in Proc \ {Shell, c} : pc[d] \in {"unborn", "reaped"}
  BY <1>3, OnlyChild
<1>7. CASE LoneName \in {"unknown", "noexec"}
  <2>1. /\ pc' = [pc EXCEPT ![c] = "exited"]
        /\ fdtab' = [fdtab EXCEPT ![c] = AllClosed]
        /\ code' = Exited(127) /\ has' = has
    BY <1>7 DEF ExecLone
  <2>2. /\ \A d \in Proc \ {c} : pc'[d] = pc[d] /\ fdtab'[d] = fdtab[d]
        /\ pc'[c] = "exited"
    BY <1>5, <2>1
  <2>3. TypeOK'
    <3>1. pc' \in [Proc -> Place] /\ code' \in Code
      BY <1>5, <2>1 DEF Place, Exited, Code
    <3>2. fdtab' \in [Proc -> [Fd -> Ends]]
      BY <1>5, <2>1, EndsFacts DEF AllClosed
    <3> QED
      BY <1>1, <1>2, <1>4, <2>1, <3>1, <3>2 DEF TypeOK, failures
  <2>4. Roles' /\ Positions'
    <3>1. Roles'
      BY <1>2, <1>3, <1>4, <2>2, Constants DEF Roles
    <3>2. Positions'
      BY <1>1, <1>2, <1>4, <2>2 DEF Positions
    <3> QED
      BY <3>1, <3>2
  <2>5. Recorded' /\ ShellEnds'
    BY <1>1, <2>2, ChildMoves
  <2>6. OneChild'
    BY <1>1, <1>2, <1>3, <1>4, <2>2, Constants DEF OneChild, LoneChild, failures
  <2>7. LoneTable'
    BY <1>3, <1>6, <2>2, Constants DEF LoneTable
  <2>8. LoneCode'
    BY <2>1 DEF LoneCode, Exited
  <2>9. StatusTells'
    BY <1>3, <2>2, Constants DEF StatusTells
  <2> QED
    BY <1>1, <1>3, <2>3, <2>4, <2>5, <2>6, <2>7, <2>8, <2>9, OneCommand
<1>8. CASE LoneName \notin {"unknown", "noexec"}
  <2>1. /\ pc' = [pc EXCEPT ![c] = "run"]
        /\ has' = [has EXCEPT ![c] = LoneName \in {"echo", "yes"}]
        /\ fdtab' = fdtab /\ code' = code
    BY <1>8 DEF ExecLone
  <2>2. /\ \A d \in Proc \ {c} : pc'[d] = pc[d]
        /\ pc'[c] = "run"
    BY <1>5, <2>1
  <2>3. TypeOK'
    <3>1. pc' \in [Proc -> Place] /\ has' \in [Proc -> BOOLEAN]
      BY <1>5, <2>1 DEF Place
    <3> QED
      BY <1>1, <1>2, <1>4, <2>1, <3>1 DEF TypeOK, failures
  <2>4. Roles'
    BY <1>2, <1>3, <1>4, <2>2, Constants DEF Roles
  <2>5. Positions'
    BY <1>1, <1>2, <1>4, <2>2 DEF Positions
  <2>6. Recorded' /\ ShellEnds'
    BY <1>1, <1>3, <2>1, <2>2, ChildMoves
  <2>7. OneChild'
    BY <1>1, <1>2, <1>3, <1>4, <2>2, Constants DEF OneChild, LoneChild, failures
  <2>8. LoneTable'
    <3> SUFFICES ASSUME NEW d \in Proc, pc'[d] \in {"redirect", "run"}
                 PROVE  /\ \A k \in Std : fdtab[d][k] = InForce(k, applied)
                        /\ \A f \in Fd : f >= 3 + applied => fdtab[d][f] = Closed
                        /\ \A k \in 1..applied : ~Refused(redirs[k])
      BY <1>1, <1>4, <1>8, <2>1 DEF LoneTable, Tty, Closed, End
    <3>1. d = c
      BY <1>3, <1>6, <2>2, Constants
    <3> QED
      BY <1>1, <1>2, <1>3, <3>1 DEF LoneTable
  <2>9. LoneCode' /\ StatusTells'
    BY <1>3, <1>4, <1>6, <2>2, Constants DEF LoneCode, StatusTells
  <2> QED
    BY <1>1, <1>3, <2>3, <2>4, <2>5, <2>6, <2>7, <2>8, <2>9, OneCommand
<1> QED
  BY <1>7, <1>8

\* The shell takes the single command's status.
LEMMA WaitLoneKeeps ==
  ASSUME IInv, WaitLone
  PROVE  IInv'
<1> DEFINE c == LoneChild
<1>1. /\ pc[Shell] = "waitLone" /\ pc[c] = "exited"
      /\ pc' = [pc EXCEPT ![c] = "reaped", ![Shell] = "returned"]
      /\ status' = StatusOf(code)
      /\ UNCHANGED <<input, parent, pos, pipes, pids, fdtab, data, applied, code, failures>>
  BY DEF WaitLone
<1>2. TypeOK /\ Roles /\ Positions /\ ShellEnds /\ OneChild /\ LoneCode
  BY DEF IInv
<1>3. n = 1 /\ c \in Proc \ {Shell}
  BY <1>1, <1>2, LoneFacts DEF OneChild
<1>4. /\ n' = n /\ Ends' = Ends /\ line' = line /\ redirs' = redirs /\ junk' = junk /\ LoneName' = LoneName
      /\ ShellTable' = ShellTable
  BY <1>1, Frozen DEF ShellTable, Tty, Closed, End
<1>5. \A d \in Proc \ {Shell, c} : pc[d] \in {"unborn", "reaped"}
  BY <1>3, OnlyChild
<1> HIDE DEF c
<1>6. /\ \A d \in Proc \ {Shell, c} : pc'[d] = pc[d]
      /\ pc'[Shell] = "returned" /\ pc'[c] = "reaped"
  BY <1>1, <1>2, <1>3, Constants DEF TypeOK
<1>7. \A d \in Proc \ {Shell} : pc'[d] \in {"unborn", "reaped"}
  BY <1>5, <1>6
<1>8. /\ StatusOf(code) \in -1..255
      /\ StatusOf(code) = 0 => code = Exited(0)
  <2>1. code.how \in {"exit", "signal"} /\ code.n \in 0..127 /\ code = [how |-> code.how, n |-> code.n]
    BY <1>2 DEF TypeOK, Code
  <2> QED
    BY <2>1 DEF StatusOf, Exited
<1>9. TypeOK'
  <2>1. pc' \in [Proc -> Place]
    BY <1>1, <1>2 DEF TypeOK, Place
  <2> QED
    BY <1>1, <1>2, <1>4, <1>8, <2>1 DEF TypeOK, data, failures
<1>10. Roles' /\ Recorded'
  BY <1>3, <1>4, <1>6, <1>7 DEF Roles, Recorded
<1>11. Positions'
  BY <1>1, <1>2, <1>4, <1>6, <1>7 DEF Positions
<1>12. ShellEnds'
  BY <1>1, <1>2, <1>3, <1>4, <1>6 DEF ShellEnds
<1>13. OneChild'
  BY <1>1, <1>2, <1>3, <1>4, <1>6 DEF OneChild, failures
<1>14. LoneTable' /\ LoneCode'
  BY <1>6, <1>7 DEF LoneTable, LoneCode
<1>15. StatusTells'
  BY <1>1, <1>2, <1>3, <1>4, <1>8 DEF StatusTells, LoneCode, c
<1> QED
  BY <1>1, <1>3, <1>9, <1>10, <1>11, <1>12, <1>13, <1>14, <1>15, OneCommand

-----------------------------------------------------------------------------
(* The theorems. *)

\* The invariant holds at first.
LEMMA InitGood ==
  ASSUME Init
  PROVE  IInv
<1>1. /\ line \in Lines /\ redirs \in Redirs \cup {<<>>}
      /\ junk \in [0..(n-2) -> Junk]
      /\ pc = [p \in Proc |-> IF p # Shell THEN "unborn"
                              ELSE IF n = 1 THEN "lone" ELSE "loop"]
      /\ parent = [p \in Proc |-> Shell]
      /\ pos = [p \in Proc |-> 0]
      /\ pipes = [p \in Proc |-> junk]
      /\ pids = [p \in Proc |-> [j \in 0..(n-1) |-> NoPid]]
      /\ fdtab = [p \in Proc |-> [f \in Fd |->
                    IF p = Shell /\ f \in Std THEN Tty ELSE Closed]]
      /\ full = {} /\ has = [p \in Proc |-> FALSE]
      /\ applied = 0 /\ code = Exited(0) /\ status = 0
      /\ forkFailed = FALSE /\ pipeFailed = FALSE
  BY DEF Init
<1>2. n \in Nat /\ n >= 1
  BY <1>1, LinesAssumption DEF n
<1>3. TypeOK
  <2>1. junk \in [0..(n-2) -> Int \X Int]
    BY <1>1, JunkAssumption
  <2>2. /\ pc \in [Proc -> Place] /\ parent \in [Proc -> Proc]
        /\ pids \in [Proc -> [0..(n-1) -> Proc \cup {NoPid}]]
    BY <1>1, Constants DEF Place
  <2>3. pos \in [Proc -> 0..n]
    BY <1>1, <1>2
  <2>4. fdtab \in [Proc -> [Fd -> Ends]]
    BY <1>1, EndsFacts
  <2>5. pipes \in [Proc -> [0..(n-2) -> Int \X Int]]
    BY <1>1, <2>1
  <2>6. applied \in 0..Len(redirs)
    <3>1. redirs \in Seq(Redirect)
      <4>1. <<>> \in Seq(Redirect)
        OBVIOUS
      <4> QED
        BY <1>1, <4>1, RedirsAssumption, Zenon
    <3> QED
      BY <1>1, <3>1
  <2>7. code \in Code /\ status \in -1..255
    BY <1>1 DEF Exited, Code
  <2> QED
    BY <1>1, <2>2, <2>3, <2>4, <2>5, <2>6, <2>7 DEF TypeOK
<1>4. \A c \in Proc \ {Shell} : pc[c] = "unborn"
  BY <1>1
<1>5. pc[Shell] = IF n = 1 THEN "lone" ELSE "loop"
  BY <1>1, Constants
<1>6. Roles /\ Recorded /\ ChildEnds /\ Connected /\ LoneTable /\ LoneCode /\ StatusTells
  BY <1>4, <1>5 DEF Roles, Recorded, ChildEnds, Connected, LoneTable, LoneCode, StatusTells
<1>7. Positions
  BY <1>1, <1>2 DEF Positions
<1>8. OneChild
  BY <1>1, <1>4, <1>5 DEF OneChild
<1>9. ShellEnds
  <2>1. fdtab[Shell] = ShellTable /\ pipes[Shell] = junk /\ pos[Shell] = 0
    BY <1>1, Constants DEF ShellTable
  <2>2. \A d \in Std : ShellTable[d] = Tty
    BY Constants DEF ShellTable
  <2>3. \A f \in Fd \ Std : ShellTable[f] = Closed
    BY DEF ShellTable
  <2>4. AfterTurns(ShellTable, junk, FALSE, 0)
    BY <2>2, <2>3 DEF AfterTurns
  <2> QED
    BY <1>1, <1>5, <2>1, <2>4 DEF ShellEnds
<1> QED
  BY <1>3, <1>6, <1>7, <1>8, <1>9 DEF IInv

\* Every step keeps the invariant.
LEMMA NextKeeps ==
  ASSUME IInv, [Next]_vars
  PROVE  IInv'
<1>1. CASE UNCHANGED vars
  <2>1. UNCHANGED <<input, procs, lone, failures>> /\ full' = full /\ has' = has
    BY <1>1 DEF vars, data
  <2>2. full \subseteq (Proc \X (0..(n-2))) /\ has \in [Proc -> BOOLEAN]
    BY DEF IInv, TypeOK
  <2> QED
    BY <2>1, <2>2, DataKeeps
<1>2. CASE ForkLoneFails
  BY <1>2, ForkLoneFailsKeeps
<1>3. ASSUME NEW p \in Proc,
             ShellStep(p) \/ CommandStep(p) \/ ForkFails(p) \/ Killed(p)
      PROVE  IInv'
  <2>1. CASE CommandStep(p) \/ Killed(p)
    BY <2>1, CommandKeeps
  <2>2. CASE ForkFails(p)
    BY <2>2, ForkFailsKeeps
  <2>3. CASE ForkCommand(p)
    BY <2>3, ForkCommandKeeps
  <2>4. CASE ChildSetup(p)
    BY <2>4, ChildSetupKeeps
  <2>5. CASE CloseEnds(p)
    BY <2>5, CloseEndsKeeps
  <2>6. CASE Wait(p)
    BY <2>6, WaitKeeps
  <2>7. CASE Return(p)
    BY <2>7, ReturnKeeps
  <2>8. CASE LoneStep(p)
    BY <2>8, RunInShellKeeps, ForkLoneKeeps, WaitLoneKeeps, ApplyRedirectKeeps, ExecLoneKeeps
       DEF LoneStep
  <2> QED
    BY <1>3, <2>1, <2>2, <2>3, <2>4, <2>5, <2>6, <2>7, <2>8 DEF ShellStep
<1> QED
  BY <1>1, <1>2, <1>3 DEF Next

\* The inductive invariant holds in every reachable state.
THEOREM PipelineInvariant == Spec => []IInv
<1>1. Init => IInv
  BY InitGood
<1>2. IInv /\ [Next]_vars => IInv'
  BY NextKeeps
<1> QED
  BY <1>1, <1>2, PTL DEF Spec

\* Tables, pipes[] and pids[] hold what they are meant to hold, however many
\* processes fork (execute_pipes, execute_command).
THEOREM TypeCorrect == Spec => []TypeOK
<1>1. IInv => TypeOK
  BY DEF IInv
<1> QED
  BY <1>1, PipelineInvariant, PTL

\* A command of a pipeline of any length reads from its predecessor, writes
\* to its successor and holds no other end (the child's branch of
\* execute_pipes).
THEOREM CommandsAreConnected == Spec => []Connected
<1>1. IInv => Connected
  BY DEF IInv
<1> QED
  BY <1>1, PipelineInvariant, PTL

\* A lone command runs with the last redirection of each of its three numbers
\* in force, whatever list of them it has (the loop over redirs[] in
\* execute_command).  Nothing is said of the numbers above 2, where a file
\* that no number of its mode takes stays open.
THEOREM RedirectionsHold == Spec => []RedirectionsInForce
<1>1. IInv => RedirectionsInForce
  <2> SUFFICES ASSUME IInv, NEW c \in Proc, n = 1, pc[c] = "run"
               PROVE  /\ \A k \in DOMAIN redirs : ~Refused(redirs[k])
                      /\ \A d \in Std : fdtab[c][d] =
                           IF Targets(d) = {} THEN Tty ELSE File(Max(Targets(d)))
    BY DEF RedirectionsInForce
  <2>1. DOMAIN redirs = 1..Len(redirs)
    BY LineFacts DEF IInv
  <2>2. /\ applied = Len(redirs)
        /\ \A d \in Std : fdtab[c][d] = InForce(d, applied)
        /\ \A k \in 1..applied : ~Refused(redirs[k])
    BY DEF IInv, LoneTable
  <2>3. \A d : TargetsUpTo(d, applied) = Targets(d)
    BY <2>1, <2>2 DEF TargetsUpTo, Targets
  <2> QED
    BY <2>1, <2>2, <2>3 DEF InForce
<1> QED
  BY <1>1, PipelineInvariant, PTL

\* A lone command that could not be run, or that a signal ended, is never
\* taken for a success (the status execute_command returns).
THEOREM StatusIsTrue == Spec => []StatusTells
<1>1. IInv => StatusTells
  BY DEF IInv
<1> QED
  BY <1>1, PipelineInvariant, PTL

\* Once execute_pipeline returns, its children are collected and its ends
\* are closed.
THEOREM ShellIsClean == Spec => []NothingLeftBehind
<1>1. IInv => NothingLeftBehind
  <2> SUFFICES ASSUME IInv, pc[Shell] = "returned", ~forkFailed
               PROVE  /\ \A c \in Proc \ {Shell} :
                           parent[c] = Shell => pc[c] \in {"unborn", "reaped"}
                      /\ ~pipeFailed \/ Harmless(DOMAIN junk) =>
                           fdtab[Shell] = [f \in Fd |-> IF f \in Std THEN Tty ELSE Closed]
    BY DEF NothingLeftBehind
  <2>1. \A c \in Proc \ {Shell} : parent[c] = Shell => pc[c] \in {"unborn", "reaped"}
    BY DEF IInv, Recorded
  <2>2. ~pipeFailed \/ Harmless(DOMAIN junk) => fdtab[Shell] = ShellTable
    <3>1. DOMAIN junk = 0..(n-2)
      BY DEF IInv, TypeOK
    <3> QED
      BY <3>1 DEF IInv, ShellEnds
  <2> QED
    BY <2>1, <2>2 DEF ShellTable
<1> QED
  BY <1>1, PipelineInvariant, PTL
=============================================================================
