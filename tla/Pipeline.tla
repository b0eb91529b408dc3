------------------------------ MODULE Pipeline ------------------------------
(***************************************************************************)
(* execute_pipeline.  A command that stands alone is run by the shell when *)
(* it is a builtin, else by one child, which carries out its redirections  *)
(* first (execute_command).  For two commands and more execute_pipes forks *)
(* one child per command, connects them through pipes, waits for all of    *)
(* them and ignores their redirections.                                    *)
(*                                                                         *)
(* Every process has a table of file descriptors, and fork copies both the *)
(* table and the local variables of execute_pipes.  The array pipes[] is   *)
(* not initialized: an entry whose pipe() has not been called yet, or has  *)
(* failed, holds junk numbers, which are duplicated and closed all the     *)
(* same.  A child of execute_pipes whose execvp fails stays in the loop,   *)
(* as a second copy of the shell.                                          *)
(*                                                                         *)
(* The commands are abstracted to how they use their descriptors, a pipe   *)
(* to a buffer with room for one datum.  The steps of one process that     *)
(* touch only its own table (dup2, close) are taken together.              *)
(***************************************************************************)
EXTENDS Integers, Sequences, FiniteSetsExt

CONSTANTS
    Lines,      \* the pipelines, sequences of the kinds of commands below
    Redirs,     \* the redirections of a lone command, sequences of Redirect
    MaxChildren,\* the processes that can be forked (a bound)
    Junk,       \* what an uninitialized pipes[j] may hold, pairs of numbers
    MaxFd       \* the largest descriptor number, beyond which a table is full

\* What becomes of a command, and how it uses its descriptors:
\*   echo    writes one datum and exits
\*   yes     writes for ever
\*   cat     forwards its input until the end of file
\*   head    reads one datum and exits
\*   builtin a name in the table of builtins
\*   unknown a name that is not found on the PATH
\*   noexec  found on the PATH, but execvp fails
\*   empty   no name: argv[0] is null
Kind == {"echo", "yes", "cat", "head", "builtin", "unknown", "noexec", "empty"}

Mode == {"in", "out", "append", "heredoc", "err"}

\* The number the line gives it, and whether open() succeeds.
Redirect == [mode : Mode, fd : Nat, opens : BOOLEAN]

ASSUME LinesAssumption == \A l \in Lines : l \in Seq(Kind) /\ Len(l) >= 1
ASSUME RedirsAssumption == Redirs \subseteq Seq(Redirect)
ASSUME JunkAssumption == Junk \subseteq Int \X Int
ASSUME MaxChildrenAssumption == MaxChildren \in Nat

\* The table has room for the files of a command that stands alone.
ASSUME MaxFdAssumption ==
    MaxFd \in Nat /\ MaxFd >= 2 /\ \A r \in Redirs : Len(r) + 2 =< MaxFd

VARIABLES
    line,       \* the pipeline
    redirs,     \* the redirections of the command of a pipeline of one
    junk,       \* the uninitialized values of pipes[]
    pc,         \* where each process is
    parent,     \* who forked it
    pos,        \* the loop variable i of each process
    pipes,      \* pipes[][2] of each process
    pids,       \* pids[] of each process; NoPid where it is not assigned
    fdtab,      \* the descriptors of each process
    full,       \* the pipes that hold a datum
    has,        \* the command holds a datum it has to write
    applied,    \* the redirections its child has carried out
    code,       \* how that child ended
    status,     \* what execute_pipeline returns
    forkFailed, \* history: some fork failed
    pipeFailed  \* history: some pipe() failed

input == <<line, redirs, junk>>
procs == <<pc, parent, pos, pipes, pids, fdtab>>
data  == <<full, has>>
lone  == <<applied, code, status>>
failures == <<forkFailed, pipeFailed>>
vars  == <<input, procs, data, lone, failures>>

Proc  == 0..MaxChildren
Shell == 0
NoPid == -1
Fd    == 0..MaxFd
Std   == {0, 1, 2}

n       == Len(line)  \* pipeline->size
kind(c) == line[pos[c] + 1]

\* An end of the pipe that process p made in turn k.
End(e, p, k) == [end |-> e, pipe |-> <<p, k>>]
Tty    == End("tty", 0, 0)
Closed == End("closed", 0, 0)
File(k) == End("file", Shell, k)  \* what redirection k opened
Ends   == {Tty, Closed} \cup {File(k) : k \in DOMAIN redirs} \cup
          {End(e, p, k) : e \in {"r", "w"}, p \in Proc, k \in 0..(n-2)}

\* Where a process can be.
Place == {"unborn", "lone", "loop", "redirect", "setup", "waitLone", "wait",
          "returned", "dead", "run", "exited", "reaped"}

\* How a process ends: exit(n), or the signal n.
Code == [how : {"exit", "signal"}, n : 0..127]
Exited(k) == [how |-> "exit", n |-> k]
SigPipe == [how |-> "signal", n |-> 13]
SigInt  == [how |-> "signal", n |-> 2]

TypeOK ==
    /\ line \in Lines
    /\ redirs \in Redirs \cup {<<>>}
    /\ junk \in [0..(n-2) -> Junk]
    /\ pc \in [Proc -> Place]
    /\ parent \in [Proc -> Proc]
    /\ pos \in [Proc -> 0..n]
    /\ pipes \in [Proc -> [0..(n-2) -> Int \X Int]]
    /\ fdtab \in [Proc -> [Fd -> Ends]]
    /\ pids \in [Proc -> [0..(n-1) -> Proc \cup {NoPid}]]
    /\ full \subseteq (Proc \X (0..(n-2)))
    /\ has \in [Proc -> BOOLEAN]
    /\ applied \in 0..Len(redirs)
    /\ code \in Code
    /\ status \in -1..255
    /\ forkFailed \in BOOLEAN /\ pipeFailed \in BOOLEAN

Init ==
    /\ line \in Lines
    /\ redirs \in IF n = 1 THEN Redirs ELSE {<<>>}
    /\ junk \in [0..(n-2) -> Junk]
    /\ pc = [p \in Proc |-> IF p # Shell THEN "unborn"
                            ELSE IF n = 1 THEN "lone" ELSE "loop"]
    /\ parent = [p \in Proc |-> Shell]
    /\ pos = [p \in Proc |-> 0]
    /\ pipes = [p \in Proc |-> junk]
    /\ pids = [p \in Proc |-> [j \in 0..(n-1) |-> NoPid]]
    /\ fdtab = [p \in Proc |-> [f \in Fd |->
                  IF p = Shell /\ f \in Std THEN Tty ELSE Closed]]
    /\ full = {}
    /\ has = [p \in Proc |-> FALSE]
    /\ applied = 0 /\ code = Exited(0) /\ status = 0
    /\ forkFailed = FALSE /\ pipeFailed = FALSE

-----------------------------------------------------------------------------
(* Descriptor tables. *)

\* pipe() takes the two lowest free numbers.
Free(t) == {f \in Fd : t[f] = Closed}
ReadFd(t)  == Min(Free(t))
WriteFd(t) == Min(Free(t) \ {ReadFd(t)})

HasRoom(t) == Free(t) # {} /\ Free(t) # {ReadFd(t)}

WithPipe(t, p, k) ==
    [t EXCEPT ![ReadFd(t)] = End("r", p, k), ![WriteFd(t)] = End("w", p, k)]

\* dup2 of a number that is not open changes nothing.
Dup2(t, old, new) ==
    IF old \in Fd /\ t[old] # Closed THEN [t EXCEPT ![new] = t[old]] ELSE t

CloseNumbers(t, S) == [f \in Fd |-> IF f \in S THEN Closed ELSE t[f]]

AllClosed == [f \in Fd |-> Closed]

\* Mutant: the write ends are forgotten.
ReadNumbers(p) == {pipes[p][j][1] : j \in 0..(n-2)}

\* Every number in pipes[], initialized or not.
Numbers(p) == UNION {{pipes[p][j][1], pipes[p][j][2]} : j \in 0..(n-2)}

Holders(e) == {p \in Proc : \E f \in Fd : fdtab[p][f] = e}
Reader(q) == End("r", q[1], q[2])
Writer(q) == End("w", q[1], q[2])

-----------------------------------------------------------------------------
(* The fork loop. *)

Unborn == {p \in Proc : pc[p] = "unborn"}

\* Mutant: a pipe for the last command too.
AlwaysPipe(i) == i < n

\* Every command but the last gets a pipe to its successor.
NeedsPipe(i) == i < n-1

\* What pipe(pipes[i]) may do: nothing for the last command; fail, and then
\* the numbers are the junk that was there; or, with two numbers free, make
\* a new pipe.
NoPipe(p) == [fds |-> fdtab[p], pipes |-> pipes[p], failed |-> NeedsPipe(pos[p])]

NewPipe(p) ==
    LET t == fdtab[p] IN
    [fds    |-> WithPipe(t, p, pos[p]),
     pipes  |-> [pipes[p] EXCEPT ![pos[p]] = <<ReadFd(t), WriteFd(t)>>],
     failed |-> FALSE]

Turns(p) ==
    IF NeedsPipe(pos[p]) /\ HasRoom(fdtab[p]) THEN {NoPipe(p), NewPipe(p)}
                                              ELSE {NoPipe(p)}

\* The pipe, then fork(): the child gets a copy of the table and of the local
\* variables.
ForkCommand(p) ==
    /\ pc[p] = "loop"
    /\ pos[p] < n
    /\ Unborn # {}
    /\ LET i == pos[p]
           c == Min(Unborn)
       IN /\ \E t \in Turns(p) :
               /\ fdtab' = [fdtab EXCEPT ![p] = t.fds, ![c] = t.fds]
               /\ pipes' = [pipes EXCEPT ![p] = t.pipes, ![c] = t.pipes]
               /\ pipeFailed' = (pipeFailed \/ t.failed)
          /\ pids'  = [pids EXCEPT ![p][i] = c, ![c] = pids[p]]
          /\ pos'   = [pos EXCEPT ![p] = i+1, ![c] = i]
          /\ pc'    = [pc EXCEPT ![c] = "setup"]
          /\ parent' = [parent EXCEPT ![c] = p]
    /\ UNCHANGED <<input, data, lone, forkFailed>>

\* A failed fork: execute_pipes returns, with the pipes open and the children
\* running.
ForkFails(p) ==
    /\ pc[p] = "loop"
    /\ pos[p] < n
    /\ \E t \in Turns(p) :
         /\ fdtab' = [fdtab EXCEPT ![p] = t.fds]
         /\ pipes' = [pipes EXCEPT ![p] = t.pipes]
         /\ pipeFailed' = (pipeFailed \/ t.failed)
    /\ pc' = [pc EXCEPT ![p] = "returned"]
    /\ forkFailed' = TRUE
    /\ status' = IF p = Shell THEN -1 ELSE status
    /\ UNCHANGED <<input, data, parent, pos, pids, applied, code>>

\* Mutant: the numbers are closed before they are duplicated.
CloseThenDup(c) ==
    LET i  == pos[c]
        t0 == CloseNumbers(fdtab[c], Numbers(c))
        t1 == IF i > 0 THEN Dup2(t0, pipes[c][i-1][1], 0) ELSE t0
    IN IF i < n-1 THEN Dup2(t1, pipes[c][i][2], 1) ELSE t1

\* The child's table once it has moved its ends to 0 and 1 and closed every
\* number in pipes[].
ChildTable(c) ==
    LET i  == pos[c]
        t1 == IF i > 0 THEN Dup2(fdtab[c], pipes[c][i-1][1], 0) ELSE fdtab[c]
        t2 == IF i < n-1 THEN Dup2(t1, pipes[c][i][2], 1) ELSE t1
    IN CloseNumbers(t2, Numbers(c))

\* A builtin (exec_builtin does nothing) and an unknown name end the child,
\* as does the look-up of a name that is not there.  After a failed execvp
\* nothing ends it: it goes on with the loop, and pids[i] was never assigned.
ChildSetup(c) ==
    /\ pc[c] = "setup"
    /\ LET k == kind(c)
           quits == k \in {"builtin", "unknown", "empty"}
       IN
        /\ pc' = [pc EXCEPT ![c] = IF quits THEN "exited"
                                   ELSE IF k = "noexec" THEN "loop"
                                   ELSE "run"]
        /\ fdtab' = [fdtab EXCEPT ![c] =
                       IF quits THEN AllClosed ELSE ChildTable(c)]
        /\ pos' = [pos EXCEPT ![c] = IF k = "noexec" THEN @ + 1 ELSE @]
        /\ has' = [has EXCEPT ![c] = k \in {"echo", "yes"}]
    /\ UNCHANGED <<input, parent, pipes, pids, full, lone, failures>>

\* Mutant: the shell keeps its ends while it waits.
KeepEnds(p) ==
    /\ pc[p] = "loop"
    /\ pos[p] = n
    /\ pc' = [pc EXCEPT ![p] = "wait"]
    /\ pos' = [pos EXCEPT ![p] = 0]
    /\ UNCHANGED <<input, parent, pipes, pids, fdtab, data, lone, failures>>

\* After the loop: every pipe end is closed, then pids[] is waited for.
CloseEnds(p) ==
    /\ pc[p] = "loop"
    /\ pos[p] = n
    /\ fdtab' = [fdtab EXCEPT ![p] = CloseNumbers(@, Numbers(p))]
    /\ pc' = [pc EXCEPT ![p] = "wait"]
    /\ pos' = [pos EXCEPT ![p] = 0]
    /\ UNCHANGED <<input, parent, pipes, pids, data, lone, failures>>

\* waitpid(pids[i]) blocks for a child that runs, and fails at once for a
\* process that is no child, or no longer one.  With an unassigned number
\* waitpid may also collect any child.
Wait(p) ==
    /\ pc[p] = "wait"
    /\ pos[p] < n
    /\ LET c == pids[p][pos[p]]
           collect(x) == /\ pc[x] = "exited" /\ parent[x] = p
                         /\ pc' = [pc EXCEPT ![x] = "reaped"]
       IN \/ c # NoPid /\ collect(c)
          \/ c # NoPid /\ (parent[c] # p \/ pc[c] = "reaped") /\ pc' = pc
          \/ c = NoPid /\ (pc' = pc \/ \E x \in Proc \ {Shell} : collect(x))
    /\ pos' = [pos EXCEPT ![p] = @ + 1]
    /\ UNCHANGED <<input, parent, pipes, pids, fdtab, data, lone, failures>>

Return(p) ==
    /\ pc[p] = "wait"
    /\ pos[p] = n
    /\ pc' = [pc EXCEPT ![p] = "returned"]
    /\ UNCHANGED <<input, parent, pos, pipes, pids, fdtab, data, lone, failures>>

-----------------------------------------------------------------------------
(* A command that stands alone. *)

LoneName == line[1]
LoneChild == pids[Shell][0]

\* Without a name there is nothing to do.  A builtin runs in the shell, its
\* redirections are not looked at; its result is the status.
RunInShell ==
    /\ pc[Shell] = "lone"
    /\ LoneName \in {"empty", "builtin"}
    /\ pc' = [pc EXCEPT ![Shell] = "returned"]
    /\ status' \in IF LoneName = "builtin" THEN {-1, 0, 1} ELSE {0}
    /\ UNCHANGED <<input, parent, pos, pipes, pids, fdtab, data, applied, code, failures>>

ForkLone ==
    /\ pc[Shell] = "lone"
    /\ LoneName \notin {"empty", "builtin"}
    /\ Unborn # {}
    /\ LET c == Min(Unborn) IN
         /\ fdtab' = [fdtab EXCEPT ![c] = fdtab[Shell]]
         /\ pids' = [pids EXCEPT ![Shell][0] = c]
         /\ parent' = [parent EXCEPT ![c] = Shell]
         /\ pc' = [pc EXCEPT ![Shell] = "waitLone", ![c] = "redirect"]
    /\ UNCHANGED <<input, pos, pipes, data, lone, failures>>

\* The shell itself ends when it cannot fork.
ForkLoneFails ==
    /\ pc[Shell] = "lone"
    /\ LoneName \notin {"empty", "builtin"}
    /\ pc' = [pc EXCEPT ![Shell] = "dead"]
    /\ forkFailed' = TRUE
    /\ UNCHANGED <<input, parent, pos, pipes, pids, fdtab, data, lone, pipeFailed>>

\* The numbers dup2 moves a file to, by the mode of the redirection.
Moves(r) == IF r.mode = "in" THEN {0} ELSE {1, 2}

Refused(r) == r.mode \in {"heredoc", "err"} \/ (r.mode = "in" /\ r.fd # 0)

\* Mutant: the file is closed before it is duplicated.
CloseThenMove(t, r, k) ==
    LET f == Min(Free(t)) IN
    IF ~r.opens THEN t
    ELSE IF r.fd \notin Moves(r) THEN [t EXCEPT ![f] = File(k)]
    ELSE Dup2(t, f, r.fd)

\* open(), dup2() to the number of the redirection and close().  A file that
\* is for another number than the mode's stays open where open() put it; one
\* that could not be opened leaves the table alone, and the command is run.
Redirected(t, r, k) ==
    LET f == Min(Free(t))
        opened == [t EXCEPT ![f] = File(k)]
    IN IF ~r.opens THEN t
       ELSE IF r.fd \notin Moves(r) THEN opened
       ELSE CloseNumbers(Dup2(opened, f, r.fd), {f})

ApplyRedirect(c) ==
    /\ pc[c] = "redirect"
    /\ applied < Len(redirs)
    /\ LET r == redirs[applied + 1] IN
         IF Refused(r)
         THEN /\ pc' = [pc EXCEPT ![c] = "exited"]
              /\ fdtab' = [fdtab EXCEPT ![c] = AllClosed]
              /\ code' = Exited(1)
              /\ applied' = applied
         ELSE /\ fdtab' = [fdtab EXCEPT ![c] = Redirected(@, r, applied + 1)]
              /\ applied' = applied + 1
              /\ UNCHANGED <<pc, code>>
    /\ UNCHANGED <<input, parent, pos, pipes, pids, data, status, failures>>

ExecLone(c) ==
    /\ pc[c] = "redirect"
    /\ applied = Len(redirs)
    /\ IF LoneName \in {"unknown", "noexec"}
       THEN /\ pc' = [pc EXCEPT ![c] = "exited"]
            /\ fdtab' = [fdtab EXCEPT ![c] = AllClosed]
            /\ code' = Exited(127)
            /\ has' = has
       ELSE /\ pc' = [pc EXCEPT ![c] = "run"]
            /\ has' = [has EXCEPT ![c] = LoneName \in {"echo", "yes"}]
            /\ UNCHANGED <<fdtab, code>>
    /\ UNCHANGED <<input, parent, pos, pipes, pids, full, applied, status, failures>>

\* Mutant: only a signal is told apart from success.
SignalStatus(k) == IF k.how = "signal" THEN 128 + k.n ELSE 0

StatusOf(k) == IF k.how = "signal" THEN 128 + k.n ELSE k.n

WaitLone ==
    /\ pc[Shell] = "waitLone"
    /\ pc[LoneChild] = "exited"
    /\ pc' = [pc EXCEPT ![LoneChild] = "reaped", ![Shell] = "returned"]
    /\ status' = StatusOf(code)
    /\ UNCHANGED <<input, parent, pos, pipes, pids, fdtab, data, applied, code, failures>>

-----------------------------------------------------------------------------
(* The commands. *)

In(c)  == fdtab[c][0]
Out(c) == fdtab[c][1]
Does(c, ks) == pc[c] = "run" /\ kind(c) \in ks

Exit(c, k) ==
    /\ pc' = [pc EXCEPT ![c] = "exited"]
    /\ fdtab' = [fdtab EXCEPT ![c] = AllClosed]
    /\ code' = IF n = 1 THEN k ELSE code
    /\ UNCHANGED <<input, parent, pos, pipes, pids, has, applied, status, failures>>

\* A datum goes to the terminal or a file, or into the pipe if there is room.
Write(c) ==
    /\ pc[c] = "run" /\ has[c]
    /\ \/ Out(c).end \in {"tty", "file"} /\ full' = full
       \/ /\ Out(c).end = "w"
          /\ Holders(Reader(Out(c).pipe)) # {}
          /\ Out(c).pipe \notin full
          /\ full' = full \cup {Out(c).pipe}
    /\ has' = [has EXCEPT ![c] = Does(c, {"yes"})]
    /\ UNCHANGED <<input, procs, lone, failures>>

\* Writing without a reader is fatal (SIGPIPE), as is a write that fails.
WriteFails(c) ==
    /\ pc[c] = "run" /\ has[c]
    /\ \/ Out(c).end = "w" /\ Holders(Reader(Out(c).pipe)) = {} /\ Exit(c, SigPipe)
       \/ Out(c).end \in {"r", "closed"} /\ Exit(c, Exited(1))
    /\ full' = full

Read(c) ==
    /\ Does(c, {"cat", "head"}) /\ ~has[c]
    /\ In(c).end = "r" /\ In(c).pipe \in full
    /\ full' = full \ {In(c).pipe}
    /\ IF Does(c, {"cat"})
       THEN /\ has' = [has EXCEPT ![c] = TRUE]
            /\ UNCHANGED <<input, procs, lone, failures>>
       ELSE Exit(c, Exited(0))

\* The end of the input: the pipe is empty and nobody can write to it, the
\* terminal or file is at its end, or the descriptor cannot be read.
EndOfInput(c) ==
    /\ Does(c, {"cat", "head"}) /\ ~has[c]
    /\ \/ /\ In(c).end = "r"
          /\ In(c).pipe \notin full
          /\ Holders(Writer(In(c).pipe)) = {}
       \/ In(c).end # "r"
    /\ Exit(c, Exited(IF In(c).end \in {"r", "tty", "file"} THEN 0 ELSE 1))
    /\ full' = full

EchoDone(c) ==
    /\ Does(c, {"echo"}) /\ ~has[c]
    /\ Exit(c, Exited(0))
    /\ full' = full

\* A signal, from the keyboard or another process, for a lone command: in a
\* pipeline it is one more way to close the ends and nobody looks at the code.
Killed(c) ==
    /\ pc[c] = "run"
    /\ n = 1
    /\ Exit(c, SigInt)
    /\ full' = full

-----------------------------------------------------------------------------
CommandStep(c) ==
    Write(c) \/ WriteFails(c) \/ Read(c) \/ EndOfInput(c) \/ EchoDone(c)

LoneStep(p) ==
    \/ p = Shell /\ (RunInShell \/ ForkLone \/ WaitLone)
    \/ p # Shell /\ (ApplyRedirect(p) \/ ExecLone(p))

ShellStep(p) ==
    \/ ForkCommand(p) \/ ChildSetup(p) \/ CloseEnds(p) \/ Wait(p) \/ Return(p)
    \/ LoneStep(p)

Next ==
    \/ \E p \in Proc : ShellStep(p) \/ CommandStep(p) \/ ForkFails(p) \/ Killed(p)
    \/ ForkLoneFails

Spec == Init /\ [][Next]_vars

\* Every process runs.
FairSpec == Spec /\ \A p \in Proc : WF_vars(ShellStep(p)) /\ WF_vars(CommandStep(p))

-----------------------------------------------------------------------------
(* Properties. *)

\* Junk that is not one of the numbers a command, or the shell, lives on.
Harmless(J) == \A j \in J : junk[j][1] \notin Std /\ junk[j][2] \notin Std

\* A command that runs reads from the pipe of its predecessor, writes to the
\* pipe of its successor, and holds no other end: a stray write end would keep
\* a reader waiting, a stray read end would keep a writer from its SIGPIPE.
\* This takes that no pipe() failed and, with three commands or more, that
\* the junk the children close is not one of their own numbers.
Connected ==
    n > 1 /\ ~pipeFailed /\ Harmless(1..(n-2)) => \A c \in Proc :
        pc[c] = "run" /\ parent[c] = Shell =>
            /\ In(c)  = IF pos[c] = 0 THEN Tty ELSE End("r", Shell, pos[c] - 1)
            /\ Out(c) = IF pos[c] = n-1 THEN Tty ELSE End("w", Shell, pos[c])
            /\ fdtab[c][2] = Tty
            /\ \A f \in Fd \ Std : fdtab[c][f] = Closed

\* The redirections that are in force for number d.
Targets(d) ==
    {k \in DOMAIN redirs : /\ redirs[k].opens /\ redirs[k].fd = d
                           /\ d \in Moves(redirs[k])}

\* A command that stands alone is run only if none of its redirections is
\* refused, and it has on its three numbers what the last redirection that
\* could be opened put there, or what the shell has.
RedirectionsInForce ==
    \A c \in Proc : n = 1 /\ pc[c] = "run" =>
        /\ \A k \in DOMAIN redirs : ~Refused(redirs[k])
        /\ \A d \in Std : fdtab[c][d] =
             IF Targets(d) = {} THEN Tty ELSE File(Max(Targets(d)))

\* When execute_pipeline returns, every command it started has been waited
\* for and the shell's descriptors are what they were: unless a fork failed,
\* and even after a pipe() failed unless the junk happens to name one of them.
NothingLeftBehind ==
    pc[Shell] = "returned" /\ ~forkFailed =>
        /\ \A c \in Proc \ {Shell} : parent[c] = Shell => pc[c] \in {"unborn", "reaped"}
        /\ ~pipeFailed \/ Harmless(DOMAIN junk) =>
             fdtab[Shell] = [f \in Fd |-> IF f \in Std THEN Tty ELSE Closed]

\* What && and || go by: a lone command that is not run, because its name or
\* one of its redirections is no good, or that a signal ended, is not taken
\* for a success.  (A pipeline counts as one whatever its commands did.)
StatusTells ==
    pc[Shell] = "returned" /\ n = 1 /\ status = 0 =>
        /\ LoneName \notin {"unknown", "noexec"}
        /\ LoneName \notin {"builtin", "empty"} =>
             /\ \A k \in DOMAIN redirs : ~Refused(redirs[k])
             /\ code = Exited(0)

\* Every endless writer is followed by a command that stops reading, and the
\* children of a pipeline can be executed.
Stops(l) ==
    \/ l[1] # "yes" /\ Len(l) = 1
    \/ /\ Len(l) > 1
       /\ \A i \in 1..Len(l) : l[i] # "noexec"
       /\ \A i \in 1..Len(l) : l[i] = "yes" =>
            \E j \in (i+1)..Len(l) : l[j] \notin {"yes", "cat"}

\* Such a pipeline terminates and the shell gets control back: the end of the
\* input reaches every reader and the loss of the reader every writer,
\* whatever junk the children close, as long as the pipes could be made.
PipelineReturns ==
    Stops(line) ~> (pc[Shell] = "returned" \/ pipeFailed \/ (n = 1 /\ forkFailed))

\* "If execvp fails in the child, the child process exits/returns with status
\* 1 rather than returning control to the caller" (exec.h): no process but the
\* shell goes on with execute_pipes.
ChildrenDoNotReturn == \A p \in Proc \ {Shell} : pc[p] \notin {"loop", "wait", "returned"}
=============================================================================
