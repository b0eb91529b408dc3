-------------------------------- MODULE Jobs --------------------------------
(***************************************************************************)
(* The shell's process table as the interactive loop sees it: the prompt   *)
(* loop of exec.c (repl), the forks and waits of exec.c and expand.c, and  *)
(* the job list, the SIGCHLD flag and the reaper of jobs.c.                *)
(*                                                                         *)
(* One shell thread (pc) runs against the kernel: children exit or stop at *)
(* any moment, a SIGCHLD stays pending until it is delivered between two   *)
(* steps of the shell, and a pid whose status was collected may be given   *)
(* to the next child.  What the children execute is abstracted; so is the  *)
(* text of a line, of which only the forks, the `jobs` and the `exit` it   *)
(* asks for remain.                                                        *)
(***************************************************************************)
EXTENDS Integers, SequencesExt

CONSTANTS
    Pid,        \* the process ids the kernel may hand out
    MaxForks,   \* forks and builtins one command line may ask for (a bound)
    MaxPipe     \* commands of the longest pipeline (a bound)

ASSUME MaxForksAssumption == MaxForks \in Nat
ASSUME MaxPipeAssumption == MaxPipe \in Nat

VARIABLES
    pc,         \* where the shell thread is
    ret,        \* where the call in progress returns to
    left,       \* forks and builtins the line may still ask for
    pids,       \* children held in local variables: pid, or pids[] of a pipeline
    todo,       \* commands of the pipeline that are still to be forked
    cursor,     \* the node print_jobs looks at
    allocated,  \* job_list # nullptr
    jobs,       \* the nodes of job_list, head first
    flag,       \* child_exited_flag
    pending,    \* a SIGCHLD that the kernel has not delivered yet
    child,      \* the kernel's view of the shell's children
    pipeFailed  \* history: a fork failed after a pipeline had forked a command

control == <<pc, ret, left, pids, todo, cursor, pipeFailed>>
table   == <<allocated, jobs>>
signal  == <<flag, pending>>
vars    == <<control, table, signal, child>>

Job == [pid : Pid, num : Nat \ {0}]

Dead == {"exited", "segv_parse", "segv_reaper"}

PC == {"top", "readline", "expand", "exec", "register", "pipe", "wait",
       "jobs", "clear", "reap"} \cup Dead

TypeOK ==
    /\ pc \in PC
    /\ ret \in {"readline", "expand", "exec"}
    /\ left \in 0..MaxForks
    /\ pids \in Seq(Pid)
    /\ todo \in 0..MaxPipe
    /\ cursor \in Nat \ {0}
    /\ allocated \in BOOLEAN
    /\ jobs \in Seq(Job)
    /\ flag \in BOOLEAN
    /\ pending \in BOOLEAN
    /\ child \in [Pid -> {"free", "running", "zombie"}]
    /\ pipeFailed \in BOOLEAN

Init ==
    /\ pc = "top"
    /\ ret = "readline"
    /\ left = 0
    /\ pids = <<>>
    /\ todo = 0
    /\ cursor = 1
    /\ allocated = FALSE
    /\ jobs = <<>>
    /\ flag = FALSE
    /\ pending = FALSE
    /\ child = [p \in Pid |-> "free"]
    /\ pipeFailed = FALSE

JobPids    == {jobs[i].pid : i \in 1..Len(jobs)}
JobNumbers == {jobs[i].num : i \in 1..Len(jobs)}
Held       == {pids[i] : i \in 1..Len(pids)}

-----------------------------------------------------------------------------
(* The kernel and the children. *)

\* A child terminates: it stays a zombie until waitpid collects it.
ChildExit(p) ==
    /\ pc \notin Dead
    /\ child[p] = "running"
    /\ child' = [child EXCEPT ![p] = "zombie"]
    /\ pending' = TRUE
    /\ UNCHANGED <<control, table, flag>>

\* The handler is installed without SA_NOCLDSTOP: a child that stops or
\* continues raises SIGCHLD too, and there is nothing to collect.
ChildStops(p) ==
    /\ pc \notin Dead
    /\ child[p] = "running"
    /\ pending' = TRUE
    /\ UNCHANGED <<control, table, flag, child>>

\* Mutant: the handler reaps by itself.
HandlerReaps ==
    /\ pc \notin Dead
    /\ pending
    /\ pending' = FALSE
    /\ child' = [p \in Pid |-> IF child[p] = "zombie" THEN "free" ELSE child[p]]
    /\ jobs' = SelectSeq(jobs, LAMBDA j : child[j.pid] # "zombie")
    /\ UNCHANGED <<control, allocated, flag>>

\* The handler runs between two steps of the shell; SA_RESTART restarts the
\* call it interrupts.
sigchld_handler ==
    /\ pc \notin Dead
    /\ pending
    /\ pending' = FALSE
    /\ flag' = TRUE
    /\ UNCHANGED <<control, table, child>>

Fork(p) ==
    /\ child[p] = "free"
    /\ child' = [child EXCEPT ![p] = "running"]

-----------------------------------------------------------------------------
(* check_background_jobs and report_and_reap_jobs. *)

\* Entering check_background_jobs with the return address r.
Check(r) ==
    IF flag THEN /\ pc' = "clear"
                 /\ ret' = r
            ELSE /\ pc' = r
                 /\ ret' = ret

ClearFlag ==
    /\ pc = "clear"
    /\ flag' = FALSE
    /\ pc' = "reap"
    /\ UNCHANGED <<ret, left, pids, todo, cursor, pipeFailed, table, pending,
                   child>>

\* Mutant: the head of the list is not advanced past the removed node.
RemoveKeepsHead(p) ==
    \E i \in 1..Len(jobs) :
        /\ jobs[i].pid = p
        /\ \A j \in 1..(i-1) : jobs[j].pid # p
        /\ jobs' = IF i = 1 THEN jobs ELSE RemoveAt(jobs, i)

\* jl_remove: the first node with this pid is unlinked.
jl_remove(p) ==
    \E i \in 1..Len(jobs) :
        /\ jobs[i].pid = p
        /\ \A j \in 1..(i-1) : jobs[j].pid # p
        /\ jobs' = RemoveAt(jobs, i)

\* Mutant: `if` instead of `while`, one child per check.
ReapOne(p) ==
    /\ pc = "reap"
    /\ child[p] = "zombie"
    /\ child' = [child EXCEPT ![p] = "free"]
    /\ pc' = IF allocated THEN ret ELSE "segv_reaper"
    /\ IF p \in JobPids THEN jl_remove(p) ELSE jobs' = jobs
    /\ UNCHANGED <<ret, left, pids, todo, cursor, pipeFailed, allocated, signal>>

\* One turn of the reaping loop.  get_job_by_pid reads job_list->head, which
\* is a null dereference when no job was ever registered.
Reap(p) ==
    /\ pc = "reap"
    /\ child[p] = "zombie"
    /\ child' = [child EXCEPT ![p] = "free"]
    /\ \/ /\ ~allocated
          /\ pc' = "segv_reaper"
          /\ jobs' = jobs
       \/ /\ allocated
          /\ pc' = pc
          /\ \/ jl_remove(p)
             \/ p \notin JobPids /\ jobs' = jobs
    /\ UNCHANGED <<ret, left, pids, todo, cursor, pipeFailed, allocated, signal>>

\* waitpid(-1, WNOHANG) finds nothing to collect: the loop ends.
ReapDone ==
    /\ pc = "reap"
    /\ \A p \in Pid : child[p] # "zombie"
    /\ pc' = ret
    /\ UNCHANGED <<ret, left, pids, todo, cursor, pipeFailed, table, signal,
                   child>>

-----------------------------------------------------------------------------
(* The prompt. *)

Top ==
    /\ pc = "top"
    /\ Check("readline")
    /\ UNCHANGED <<left, pids, todo, cursor, pipeFailed, table, signal, child>>

\* Mutant: rl_event_hook is not installed.
NoEventHook == FALSE

\* readline calls rl_event_hook while it waits for a key.
EventHook ==
    /\ pc = "readline"
    /\ flag
    /\ Check("readline")
    /\ UNCHANGED <<left, pids, todo, cursor, pipeFailed, table, signal, child>>

\* A line that parses; an empty one, or the end of the input, which starts
\* the loop over; one that does not parse, whose null list expand_list
\* dereferences.
EnterLine ==
    /\ pc = "readline"
    /\ pc' = "expand"
    /\ left' = MaxForks
    /\ UNCHANGED <<ret, pids, todo, cursor, pipeFailed, table, signal, child>>

EmptyLine ==
    /\ pc = "readline"
    /\ pc' = "top"
    /\ UNCHANGED <<ret, left, pids, todo, cursor, pipeFailed, table, signal,
                   child>>

BadLine ==
    /\ pc = "readline"
    /\ pc' = "segv_parse"
    /\ UNCHANGED <<ret, left, pids, todo, cursor, pipeFailed, table, signal,
                   child>>

-----------------------------------------------------------------------------
(* Children the shell waits for: a command substitution while the line is  *)
(* expanded, a foreground command while it is executed, and an external    *)
(* completer while the line is edited.                                     *)

Spend ==
    /\ left > 0
    /\ left' = left - 1

ForkAndWait(p, from) ==
    /\ pc = from
    /\ IF from = "readline" THEN left' = left ELSE Spend
    /\ Fork(p)
    /\ pids' = <<p>>
    /\ pc' = "wait"
    /\ ret' = from
    /\ UNCHANGED <<todo, cursor, pipeFailed, table, signal>>

\* A substitution whose fork fails expands to nothing and a completer whose
\* fork fails offers nothing: the shell stays where it is.  execute_command
\* ends the shell.
ForegroundForkFails ==
    /\ pc = "exec"
    /\ Spend
    /\ pc' = "exited"
    /\ UNCHANGED <<ret, pids, todo, cursor, pipeFailed, table, signal, child>>

\* Mutant: the loop over pids[] does not move on.
WaitSame ==
    /\ pc = "wait"
    /\ pids # <<>>
    /\ child[Head(pids)] \in {"zombie", "free"}
    /\ child' = [child EXCEPT ![Head(pids)] = "free"]
    /\ UNCHANGED <<control, table, signal>>

\* Mutant: only the first command of a pipeline is waited for.
WaitFirstOnly ==
    /\ pc = "wait"
    /\ pids # <<>>
    /\ child[Head(pids)] \in {"zombie", "free"}
    /\ child' = [child EXCEPT ![Head(pids)] = "free"]
    /\ pids' = <<>>
    /\ UNCHANGED <<pc, ret, left, todo, cursor, pipeFailed, table, signal>>

\* waitpid(pid, ..) blocks until the child has exited, and returns at once
\* (ECHILD) for a pid that is not a child.
WaitChild ==
    /\ pc = "wait"
    /\ pids # <<>>
    /\ child[Head(pids)] \in {"zombie", "free"}
    /\ child' = [child EXCEPT ![Head(pids)] = "free"]
    /\ pids' = Tail(pids)
    /\ UNCHANGED <<pc, ret, left, todo, cursor, pipeFailed, table, signal>>

WaitDone ==
    /\ pc = "wait"
    /\ pids = <<>>
    /\ pc' = ret
    /\ UNCHANGED <<ret, left, pids, todo, cursor, pipeFailed, table, signal,
                   child>>

-----------------------------------------------------------------------------
(* execute_list, once everything is expanded. *)

ExpandDone ==
    /\ pc = "expand"
    /\ pc' = "exec"
    /\ UNCHANGED <<ret, left, pids, todo, cursor, pipeFailed, table, signal,
                   child>>

\* execute_andor_bg forks; when fork fails it only reports.
ForkBackground(p) ==
    /\ pc = "exec"
    /\ Spend
    /\ Fork(p)
    /\ pids' = <<p>>
    /\ pc' = "register"
    /\ UNCHANGED <<ret, todo, cursor, pipeFailed, table, signal>>

\* Mutant: any free number.
NumberNotSmallest(n) == n \notin JobNumbers

\* get_next_job_number: the smallest number from 1 that no job has.
IsNextNumber(n) ==
    /\ n \notin JobNumbers
    /\ \A m \in 1..(n-1) : m \in JobNumbers

\* Mutant: jobs are numbered by their place in the list, from 0.
RegisterFromZero ==
    /\ pc = "register"
    /\ jobs' = Append(jobs, [pid |-> Head(pids), num |-> Len(jobs)])
    /\ allocated' = TRUE
    /\ pids' = <<>>
    /\ pc' = "exec"
    /\ UNCHANGED <<ret, left, todo, cursor, pipeFailed, signal, child>>

register_job ==
    /\ pc = "register"
    /\ \E n \in 1..(Len(jobs) + 1) :
        /\ IsNextNumber(n)
        /\ jobs' = Append(jobs, [pid |-> Head(pids), num |-> n])
    /\ allocated' = TRUE
    /\ pids' = <<>>
    /\ pc' = "exec"
    /\ UNCHANGED <<ret, left, todo, cursor, pipeFailed, signal, child>>

\* execute_pipes forks its commands one after the other.
StartPipeline(n) ==
    /\ pc = "exec"
    /\ left >= n
    /\ left' = left - n
    /\ todo' = n
    /\ pc' = "pipe"
    /\ UNCHANGED <<ret, pids, cursor, pipeFailed, table, signal, child>>

ForkPipeCommand(p) ==
    /\ pc = "pipe"
    /\ todo > 0
    /\ Fork(p)
    /\ pids' = Append(pids, p)
    /\ todo' = todo - 1
    /\ UNCHANGED <<pc, ret, left, cursor, pipeFailed, table, signal>>

\* A failed fork abandons the commands already forked: nobody waits for them.
PipeForkFails ==
    /\ pc = "pipe"
    /\ todo > 0
    /\ pipeFailed' = (pipeFailed \/ pids # <<>>)
    /\ pids' = <<>>
    /\ todo' = 0
    /\ pc' = "exec"
    /\ UNCHANGED <<ret, left, cursor, table, signal, child>>

PipeForked ==
    /\ pc = "pipe"
    /\ todo = 0
    /\ pc' = "wait"
    /\ ret' = "exec"
    /\ UNCHANGED <<left, pids, todo, cursor, pipeFailed, table, signal, child>>

\* The `jobs` builtin: print_jobs collects each job that has exited and
\* removes it, then calls check_background_jobs.
JobsBuiltin ==
    /\ pc = "exec"
    /\ Spend
    /\ allocated' = TRUE
    /\ cursor' = 1
    /\ pc' = "jobs"
    /\ UNCHANGED <<ret, pids, todo, pipeFailed, jobs, signal, child>>

check_and_print_job ==
    /\ pc = "jobs"
    /\ cursor <= Len(jobs)
    /\ LET p == jobs[cursor].pid IN
        \/ /\ child[p] = "zombie"
           /\ child' = [child EXCEPT ![p] = "free"]
           /\ jl_remove(p)
           /\ cursor' = cursor
        \/ /\ child[p] # "zombie"
           /\ cursor' = cursor + 1
           /\ UNCHANGED <<child, jobs>>
    /\ UNCHANGED <<pc, ret, left, pids, todo, pipeFailed, allocated, signal>>

JobsDone ==
    /\ pc = "jobs"
    /\ cursor > Len(jobs)
    /\ Check("exec")
    /\ UNCHANGED <<left, pids, todo, cursor, pipeFailed, table, signal, child>>

ExitBuiltin ==
    /\ pc = "exec"
    /\ Spend
    /\ pc' = "exited"
    /\ UNCHANGED <<ret, pids, todo, cursor, pipeFailed, table, signal, child>>

LineDone ==
    /\ pc = "exec"
    /\ pc' = "top"
    /\ UNCHANGED <<ret, left, pids, todo, cursor, pipeFailed, table, signal,
                   child>>

\* The shell is gone: its children are no longer its own.
Stopped ==
    /\ pc \in Dead
    /\ UNCHANGED vars

-----------------------------------------------------------------------------
\* What the user decides while a line is edited.
UserStep ==
    \/ EnterLine
    \/ EmptyLine
    \/ BadLine
    \/ \E p \in Pid : ForkAndWait(p, "readline")

ShellStep ==
    \/ Top \/ EventHook \/ ClearFlag \/ ReapDone
    \/ \E p \in Pid : Reap(p)
    \/ \E p \in Pid, from \in {"expand", "exec"} : ForkAndWait(p, from)
    \/ ForegroundForkFails
    \/ WaitChild \/ WaitDone
    \/ ExpandDone
    \/ \E p \in Pid : ForkBackground(p)
    \/ register_job
    \/ \E n \in 2..MaxPipe : StartPipeline(n)
    \/ \E p \in Pid : ForkPipeCommand(p)
    \/ PipeForkFails \/ PipeForked
    \/ JobsBuiltin \/ check_and_print_job \/ JobsDone
    \/ ExitBuiltin \/ LineDone

KernelStep ==
    \/ \E p \in Pid : ChildExit(p) \/ ChildStops(p)
    \/ sigchld_handler

Next == UserStep \/ ShellStep \/ KernelStep \/ Stopped

Spec == Init /\ [][Next]_vars

\* The shell is one thread that keeps running, and the kernel delivers what is
\* pending; nothing is assumed of the user or of the children.
FairSpec == Spec /\ WF_vars(ShellStep) /\ WF_vars(sigchld_handler)

-----------------------------------------------------------------------------
(* Safety. *)

\* No two nodes of the list have the same pid or the same number: `[n] pid`
\* names one job, and jl_remove and get_job_by_pid find the one they mean,
\* although numbers and pids are both used again.
JobsDistinct ==
    \A i, j \in 1..Len(jobs) :
        i # j => jobs[i].pid # jobs[j].pid /\ jobs[i].num # jobs[j].num

\* A listed job is a child whose status nobody has collected: otherwise its
\* pid could belong to an unrelated process, and `jobs` would speak of that.
JobsAreChildren ==
    \A p \in JobPids : child[p] # "free"

HeldDistinct == \A i, j \in 1..Len(pids) : i # j => pids[i] # pids[j]

\* waitpid in execute_command, execute_pipes, capture_list_output and the
\* completer finds its own child: the reaper, which collects any child, never
\* took the status away, and no pid is waited for twice.
ForegroundNotStolen ==
    /\ \A p \in Held : child[p] # "free"
    /\ HeldDistinct
    /\ Held \cap JobPids = {}

\* A child that has exited is never forgotten: a SIGCHLD is on its way, the
\* flag is up, or the reaper is still looping.  check_background_jobs must
\* lower the flag before it reaps for this.
NoLostWakeup ==
    (pc \notin Dead /\ \E p \in Pid : child[p] = "zombie")
        => pending \/ flag \/ pc \in {"clear", "reap"}

\* Every child is a job or is waited for, unless a pipeline was abandoned
\* half way; so the reaper meets a child it does not know, and with an
\* unallocated list a null pointer, only after such a failure.
ReaperFaultNeedsForkFailure ==
    /\ ~pipeFailed => \A p \in Pid :
                         child[p] # "free" => p \in JobPids \cup Held
    /\ pc = "segv_reaper" => pipeFailed

\* repl "loops indefinitely", and execute_list is declared where pointers are
\* assumed not to be null (exec.h): no line makes it dereference one.
LinesNeverFault == pc # "segv_parse"

\* Children are held in local variables only between their fork and the end
\* of the wait, and register_job runs with the one child just forked.
HeldWhileWaiting ==
    /\ pc \notin {"wait", "register", "pipe"} => pids = <<>>
    /\ pc = "register" => Len(pids) = 1

\* Only the reaper reads job_list without allocating it first.
ListAllocated == ~allocated => jobs = <<>>

\* The inductive invariant of JobsProofs.
IInv ==
    /\ TypeOK
    /\ ListAllocated
    /\ HeldWhileWaiting
    /\ JobsDistinct
    /\ JobsAreChildren
    /\ ForegroundNotStolen
    /\ NoLostWakeup
    /\ ReaperFaultNeedsForkFailure

-----------------------------------------------------------------------------
(* The list implements the job table. *)

\* The pid that stands beside number n in the nodes s.
PidIn(s, n) == s[CHOOSE k \in 1..Len(s) : s[k].num = n].pid

TableBar  == [n \in JobNumbers |-> PidIn(jobs, n)]
ExitedBar == {n \in JobNumbers : child[TableBar[n]] = "zombie"}

Table == INSTANCE JobTable WITH table <- TableBar, exited <- ExitedBar

\* Through every fork, exit, signal, hook and `jobs`, the nodes of job_list
\* behave as the table of JobTable: the smallest free number, kept until the
\* single report that follows the exit.
JobListIsTable == Table!TableSpec

-----------------------------------------------------------------------------
(* Liveness. *)

\* A background job that has exited is reported and removed, although the
\* user may type nothing more, unless the shell ends, or waits for ever for
\* some foreground child, or the user asks for completions without a pause
\* (readline calls the hook when no key comes for a while).
ExitedJobsAreReported ==
    <>[](pc # "wait") \/ []<>(pc = "top") =>
        \A p \in Pid : (p \in JobPids /\ child[p] = "zombie")
                          ~> (p \notin JobPids \/ pc \in Dead)

\* If no child runs for ever, a line that was entered is executed to its end
\* and the shell prompts again, or ends.
LinesReturn ==
    (\A p \in Pid : []<>(child[p] # "running")) =>
        ((pc = "expand") ~> (pc \in {"readline"} \cup Dead))
=============================================================================
