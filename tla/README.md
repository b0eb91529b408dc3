# A formal model of codecrafters-shell-c

TLA+ modules of the shell under `src/`, TLC configurations that check them on
small instances, and proofs that TLAPS checks for every instance. Everything is
translated from the C source; line numbers of each definition are in
`PROJECT.json` ("map"), and the hazards the properties are aimed at are there
too, each at its line.

    tlc -workers 2 -config MC_Jobs.cfg MC_Jobs      # model-check a run
    tlapm JobsProofs.tla                            # check the proofs; likewise the other seven

## 1. The system

The shell is one process with one thread, a signal handler that sets a flag,
and children: foreground commands, members of pipelines, command substitutions,
completion scripts and background chains. Some children are copies of the shell
that go on running its C code.

    readline --line--> lexer --tokens--> parser --List--> expand_list --> execute_list
       |   ^                                               |    |           |   |   |
       |   +-- rl_event_hook: check_background_jobs        |    |   single --+   |   +-- "&": execute_andor_bg
       +-- Tab: completion generators                      |   vars  command   pipes          |
                                                 $(...) child                        register_job -> job list
    kernel --SIGCHLD--> child_exited_flag --> check_background_jobs --> report_and_reap_jobs ---^

| component | source | state it keeps | operations | correct when |
|---|---|---|---|---|
| Prompt loop, job list, SIGCHLD | `exec.c` (repl, the forks and waits), `jobs.c` | `job_list`, `child_exited_flag`, the kernel's children, pids in local variables | reading a line, `check_background_jobs`, `report_and_reap_jobs`, `register_job`, `print_jobs`, `jl_remove`, every fork and `waitpid` | a listed job is a child nobody collected; numbers and pids are distinct; the reaper takes nothing somebody waits for; no exit is forgotten; an exited job is reported once |
| Pipelines and single commands | `exec.c` execute_pipeline, execute_command, execute_pipes | `pipes[][2]`, `pids[]`, a descriptor table per process, the child's status | pipe, fork, dup2, open, close, waitpid, exec and its failure, redirections | neighbours and only neighbours are connected, the last redirection of a stream wins, nothing stays open or unwaited, a status tells a failure, the shell gets control back |
| Parser and list execution | `parser.c`, `parsetypes.c`, `exec.c` | token position, the List, status of a chain | `parse_list` .. `parse_command`, `expand_list`, `execute_list`, `execute_andor`, `execute_andor_bg` | nothing is dropped, or run twice or out of order by the processes of one root; operators and separators reach the side they belong to |
| Hash table, variables | `hashtable.c`, `vars.c` | chains, size, capacity | put, get, contains, remove, resize, entryset; assign, export, unassign, lookup, fork_exported | the table is a map whatever collides, grows or is overwritten |
| Completion | `completion.c`, `builtins.c` | registry, five static variables | register, unregister, the four generators, the script | candidates are what the script printed; one completion does not leak into the next |
| Lexer, token list | `lexer.c`, `tokenlist.c` | the stream's position, the pointers around a token, the quote flag | `lx_tokenize`, `lx_token`, `lx_scan`, `lx_scan_operator` | the tokens cover the line; a quote or a substitution without an end is an error |
| Expansion | `expand.c` | a pointer into the word, a quote flag, the text written | `expand_word`, `expand_dollarsign` and what they call | it takes a word apart the way the lexer put it together, and stays inside it |
| History | `builtins.c`, `exec.c` | readline's list and `history -a`'s static counter in every process, the files | -r, -w, -a, n; reading at the start, exit_handler; forks | no entry is written twice or lost, within a session and from one to the next |
| String builder | `stringbuilder.c` | buffer, size, capacity | sb_appends, sb_appendc, sb_appendl, sb_takestring | writes stay where they belong, the text is whole and terminated |
| Word list | `wordlist.c` | a linked list | append, to argv | - |
| Other builtins, PATH search, main, tests | `builtins.c`, `path.c`, `main.c`, `tests/` | the working directory, a `declare` table | cd, echo, pwd, type, declare | - |

What is hard here: SIGCHLD at any point between two steps and a reaper that
collects *any* child while several other places wait for particular ones; pids
and job numbers that are used again; forks that fail half way; children that
inherit descriptors and uninitialized memory; children that return into the
parent's code; static variables that survive from one Tab to the next; a resize
in the middle of a put; copies of the shell that hold an older history and write
it when they exit; a `pipe()` that fails and leaves junk numbers to be closed; buffer
arithmetic without a sign.

## 2. The modules

| module | models | state |
|---|---|---|
| `JobTable` | abstract: the table from job numbers to processes that a user sees | `table`, `exited` |
| `Jobs` | the loop, the kernel's view of children, the job list | 12 variables |
| `Pipeline` | execute_pipeline: single commands with redirections, pipelines, all with descriptors | 17 variables |
| `Eval` | token types to the processes that run them | 9 variables |
| `HashTable` | the chained table as operators on a value | none |
| `Vars` | the shell variables over `HashTable` | 5 variables |
| `Completion` | the registry and the generators | 10 variables |
| `Lexer` | `lx_tokenize`: characters to tokens | 11 variables |
| `Expand` | `expand_word` over the words of `Lexer`, which it extends | 6 more |
| `History` | the history list, its files and who writes them | 13 variables |
| `StringBuilder` | the buffer cell by cell, and the byte behind it | 7 variables |
| `JobsProofs`, `PipelineProofs`, `EvalProofs`, `VarsProofs`, `CompletionProofs`, `ExpandProofs` (with `Lexer`), `HistoryProofs`, `StringBuilderProofs` | the theorems about these modules | - |
| `MC_*` | the constants of the runs | - |

The modules meet at narrow interfaces and abstract each other there: `Jobs`
sees of a line only the forks, `jobs` and `exit` it asks for; `Eval` sees of a
pipeline that it runs in a process, gives 0 or 1 and may leave copies of that
process behind, and begins with the
types of the tokens that `Lexer` ends with; `Pipeline` is one call
of what `Eval` names by its start, with the redirections that `Eval` collects as
targets, and its `status` is what `Eval`'s chains go by; `Vars` is what `Eval`'s
`ExpandCommand` writes to; `StringBuilder` is what `Expand` writes to;
`History` sees of a line that it is entered and which processes it makes.

### Jobs

`pc` is the place of the shell's thread: `top` (before `check_background_jobs`
in `repl`), `readline`, `expand`, `exec`, `register` (between `fork` and
`register_job`), `pipe` (the fork loop), `wait`, `jobs` (the loop of
`print_jobs`), `clear` and `reap` (inside `check_background_jobs`), and three
ways to end. `ret` is the return address of a check or a wait. `child` is the
kernel's table: free, running or zombie; `Fork` may give out any free pid, so
pids are reused at once. `pending` is the SIGCHLD the kernel holds back, `flag`
is `child_exited_flag`. `pids` are the children held in C locals.

Kernel actions: `ChildExit`, `ChildStops` (the handler is installed without
SA_NOCLDSTOP), `sigchld_handler`. They interleave with every shell action.
`Reap` and `check_and_print_job` are one turn of their loops, so that signals
and exits fall between any two turns. `EventHook` is readline calling
`check_background_jobs` while it is idle. `ForkAndWait` stands for the three
places that fork one child and wait for it: `execute_command` (from `exec`),
`capture_list_output` (from `expand`), the completer (from `readline`).
`PipeForkFails` is the early return of `execute_pipes`; the children it leaves
are neither held nor listed from then on (`pipeFailed` remembers it).

Left out: what jobs print, the names of commands, the copy of the job list that
subshells inherit.

### Pipeline

One call of `execute_pipeline`. A line of one command starts at `lone`: `RunInShell`
is a builtin or a command without a name, `ForkLone`, `ApplyRedirect`, `ExecLone` and
`WaitLone` are `execute_command`, its child and its wait. `Redirected` is one turn of
the child's loop: `open` takes the lowest free number, `dup2` moves it to the
number of the redirection if that is the mode's own, and `close` ends it; a failed
`open` changes nothing, because the code does not look at it; a here-document, an
error redirection or an input to another number ends the child (`Refused`).

A longer line starts at `loop`, which is `execute_pipes`; it never looks at
redirections. Every process has a program counter and a descriptor table; `fork`
copies the table and the locals `pipes`, `pids` and `i`. `pipes[]` is uninitialized in the
C code, so its entries start as any member of `Junk`; `Turns` lets `pipe()` fail,
its result is ignored, and the junk stays. `ChildTable` and `CloseEnds` close
these numbers as `execute_pipes` does. After a failed `execvp` (kind `noexec`)
the child goes on with the loop, as in the code. Commands are one of eight kinds: four
ways to use descriptors (write once, write for ever, forward, read once), a builtin,
an unknown name, a file that cannot be executed, and no name at all; a
pipe is a buffer of one datum with end-of-file and SIGPIPE.
`dup2` and `close` of one process between fork and exec are one step: for the
other processes they change only which ends are held, each end at most once, and
a read or a write looks at one end; an intermediate state lets nobody do what the
state before or after does not. `Killed`, a signal from outside, is modelled for
single commands only, whose status it changes.

### Eval

Tokens have only their types. The four parser functions nest to a fixed depth,
so a token decides which level goes on; `Parse` is one turn with an alternative
per token type, and `list` is the `List` being built. `ExpandCommand` is one
call of `expand_command` inside `expand_list`, which walks over the whole line
before anything runs: assignments are carried out one after the other, then the
targets of redirections and the arguments are expanded. `assigned` holds the
assignments carried out so far, and `seen` those that each word saw when it was
expanded.

From then on the line may have several processes. `pc` is the place of each, and
`local` its locals in `execute_list` (`li`), `execute_andor` (`ai`, `status`) and
`execute_pipes` (`iter`; `awaited`, the copies of itself among `pids[]`), with
`job`, the chain it was forked for by `execute_andor_bg`, and two histories,
`root` and `after`. A fork copies the frame. `StartChain` and `ForkChain` are a
turn of `execute_list`, `AndOrTurn` one of `execute_andor`, `ForkMember` one of
the loop of `execute_pipes`, whose end is `WaitMembers`. A lone command yields
either status, or ends its process (`exit`, failed fork). A member of a pipeline
*is* its command and appears no more, except one whose `execvp` fails: that child
comes back from `execute_pipes`, forks the members behind it again, runs the rest
of its chain and of its list once more, background chains included, and goes to a
prompt of its own (`done`), or to the `_exit` of the background child it is a copy
of (`exited`). The process that forked it waits until somebody leaves that prompt
(`SecondShellEnds`). A redirection without a target is the null dereference it is
in the code.

`InOrderOnce` and `ChainsRun` therefore speak of processes: with
`echo a | noexec ; echo b` the shell and the copy both run `echo b`. What may not
happen is that the shell and the children it forked run something twice, or one
such copy and the children it forked; that anybody runs what lies in front of the
token it was forked at; or that a chain runs anywhere but in the foreground
without `&`, and in children forked for it with `&`. `MaxForks` processes besides
the commands can be forked; a fork beyond them fails.

### HashTable and Vars

A table value has `capacity`, `size` and one chain per bucket. `ht_put` is
translated with its peculiarities: the bucket is chosen before the table grows,
overwriting unlinks what came behind the old node, `size` counts every put and
is not reset by a resize. `Vars` calls it as `vars.c` does. `current` is the
abstract map, `damaged` remembers that one of the three named events happened
(`Damages`): a put unlinked other nodes, landed in the bucket of the old
capacity, or found the table at its limit.
`blist_remove` reads a node it has freed; the model takes the outcome of the
default build, where `next` is still intact. The shell itself calls only
`var_init_from_environ`, `var_assign` and the lookups; `var_export`,
`var_unassign` and `fork_exported` are the module's interface and used by the
tests.

### Completion

The registry is an array of pairs with a limit. Readline (external) is modelled
from how the code is called: `PressTab` chooses a generator as
`shell_completion_function` does, a generator is called with the number of
candidates collected so far until it returns null, and `GiveUp` is readline
leaving early. `completions`, `cmp_idx`, `phase`, `list_index` and `path_pos`
are the static variables; the model resets them only where the code does. `Hang` is
`find_current_word` when the text is at no beginning of a word.

### Lexer and Expand

`pc` says where the lexer is: at the entry of `lx_scan` (`token`), in its loop
(`scan`), in the loop over a command substitution (`sub`), or behind the last
token (`tokenized`) or an error. The stream's position and the pointers `begin`
and `end` are separate offsets, as in the code, because the code moves them
separately: `Backslash` moves `end` by two and `pos` by one at an escaped blank.
The actions of `Scan` are the branches of the loop in the order of the code;
`EndOfTurn` is the condition of the loop, which looks at the character that was
next before the turn, and at the one after the escaped blank.
A token is its type, its place and the position where its scan stopped.

`epc` says where the expansion is. `NextWord` takes the words of a tokenized line
one after the other, `expand_word` is one turn of its loop: `Quote`, `Escape`,
`Copy`, and the three things `$` can mean. The functions behind `$` are one step
each: nothing else touches what they read. The text of a word ends at `WordEnd`, also when
`end` has run over the end of the line, because of the null there. Behind a last
backslash the code passes the terminator and reads what lies behind it; the model
stops in `overrun` there and gives that memory no value.

`toggled`, `closed`, `removed` and `bodyEnds` are histories: the offsets at which
each scanner matched a quote or ended a substitution. The last two are about one word and start
empty with the next: an escaped blank makes a word reach into the one behind it,
where the expansion of the first may match other quotes than that of the second. `Regular` describes the
words for which the two must agree, and every exception in it is one the code
makes: a backslash before a quote (the lexer opens a quotation, the expansion
copies the quote), parentheses, quotes or `$` inside `$(...)` (the lexer nests, the
expansion stops at the first `)`), a quote behind `$` (a name that is not a
variable swallows everything up to a blank), and backquotes (a substitution for
the lexer only). A `$(` inside double quotes is regular as long as it holds no quotes:
the lexer sees only characters there, the expansion runs it.

Left out: the descriptor number of a redirection, the text written, `~`, the
values of variables. An assignment earlier in the line may make another name known;
`Known` is the same for the whole line.

### History

Every process has the list, and `appended` is its copy of `entries_appended`.
The shell's `pc` goes from `ended` over `prompt` to `running` (a line is executed) and
`await` (a substitution is read). `Fork` makes a copy, awaited or in the
background. The ways to leave differ as in the code: `Exit` is the builtin `exit`
and runs `exit_handler`; `Finish` is the copies' `_exit`; `Crash` skips the
handler; `MemberExits` is a builtin in a pipeline, whose child calls `exit`
and therefore writes the history too. `StartUp` is the next session, so that what one
leaves is what the other reads. Reading or writing a file may fail.
`append_history` has three outcomes: it writes, it fails with -1, or it fails with
a positive errno, which the code does not see; in that last case the counter moves on and
`dropped` remembers the entries. `saved` is what the properties hold the shell
to: entries its own writes have put into the file, or that it found there.

### StringBuilder

`str` has one cell per byte of the buffer: a zero, the character that belongs there,
or another one. `capacity - (size - 1)`, which the code computes without a sign, is
`capacity + 1 - size`: the same number as long as `size` is at most `capacity + 1`, which
`OneByteBehind` says. `sb_appendc` may write the byte behind the buffer, and so may
`sb_appends`, whose `strcat` puts the terminator there when the text fits exactly; whether
`realloc` keeps it, and what new memory holds, is a choice (`Reallocated`).
`dirty`, `lost`, `cut` and `over` are histories of the four things that can go
wrong. `Usable` stops after a byte further out was written.

## 3. Runs

| run | bounds | states | shows |
|---|---|---|---|
| `jobs` | 3 pids (symmetric), 3 forks a line, pipelines of up to 3, unbounded number of lines | all reachable | `JobsAreChildren`, `ForegroundNotStolen`, `NoLostWakeup`, `ReaperFaultNeedsForkFailure`; the list implements `JobTable` (`JobListIsTable`) |
| `jobs_live` | 2 pids, 2 forks, pipelines of 2 | all | `ExitedJobsAreReported`, `LinesReturn` |
| `pipeline` | each of 8 commands alone with up to 2 of 9 redirections, all 64 pairs, 19 triples, 3 kinds of junk, any fork or `pipe()` failing | 97 000 | `Connected`, `RedirectionsInForce`, `StatusTells`, `NothingLeftBehind`, `PipelineReturns` |
| `pipeline_exec` | same | until the violation | finding 1 |
| `eval` | every line of up to 3 tokens of all 10 types, every line of 4 or 5 of word, `&&`, `\|\|`, `;`, `&`, pipelines of two with a rest of up to 4 tokens, a line of 7 `;`; 3 processes forked besides the commands | 333 000 | `NothingDropped`, `SeesAssignmentsBefore`, `InOrderOnce`, `ChainsRun`, `PromptReturns` |
| `eval_short` | same | until the violation | finding 2 |
| `vars` | 4 names with collisions, capacity 4 to 16, 6 puts | 284 000 | `IsMap`, `SizeIsSound` |
| `vars_env` | same | until the violation | finding 3 |
| `completion` | 3 commands, registry of 2, 3 builtins, 2 executables, outputs of up to 2 lines; any sequence of completions | 87 500 | `RegistryIsMap`, `OffersWhatWasPrinted`, `FirstWordIsComplete`, `CompletionEnds` |
| `expand` | every line of up to 3 characters of 18 kinds, of 4 of 9 kinds, of 5 of 7 kinds, `"${..}"` with names of up to 2, and one line of 19 | 346 000 | `TokensCover`, `ScannersAgree`, `StaysInWord`, `LineIsExpanded` |
| `buffer` | capacities 1, 3 and the default 16, appends of up to 3 bytes, buffers up to 16 before an append | 130 000 | `OneByteBehind`, `TextIsWhole`, `CutAtTheEdge` |
| `history` | the shell and one copy, 2 files, 2 new lines, lists of up to 4, 6 forks, exits and history commands, any number of sessions | 1 700 000 | `AppendedOnce`, `SavedStays` |

Why the bounds are enough. *Jobs*: three pids allow a listed job, a pipeline or
foreground child, and a pid that was just freed at the same time, which is what
every property relates; the history is unbounded, so pids and numbers are
reused. *Pipeline*: the interesting end is a middle command, which three
commands have; a triple that begins with `noexec` needs six processes, because
the child forks the rest again; two redirections are what one can do to another,
and the one left open takes the number the next would get. *Eval*: five tokens allow three pipelines with two
operators, and an operator on each side of a chain in the background; three forks allow a
copy that came back with a background child of its own and one of the shell's, or a
copy of a copy; the rest behind a pipeline is of its chain, an element, another pipeline
or a background chain. *Vars*: the
fourth put grows the table of four buckets, the fifth grows it again (the first
resize doubled the size counter), the sixth finds it at its limit; two names
collide until the first resize, two until the second; the 16 and 2^30 of the code only move the thresholds. *Completion*:
a registry one smaller than the number of commands is full; two lines suffice to
give up in between. *Expand*: five characters hold a substitution with two characters inside,
a pair of quotes inside another, or two words with an operator between
them; the scanners look one character ahead (two behind an escaped blank) and
keep a flag and a depth, so that longer lines repeat what the short ones do. The one thing
they do not is a first word that ends in the middle of the quotes of the second: that takes four
escaped blanks, and the line of 19 has them.
*StringBuilder*: a capacity of 1 is over-full after two characters, and 3 is met exactly, by one and by two; the
appends lead from each of them through two or more doublings; each operation looks
at the distance between `size` and `capacity` only. *History*: one copy is
enough for an older list to meet a newer one, since copies do not look at
each other; six calls are two sessions with a copy and an append in each.

`pipeline` checks no deadlock: when `execute_pipes` has returned the model
rightly stops.

### Fairness

- `Jobs`: weak fairness of the shell's steps and of signal delivery. The shell
  has one thread, which the kernel schedules; readline calls the hook whenever no
  key comes. Nothing is assumed of the user or the children; `LinesReturn` says
  so in its premise (no child runs for ever), `ExitedJobsAreReported` in its own
  (the shell does not wait for ever, or passes the prompt again and again).
- `Pipeline`: every process that can take a step takes one eventually. A command
  that writes for ever is fair too, and `PipelineReturns` is about lines in
  which some command behind it stops reading.
- `Eval`: the shell and those of its copies that are not in the background, which
  it waits for (`ForegroundStep`): each has one thread and runs the same loops. A
  child in the background may never move, and the prompt must come back all the
  same. Nothing makes anybody leave the prompt of a second shell, and
  `PromptReturns` excepts a line after which one stays there. The commands the
  shell runs in the foreground end: that is `Pipeline`'s and `Jobs`' result.
- `Completion`: readline goes on calling the generator.
- `Expand`: the one thread of the shell goes on.

## 4. Proofs

Eight modules hold theorems, one for each module with actions (`Lexer` is covered by
`ExpandProofs`, `HashTable` by `VarsProofs`). Each has an invariant `IInv` that is
inductive: it holds in the initial states, every action keeps it, and each
property that is proved is one of its conjuncts or follows from it. TLC checked
each `IInv` on the states of the module's run first.

### JobsProofs

For every set `Pid` and all naturals `MaxForks`, `MaxPipe` (the two named
assumptions of `Jobs`; nothing else is assumed):

| theorem | says |
|---|---|
| `JobsInvariant` | `Spec => []IInv` |
| `TypeCorrect` | `TypeOK` |
| `JobListIsSound` | `JobsDistinct` and `JobsAreChildren` |
| `ForegroundIsSafe` | `ForegroundNotStolen` |
| `NoWakeupIsLost` | `NoLostWakeup` |
| `ReaperFaultsOnlyAfterForkFailure` | `ReaperFaultNeedsForkFailure` |
| `JobListRefinesTable` | the job list implements `JobTable` (`JobListIsTable`) |

The invariant. None of the properties is inductive alone. That the reaper does
not take a foreground child is so because it runs only where nothing is held
(`HeldWhileWaiting`) and because a fork yields a pid that is neither listed nor
held, which needs `JobsAreChildren` and the first part of `ForegroundNotStolen`.
`register_job` keeps pids distinct because the child just forked is in no node
(`Held \cap JobPids = {}`), and `print_jobs` and the reaper keep listed jobs
children because each removes the node of exactly the pid it collected, which
needs `JobsDistinct` again. `ListAllocated` makes the branch of `Reap` without a
list leave nothing stale. `IInv` is the conjunction of the eight.

The argument is in three lemmas, one step per action: `TypeStep` for types and
the control facts, `TableStep` for the relation between list, held pids and
children, `WakeupStep` for `NoLostWakeup`, where the order "lower the flag, then
reap" is used: at `clear` and `reap` the disjunct on `pc` holds, and `ReapDone`
leaves only when there is no zombie.

The refinement. The abstract table is computed from the list and the children
(`TableBar`, `ExitedBar`). `TableRefined` goes through the actions: registering is the table's
start, because the number it takes is the least that is free (`SmallestFree`);
the exit of a listed child is the table's exit, and of any other child a stutter
(`TableExit`); a turn of the reaper or of `print_jobs` that collects a job is the
table's report (`TableReport`), and needs `JobsDistinct` so that one number and no
other disappears; whatever changes neither list nor children is a stutter.

### PipelineProofs

For every set of `Lines` of at least one command, every set `Redirs` of lists of
redirections, every `Junk` of pairs of integers, every `MaxChildren`, and a table of
`MaxFd` numbers in which the files of a lone command have room
(`MaxFdAssumption`; a full table is a failing `open`, which the model has only by the file):

| theorem | says |
|---|---|
| `PipelineInvariant` | `Spec => []IInv` |
| `TypeCorrect` | `TypeOK` |
| `CommandsAreConnected` | `Connected`, for pipelines of any length |
| `RedirectionsHold` | `RedirectionsInForce`, for any number of redirections; about the numbers 0 to 2 |
| `StatusIsTrue` | `StatusTells` |
| `ShellIsClean` | `NothingLeftBehind` |

The invariant. What a command holds when it runs was decided when it was forked,
so `AfterTurns` says what `pipes[]` and a table are like after `m` turns of the
fork loop: above the standard numbers nothing is open that `pipes[]` does not
name, an entry below `m` names the two ends of its pipe or is the junk it
was, and the rest is junk. The shell keeps that (`ShellEnds`), a child of the shell
starts with it (`ChildEnds`), and closing what `pipes[]` names leaves the standard
numbers, which is `Connected` for the child. It is stated of
children of the shell only: a child whose `execvp` failed forks again and
inherits what it had connected. `Recorded` says that a child not collected is in a
cell of `pids[]` the shell still comes to, and gives `NothingLeftBehind` with
`ShellEnds`. For a lone command `LoneTable` says what its table holds after the
first `applied` redirections, with the last one of each number in force and at
most one further number taken by each; `LoneCode` that a child which reports
success had something to run.

### EvalProofs

For every set of `Lines` of at most `MaxElements` tokens and every number of forks
(`LinesAssumption`, `MaxForksAssumption`; the bound is any number, so lines have any length):

| theorem | says |
|---|---|
| `EvalInvariant` | `Spec => []IInv` |
| `TypeCorrect` | `TypeOK` |
| `NothingRunsTwice` | `InOrderOnce`: not twice by the processes of one root, in order, behind the place of the fork |
| `EveryChainRuns` | `ChainsRun`: with `&` in children forked for it and nowhere else, without in the foreground and nowhere else; to its end if it has no operators |
| `WordsInvariant` | `Spec => []WordsInv` |
| `NothingIsDropped` | `NothingDropped` |
| `AssignmentsAreSeen` | `SeesAssignmentsBefore` |

The invariant. `Built` relates the list to the text: pipelines begin further and
further to the right (`Increasing`), an element is marked `&` if and only if
the text ends it so (`Marked`), and the last pipeline of a chain has no operator
(`LastIsPlain`). It has to hold while the parser is in the middle of an element
(`Open`). `UnderWay` says three things of each process. `Place`: a chain it is in
is for it, and a child in the background never leaves its own. `Ahead`: what is
left for it to run lies behind the token it was forked at (`after`). `Kin`: of the
processes with the same `root` one runs the list, and each other was forked for an
element which that one is past. With it `Ran` says that every entry of `ran` lies
*behind* the place of the process that ran it, and behind its `after`, from which
`InOrderOnce` follows: what is run next lies ahead of whoever runs it, and two of
the same root have no element in common. A new process keeps this because it
begins with a `root` of its own (a copy that came back) or at an element nobody of
its root was forked for (a child in the background). `Served` is the converse of
`Ran` for chains of one pipeline and gives `ChainsRun`. `Fresh` carries all of it
over the phases before execution.

The words have an invariant of their own, `WordsInv`, inductive together with `IInv`.
`Commands` walks over the whole tree with two `FlattenSeq`, and the parser changes
the tree at its right edge: `FlattenAppend` unfolds the library's recursion there,
so that a word replaces the last command by one with the word (`CommandGrows`)
and an operator appends an empty one (`PipeOpens`, `AndOrOpens`, `SeparatorOpens`).
`NothingDropped` is then kept because what is read next lies behind everything that
has been read. For `SeesAssignmentsBefore`, `Held` says that the words of a command
have no operator between them and those of two commands do, in the order of the commands
(`Shape`; `Reach` is what holds of it while the last command is still open), and
`Expansion` that each word of the first `expanded` commands has seen the assignments it
waits for: those of the commands before are in front of it, those of the commands
behind are cut off from it by an operator (`SeesAwaited`).

### VarsProofs

For every set of keys and values, every hash function into the naturals, every
`InitialCapacity` that is a multiple of four (the load factor is 3/4; the
code's is 16), every `MaxCapacity` above it, every environment and number of puts
(`HashTableAssumption`, `VarsAssumption`):

| theorem | says |
|---|---|
| `VarsInvariant` | `Spec => []IInv` |
| `TypeCorrect` | `TypeOK` |
| `TableIsMap` | `IsMap` |
| `ResizeDoesNotNest` | `SizeIsSound` |

The invariant. A table is seen as the set of its nodes (`Content`). `Orderly` says
that each node is in the bucket of its hash and no chain has a name twice, `Holds`
that the nodes are what was last assigned; together they make a lookup give what
`IsMap` asks for. `Sound` is `SizeIsSound` and the capacity's being a multiple of
four: `size` counts overwritten names too, so the bound on the number of nodes
and the bound on `size` have to be carried separately for a resize to end with
room. A resize and `fork_exported` put nodes one after the other, so what they
do to the table is a recursive function; `Iteration` proves for
such functions that what the first value has and every step keeps the last has, and
`GrowSteps`, `GrowFacts`, `MoveSteps`, `MoveFacts` are its uses: for `Grow` that the
table after `k` puts has a size of the old one plus `k`, and, if the names of an
orderly table make them all differ, holds exactly the first `k` nodes.

### CompletionProofs

For every non-empty table of builtins, every PATH, every set of scripts' outputs,
every relation "begins with" and every size of the registry
(`CompletionAssumption`):

| theorem | says |
|---|---|
| `CompletionInvariant` | `Spec => []IInv` |
| `TypeCorrect` | `TypeOK` |
| `OneScriptEach` | `RegistryIsMap` |
| `ScriptsAreObeyed` | `OffersWhatWasPrinted`, an action property |
| `FirstWordsAreComplete` | `FirstWordIsComplete`, an action property |

The invariant. Both action properties are about the moment a completion ends, and
need to know how it came there. `Cache` says what `completions` and `cmp_idx`
hold in the middle of a completion by a script (readline has the lines before
`cmp_idx`, back to the first that was given) and what is left of them between
two (an index that is not zero only where one was given up). `Phases` says the
same of `phase`, `list_index` and `path_pos`: readline has everything that fits up
to there. `Fitting`, the candidates among the first of a list, is a recursive
function, and the lemmas on it are inductions over the length of the list.

### ExpandProofs

For every set of `Lines` over the kinds of characters, of any length, and every set of
known names (`LinesAssumption`, `KnownAssumption`):

| theorem | says |
|---|---|
| `ExpandInvariant` | `Spec => []IInv` |
| `TypeCorrect` | `TypeOK` |
| `LineIsCovered` | `TokensCover` |
| `EndsWithTheWord` | `StaysInWord` |
| `AgreementInvariant` | `Spec => []AInv` |
| `ScannersDoAgree` | `ScannersAgree` |
| `TurnsDoRunOut` | `TurnsRunOut`, an action property (only proved) |

The invariant. `LexInv` is the lexer's: `Ahead` says how far the pointer `end` may be ahead of the
stream, by one for each escaped blank behind `begin` and no more, which bounds
`end` and is the part of `TokensCover` about overlapping; `Where` says that what
lies between the last token and `begin` is blank, and where the stream stands at
each place of the code. `ExpandInv` keeps the expansion's pointer between the
beginning of a word and its end, whatever of quotes, escapes and
substitutions it takes in one step.

The agreement. The lexer has gone over the whole line before the expansion looks
at a word, so `ScannersAgree` needs to know what the lexer's flag and depth *were* in
front of each character. A *trace* of a token is a pair of functions from offsets
to flags and to depths that follow the rules of `lx_scan` from one character to the next
(`Follows`); `TraceInv` says that every token without backslash and backquote has
one, which ends outside of quotes and substitutions, and that `toggled` and `closed` hold exactly
the places where it changes. A trace is said to exist, and not computed by
recursion, so that each turn of the loop extends the one before by one
character (`TraceGoesOn`). `AgreeInv` then says of the expansion: at its offset the
trace has the same flag and no depth, and up to there the same quotes have
been removed and the same substitutions ended (`Agreeing`). The one step that is
longer than a character is `expand_cmdsub`: the trace runs unchanged through the body of a regular
substitution (`TraceRuns`), since nothing in it nests.

The turns. `LexLeft` counts four for each character the stream has before it, and up
to three for the place in the code, because `lx_scan` may end a word in front of an operator
without passing it; `WordLeft` counts two for each character of the line behind the expansion's offset. Every step
lowers one of the two, or goes on to a later word, and neither falls below zero.
That is the safety half of `LineIsExpanded`, which the run checks: what is left to TLC is that a
step can be taken until the line is over, and to fairness that it is. `TurnsRunOut` is stated beside
its proof and is no property of a run, where `LineIsExpanded` says more.

### HistoryProofs

For every set `Copies` of positive numbers, every `OtherFiles` without `HistFile`, and
all naturals `MaxEntries`, `MaxLength`, `MaxCalls` (the named assumptions of
`History`):

| theorem | says |
|---|---|
| `HistoryInvariant` | `Spec => []IInv` |
| `HistoryTypeCorrect` | `TypeOK` |
| `EntriesAppendedOnce` | `AppendedOnce` |
| `SavedHistoryStays` | `SavedStays` |

The invariant. `AppendedOnce` is inductive with the types: `history -a` is given the
last entries of the list, as many as are not counted yet, so its places are those
behind `appended` and all of them (`PlacesTakenUp`); `history -r` and new lines only
lengthen the list, and a fork copies list and counters together. `SavedStays` is
not: a member of a pipeline or a copy the shell waits for writes its own list over
the file when it ends. `AwaitedIsUpToDate` says why that loses nothing: there is one
such copy, forked from the list the shell still has, and the shell saves nothing
while it waits. `WriteSafe` is what a write does to the saved entries, and
`LeavesKeeps` is shared by the three ways a process ends.

### StringBuilderProofs

For every set `Requests` of naturals and all naturals `MaxAppend`, `MaxFactor`,
`MaxCapacity` (the named assumptions of `StringBuilder`):

| theorem | says |
|---|---|
| `BuilderInvariant` | `Spec => []IInv` |
| `BuilderTypeCorrect` | `TypeOK` |
| `BuilderStaysNear` | `OneByteBehind` |
| `BuilderTextIsWhole` | `TextIsWhole` |
| `BuilderCutsAtTheEdge` | `CutAtTheEdge`, an action property |

The invariant. Neither `OneByteBehind` nor `TextIsWhole` is inductive: `strcat` starts
at the first zero of the buffer, and only `ZeroBehind` (all bytes behind the text
are zero while `dirty` is false) makes that zero the one behind the text.
`BufferGrown` says what a buffer that grew is like: it has room for what is added,
it keeps the text and is zero behind it.

### Only model-checked

- Liveness: `ExitedJobsAreReported`, `LinesReturn`, `PipelineReturns`, `PromptReturns`,
  `CompletionEnds`, `LineIsExpanded`. The provers have no rules for fairness and
  ENABLED. Every other property of a passing run, each invariant and each action
  property, is a theorem.
- The three properties that are violated (section 5).

Induction over the natural numbers has no rule here either: the library's takes an
operator for its parameter. Where a proof needs one, the set of counterexamples
is taken to have a least element (`LeastNumber`, from the well-foundedness of `<`),
and a step from there gives the contradiction (`UpToInduction` and `Iteration` in `VarsProofs`,
and the like in `CompletionProofs` and `EvalProofs`). That does for recursive *functions* over
numbers, and for `FlattenSeq`, whose definition is such a function inside; for folds of a
library it does not, which is why `Grow`, `fork_exported`, `Nodes` and `Fitting` are
written as functions.

## 5. Where code and documentation disagree

1. `pipeline_exec`: the child of a pipeline whose `execvp` fails goes on with the
   fork loop and becomes a second shell at the prompt; `exec.h:52` says that it
   exits. `Eval` follows that child into the rest of the line, which it runs a second time.
2. `eval_short`: `parse_and_or` stores an operator in the pipeline on its left,
   `execute_andor` reads it as the one before the pipeline: `a && b` runs `b`
   after a failing `a`, `a || b` then runs nothing. `parsetypes.h:352` and
   `README.md:54` say otherwise.
3. `vars_env`: the variable whose put makes the table grow is stored in the bucket
   of the old capacity and, for half of the hashes, is not found;
   `tests/var_tests.c:16-19` expects every variable to be found.

Noted on the way, where no document says otherwise (the name in brackets is the
definition that carries it):

- Jobs: a fork that fails in the middle of a pipeline leaves the commands already
  forked alone; the reaper that collects one of them reads `job_list->head`
  although no job was ever registered (`Reap`, `jobs.c:351`). The proof shows this is the only way
  there. A line that does not parse ends the shell (`BadLine`).
- Pipelines: the status is 0 whatever the commands did (`Return`); redirections of members and of
  builtins are ignored (`ChildSetup`, `RunInShell`); a file that cannot be opened does not keep the
  command from running (`Redirected`), and files are created without a mode; after a failed
  `pipe()` junk numbers are closed, the shell's own stdin among them if they name it
  (`NothingLeftBehind`).
- Expansion: assignments of chains that are skipped, or run in the background, take
  effect in the shell, and all of them before the first command runs
  (`SeesAssignmentsBefore`). An escaped blank makes its token one character too long
  (`TokensCover`); a word that ends in a backslash, as one before an operator does,
  is read beyond its end (`StaysInWord`); `$` before a name that is no variable
  swallows the rest of the word, quotes included (`expand_loose_variable`); `\'` opens a
  quotation for the lexer but not for the expansion (`Backslash`, `Escape`).
- String builder: a text of exactly the capacity has no terminator inside its buffer (`TextIsWhole`), and
  `expand_word` asks for a capacity of the length of the word; one character more lands behind the
  buffer (`OneByteBehind`); a number at the edge loses up to two digits (`CutAtTheEdge`).
- Variables: an overwritten variable takes those behind it in its bucket along (`Damages`).
- History: a background copy that exits replaces the file by its older list, and a
  session that could not read the file replaces it too (`SavedStays`);
  `-a` to the history file after a restart repeats what was loaded from it (`StartUp`
  starts the counter at zero); entries whose append failed with a positive errno are
  skipped from then on (`HistoryAppend`); `history n` beyond the list reads in front of it (`Crash`).
- Completion: the last builtin is never offered (`NextBuiltin`); completing behind a character like
  `=` or `>` can hang (`Hang`); a completion given up makes the next one skip lines
  (`OffersWhatWasPrinted`).

## 6. What is not modelled

- The copy of the job list that a subshell inherits: its nodes name processes that
  are not its children, so that its `jobs` prints them as running.
- The word list, the sizes of argv and of the growing vectors of the parser, the
  deletion of the tree: memory, which the sequences of `Eval` abstract.
- PATH search, cd, echo, pwd, type: they read or write the file system and keep
  no state of the shell's own. `declare` keeps a table only `declare -p` reads.
- Readline, libc, the kernel: external, modelled from how they are used.
- Allocation failure; texts that are printed, such as `command not found` into the pipe of a member.
- `sb_appendl` of 0, of which it takes the logarithm (`stringbuilder.c:80`): no caller passes it.
- Code nothing calls: `parser.c:401-975`, `exec_pipe`, `exec_pipeline`, `execc`,
  `expand.c:265-530`, `sb_format`, `ht_clear`, `blist_append`, `blist_copyof`.

## 7. Plan

Done, in this order: `Jobs` with `JobTable` and its proofs, because every
feature of the shell forks and waits; `Pipeline`; `Eval`; `Vars`; `Completion`;
`Lexer` and `Expand`; single commands, redirections and a failing `pipe()` in
`Pipeline`; the expansion command by command in `Eval`; `StringBuilder`; `History`.

Next: the subshell's inherited job list as a second instance of the reaper.

No invariant or action property that a run checks is left without a theorem. For
`PipelineReturns`, `PromptReturns` and `CompletionEnds` a count like the one of `TurnsRunOut` could
be stated and proved.

The proof of `ScannersAgree` failed at first for a good reason: `removed` and `bodyEnds`
went on from word to word, and then the property is false, for one on the line of 19
characters that the run `expand` now has. Nothing in the code was wrong about that; the
history was, and is now one of the word.
