-------------------------------- MODULE Eval --------------------------------
(***************************************************************************)
(* From the tokens of a line to the processes that run it: the recursive   *)
(* descent of parser.c over a TokenStream, and execute_list, execute_andor *)
(* and execute_andor_bg of exec.c.                                         *)
(*                                                                         *)
(* parse_list, parse_and_or, parse_pipeline and parse_command nest to a    *)
(* fixed depth, so one token determines which of them goes on: Parse is    *)
(* one turn of the innermost loop.  A word is its position in the line; a  *)
(* command that stands alone succeeds or fails as it likes.                *)
(*                                                                         *)
(* A process of a pipeline is its command, and ends with it, unless execvp *)
(* fails: then it is a copy of the process that forked it, in the middle   *)
(* of execute_pipes, and goes on from there.                               *)
(***************************************************************************)
EXTENDS Integers, SequencesExt

CONSTANTS
    Lines,      \* the token sequences a line may consist of, without the end
    MaxElements,\* tokens, and so list elements, of the longest line (a bound)
    MaxForks    \* the processes that can be forked, commands aside (a bound)

TokenType == {"word", "assignment", "redir", "pipe", "and", "or", "semi",
              "amp", "paren", "newline", "eof"}

ASSUME LinesAssumption ==
    /\ MaxElements \in Nat \ {0}
    /\ \A l \in Lines : l \in Seq(TokenType \ {"eof"}) /\ Len(l) <= MaxElements

ASSUME MaxForksAssumption == MaxForks \in Nat

VARIABLES
    tokens,     \* the TokenStream, which ends with "eof"
    pos,        \* its position, from 1
    list,       \* the List under construction, then executed
    expanded,   \* the commands expand_list has been at
    assigned,   \* the assignments that execute_assignment has carried out
    seen,       \* history: those that had been, when each word was expanded
    pc,         \* where each process is
    local,      \* its local variables
    ran         \* history: the pipelines that were run, and by whom

expansion == <<expanded, assigned, seen>>
vars == <<tokens, pos, list, expansion, pc, local, ran>>

Shell == 0
Proc  == 0..MaxForks

\* A command holds the positions of its arguments, of its assignments and of
\* the targets of its redirections.
EmptyCommand == [argv |-> <<>>, assignments |-> <<>>, targets |-> <<>>]

\* A pipeline remembers where it began (history); an element of a chain
\* carries an operator, an element of the list a separator.
NewPipeline(at) == [start |-> at, commands |-> <<EmptyCommand>>]
NewAndOr(at)    == <<[op |-> "none", pipeline |-> NewPipeline(at)]>>
NewElement(at)  == [sep |-> "none", andor |-> NewAndOr(at)]

\* li       the list element execute_list is at
\* ai       the element of its chain execute_andor is at
\* status   the status of execute_andor
\* iter     the commands execute_pipes has still to fork
\* awaited  the copies of itself among those it has forked
\* job      the element it was forked for by execute_andor_bg, or 0
\* root     history: the last ancestor, or itself, that came back from execvp
\* after    history: the token in front of all that is left for it to run
FirstFrame(p) == [li |-> 1, ai |-> 1, status |-> 0, iter |-> <<>>, awaited |-> {},
                  job |-> 0, root |-> p, after |-> 0]

Init ==
    /\ tokens \in {Append(l, "eof") : l \in Lines}
    /\ pos = 1
    /\ list = <<NewElement(1)>>
    /\ expanded = 0 /\ assigned = {} /\ seen = <<>>
    /\ pc = [p \in Proc |-> IF p = Shell THEN "parse" ELSE "unborn"]
    /\ local = [p \in Proc |-> FirstFrame(p)]
    /\ ran = <<>>

-----------------------------------------------------------------------------
(* The parser. *)

Peek == tokens[pos]

\* What is under construction: the last chain, pipeline and command.
CurrentChain    == Last(list).andor
CurrentPipeline == Last(CurrentChain).pipeline
Current         == Last(CurrentPipeline.commands)

\* ts_read stays at the last token.
Read(i) == IF i = Len(tokens) THEN i ELSE i + 1

\* The list with its last chain, pipeline or command changed.
WithChain(chain) == [list EXCEPT ![Len(list)].andor = chain]
WithPipeline(pl) ==
    WithChain([CurrentChain EXCEPT ![Len(CurrentChain)].pipeline = pl])
WithCommands(commands) == WithPipeline([CurrentPipeline EXCEPT !.commands = commands])
WithCommand(c) ==
    LET commands == CurrentPipeline.commands
    IN WithCommands([commands EXCEPT ![Len(commands)] = c])

\* A word, or an assignment after the first word.
ParseWord ==
    /\ \/ Peek = "word"
       \/ Peek = "assignment" /\ Current.argv # <<>>
    /\ pos' = Read(pos)
    /\ list' = WithCommand([Current EXCEPT !.argv = Append(@, pos)])
    /\ pc' = pc

\* Mutant: an assignment counts as one after the command name too.
AssignAnywhere ==
    /\ Peek = "assignment"
    /\ pos' = Read(pos)
    /\ list' = WithCommand([Current EXCEPT !.assignments = Append(@, pos)])
    /\ pc' = pc

ParseAssignment ==
    /\ Peek = "assignment"
    /\ Current.argv = <<>>
    /\ pos' = Read(pos)
    /\ list' = WithCommand([Current EXCEPT !.assignments = Append(@, pos)])
    /\ pc' = pc

\* ts_expect returns null when no word follows, and its value is read.
ParseRedirect ==
    /\ Peek = "redir"
    /\ IF tokens[Read(pos)] = "word"
       THEN /\ list' = WithCommand([Current EXCEPT !.targets = Append(@, Read(pos))])
            /\ pos' = Read(Read(pos))
            /\ pc' = pc
       ELSE /\ pos' = Read(pos)
            /\ pc' = [pc EXCEPT ![Shell] = "segv"]
            /\ list' = list

ParsePipe ==
    /\ Peek = "pipe"
    /\ pos' = Read(pos)
    /\ list' = WithCommands(Append(CurrentPipeline.commands, EmptyCommand))
    /\ pc' = pc

\* The operator is stored in the element on its left.
ParseAndOr ==
    /\ Peek \in {"and", "or"}
    /\ pos' = Read(pos)
    /\ LET marked == [CurrentChain EXCEPT ![Len(CurrentChain)].op = Peek]
       IN list' = WithChain(marked \o NewAndOr(pos'))
    /\ pc' = pc

\* Mutant: a separator at the end opens an element.
TrailingElement ==
    /\ Peek \in {"semi", "amp"}
    /\ pos' = Read(pos)
    /\ list' = Append([list EXCEPT ![Len(list)].sep = Peek], NewElement(pos'))
    /\ pc' = pc

\* A separator belongs to the element on its left; at the end of the line it
\* opens no further element.
ParseSeparator ==
    /\ Peek \in {"semi", "amp"}
    /\ pos' = Read(pos)
    /\ LET done == tokens[pos'] \in {"eof", "newline"}
           marked == [list EXCEPT ![Len(list)].sep = Peek]
       IN /\ list' = IF done THEN marked ELSE Append(marked, NewElement(pos'))
          /\ pc' = IF done THEN [pc EXCEPT ![Shell] = "expand"] ELSE pc

\* Any other token ends the parse; what follows it is never looked at.
ParseEnd ==
    /\ Peek \in {"paren", "newline", "eof"}
    /\ pc' = [pc EXCEPT ![Shell] = "expand"]
    /\ UNCHANGED <<pos, list>>

Parse ==
    /\ pc[Shell] = "parse"
    /\ \/ ParseWord \/ ParseAssignment \/ ParseRedirect \/ ParsePipe
       \/ ParseAndOr \/ ParseSeparator \/ ParseEnd
    /\ UNCHANGED <<tokens, expansion, local, ran>>

-----------------------------------------------------------------------------
(* Execution. *)

Elements == 1..Len(list)

\* The commands of the whole list, in the order of its walk.
Commands == FlattenSeq(FlattenSeq(
              [i \in Elements |-> [j \in DOMAIN list[i].andor |->
                 list[i].andor[j].pipeline.commands]]))

\* Mutant: the arguments are expanded before the assignments are carried out.
ArgumentsFirst(c) ==
    [k \in Range(c.assignments) \cup Range(c.targets) \cup Range(c.argv) |->
       IF k \in Range(c.argv) THEN assigned
       ELSE assigned \cup {a \in Range(c.assignments) : a < k \/ k \in Range(c.targets)}]

\* expand_command: each assignment is expanded and carried out in turn, then
\* the targets and the arguments are expanded.
SeenBy(c) ==
    [k \in Range(c.assignments) \cup Range(c.targets) \cup Range(c.argv) |->
       assigned \cup {a \in Range(c.assignments) : a < k \/ k \notin Range(c.assignments)}]

\* expand_list walks over the whole list before anything of it runs, and
\* carries out every assignment on the way, in this process.
ExpandCommand ==
    /\ pc[Shell] = "expand"
    /\ expanded < Len(Commands)
    /\ LET c == Commands[expanded + 1] IN
         /\ seen' = [k \in DOMAIN seen \cup DOMAIN SeenBy(c) |->
                       IF k \in DOMAIN SeenBy(c) THEN SeenBy(c)[k] ELSE seen[k]]
         /\ assigned' = assigned \cup Range(c.assignments)
    /\ expanded' = expanded + 1
    /\ UNCHANGED <<tokens, pos, list, pc, local, ran>>

ExpandDone ==
    /\ pc[Shell] = "expand"
    /\ expanded = Len(Commands)
    /\ pc' = [pc EXCEPT ![Shell] = "list"]
    /\ UNCHANGED <<tokens, pos, list, expansion, local, ran>>

\* Where process p is in the list, and the pipeline it ran last.
Chain(p) == list[local[p].li].andor
LastRun(p) == Chain(p)[local[p].ai - 1].pipeline

\* The process that fork() makes; without one fork() fails.
Unborn == {p \in Proc : pc[p] = "unborn"}
Child(q) == q \in Unborn /\ \A r \in Unborn : q <= r

\* At a chain, in execute_list.
AtElement(p) == pc[p] = "list" /\ local[p].li <= Len(list)

\* Mutant: no chain starts while a child in the background runs.
WaitForBackground(p) ==
    /\ AtElement(p)
    /\ list[local[p].li].sep # "amp"
    /\ \A q \in Proc : local[q].job # 0 => pc[q] # "andor"
    /\ pc' = [pc EXCEPT ![p] = "andor"]
    /\ local' = [local EXCEPT ![p].ai = 1, ![p].status = 0]
    /\ UNCHANGED <<tokens, pos, list, expansion, ran>>

\* execute_list: the process runs the chain itself.
StartChain(p) ==
    /\ AtElement(p)
    /\ list[local[p].li].sep # "amp"
    /\ pc' = [pc EXCEPT ![p] = "andor"]
    /\ local' = [local EXCEPT ![p].ai = 1, ![p].status = 0]
    /\ UNCHANGED <<tokens, pos, list, expansion, ran>>

\* The frame of a child that runs the chain in the background.
Background(p) ==
    [local[p] EXCEPT !.ai = 1, !.status = 0, !.job = local[p].li,
                     !.after = Chain(p)[1].pipeline.start - 1]

\* Mutant: the parent of the child runs the chain too.
BothRun(p) ==
    /\ AtElement(p)
    /\ list[local[p].li].sep = "amp"
    /\ \E q \in Proc :
         /\ Child(q)
         /\ pc' = [pc EXCEPT ![p] = "andor", ![q] = "andor"]
         /\ local' = [local EXCEPT ![p].ai = 1, ![p].status = 0, ![q] = Background(p)]
    /\ UNCHANGED <<tokens, pos, list, expansion, ran>>

\* execute_andor_bg: a chain followed by "&" goes to a child; fork may fail.
ForkChain(p) ==
    /\ AtElement(p)
    /\ list[local[p].li].sep = "amp"
    /\ \/ \E q \in Proc :
            /\ Child(q)
            /\ pc' = [pc EXCEPT ![q] = "andor"]
            /\ local' = [local EXCEPT ![p].li = @ + 1, ![q] = Background(p)]
       \/ local' = [local EXCEPT ![p].li = @ + 1] /\ pc' = pc
    /\ UNCHANGED <<tokens, pos, list, expansion, ran>>

\* Mutant: the child in the background does not exit.
GoesOn(p) ==
    /\ pc' = [pc EXCEPT ![p] = "list"]
    /\ local' = [local EXCEPT ![p].li = @ + 1]
    /\ ran' = ran

\* execute_andor returns: into execute_list, or to the end of the child.
ChainDone(p) ==
    /\ pc' = [pc EXCEPT ![p] = IF local[p].job = 0 THEN "list" ELSE "exited"]
    /\ local' = IF local[p].job = 0 THEN [local EXCEPT ![p].li = @ + 1] ELSE local
    /\ ran' = ran

\* One turn of execute_andor: the operator of the element decides whether its
\* pipeline runs or the chain is left.
Runs(op, s) == op = "none" \/ (op = "and" /\ s = 0) \/ (op = "or" /\ s # 0)

\* A pipeline of one command without arguments has nothing to run.
Lone(pl)  == Len(pl.commands) = 1
Empty(pl) == Lone(pl) /\ pl.commands[1].argv = <<>>

\* execute_pipeline: a lone empty command yields 0; the process ends with a
\* lone command that is the builtin exit, or whose fork fails; several
\* commands are for execute_pipes.
RunPipeline(p, pl) ==
    /\ ran' = IF Empty(pl) THEN ran
              ELSE Append(ran, [proc |-> p, start |-> pl.start, before |-> local[p].status])
    /\ \/ /\ Lone(pl)
          /\ \E s \in IF Empty(pl) THEN {0} ELSE {0, 1} :
               local' = [local EXCEPT ![p].ai = @ + 1, ![p].status = s]
          /\ pc' = pc
       \/ /\ Lone(pl) /\ ~Empty(pl)
          /\ local' = [local EXCEPT ![p].ai = @ + 1]
          /\ pc' = [pc EXCEPT ![p] = "ended"]
       \/ /\ ~Lone(pl)
          /\ local' = [local EXCEPT ![p].ai = @ + 1, ![p].iter = pl.commands]
          /\ pc' = [pc EXCEPT ![p] = "pipes"]

AndOrTurn(p) ==
    /\ pc[p] = "andor"
    /\ IF local[p].ai <= Len(Chain(p)) /\ Runs(Chain(p)[local[p].ai].op, local[p].status)
       THEN RunPipeline(p, Chain(p)[local[p].ai].pipeline)
       ELSE ChainDone(p)
    /\ UNCHANGED <<tokens, pos, list, expansion>>

\* A turn of the loop in execute_pipes.  The child becomes the command, or ends
\* without one; a name that is found and cannot be executed leaves it in the
\* loop, as a copy of its parent with no children.  A failed fork returns -1.
ForkMember(p) ==
    /\ pc[p] = "pipes"
    /\ local[p].iter # <<>>
    /\ LET rest == Tail(local[p].iter) IN
       \/ local' = [local EXCEPT ![p].iter = rest] /\ pc' = pc
       \/ /\ Head(local[p].iter).argv # <<>>
          /\ \E q \in Proc :
               /\ Child(q)
               /\ pc' = [pc EXCEPT ![q] = "pipes"]
               /\ local' = [local EXCEPT
                    ![p].iter = rest, ![p].awaited = @ \cup {q},
                    ![q] = [local[p] EXCEPT !.iter = rest, !.awaited = {}, !.root = q,
                                            !.after = LastRun(p).start]]
       \/ /\ pc' = [pc EXCEPT ![p] = "andor"]
          /\ local' = [local EXCEPT ![p].iter = <<>>, ![p].awaited = {}, ![p].status = 1]
    /\ UNCHANGED <<tokens, pos, list, expansion, ran>>

\* The commands end by themselves; a copy that came back ends when it has run
\* the rest of the line and left its own prompt.
WaitMembers(p) ==
    /\ pc[p] = "pipes"
    /\ local[p].iter = <<>>
    /\ \A q \in local[p].awaited : pc[q] \in {"exited", "ended"}
    /\ pc' = [pc EXCEPT ![p] = "andor"]
    /\ local' = [local EXCEPT ![p].awaited = {}, ![p].status = 0]
    /\ UNCHANGED <<tokens, pos, list, expansion, ran>>

\* execute_list returns to the prompt, in the shell and in a copy of it.
ListDone(p) ==
    /\ pc[p] = "list"
    /\ local[p].li > Len(list)
    /\ pc' = [pc EXCEPT ![p] = "done"]
    /\ UNCHANGED <<tokens, pos, list, expansion, local, ran>>

\* A second shell takes lines of its own, until it is told to exit.
SecondShellEnds(q) ==
    /\ q # Shell
    /\ pc[q] = "done"
    /\ pc' = [pc EXCEPT ![q] = "ended"]
    /\ UNCHANGED <<tokens, pos, list, expansion, local, ran>>

-----------------------------------------------------------------------------
ListStep(p) == StartChain(p) \/ ForkChain(p) \/ AndOrTurn(p) \/ ForkMember(p)
               \/ WaitMembers(p) \/ ListDone(p)

Over == pc[Shell] \in {"done", "segv", "ended"}
Finished == Over /\ \A p \in Proc : pc[p] \notin {"list", "andor", "pipes"}

\* The line is done, and so are the processes it left behind.
Rest == Finished /\ UNCHANGED vars

Next == Parse \/ ExpandCommand \/ ExpandDone
        \/ (\E p \in Proc : ListStep(p) \/ SecondShellEnds(p)) \/ Rest

Spec == Init /\ [][Next]_vars

\* The shell runs, and those of its copies it waits for, which run the line
\* like itself; the other foreground commands end.  Nothing is assumed of the
\* children in the background, nor that anyone leaves a second shell.
ForegroundStep == Parse \/ ExpandCommand \/ ExpandDone
                  \/ \E p \in Proc : local[p].job = 0 /\ ListStep(p)

FairSpec == Spec /\ WF_vars(ForegroundStep)

-----------------------------------------------------------------------------
(* Properties. *)

Position == 1..Len(tokens)
Command  == [argv : Seq(Position), assignments : Seq(Position), targets : Seq(Position)]
Pipeline == [start : Position, commands : Seq(Command) \ {<<>>}]
Link     == [op : {"none", "and", "or"}, pipeline : Pipeline]
Frame    == [li : 1..(MaxElements + 1), ai : Nat \ {0}, status : {0, 1},
             iter : Seq(Command), awaited : SUBSET Proc, job : 0..MaxElements,
             root : Proc, after : Nat]
Element  == [sep : {"none", "semi", "amp"}, andor : Seq(Link) \ {<<>>}]

TypeOK ==
    /\ tokens \in Seq(TokenType)
    /\ pos \in Position
    /\ list \in Seq(Element)
    /\ Len(list) \in 1..MaxElements
    /\ expanded \in 0..Len(Commands)
    /\ assigned \subseteq Position
    /\ DOMAIN seen \subseteq Position
    /\ pc \in [Proc -> {"parse", "segv", "expand", "list", "andor", "pipes", "unborn",
                        "done", "exited", "ended"}]
    /\ local \in [Proc -> Frame]
    /\ ran \in Seq([proc : Proc, start : Position, before : {0, 1}])

\* All positions the list holds, in the order it holds them, and the targets.
Positions == FlattenSeq([k \in DOMAIN Commands |->
                Commands[k].assignments \o Commands[k].argv])
Targets == FlattenSeq([k \in DOMAIN Commands |-> Commands[k].targets])

IsText(k) == tokens[k] \in {"word", "assignment"}
IsTarget(k) == k > 1 /\ tokens[k] = "word" /\ tokens[k-1] = "redir"

InOrder(s) == \A a, b \in DOMAIN s : a < b => s[a] < s[b]

\* The list holds each word the parser has read once and in its order, as a
\* target if it follows a redirection operator and for its command if not,
\* whatever mixture of operators the line is; and the parser stops before the
\* end only at a token no rule takes.
NothingDropped ==
    /\ InOrder(Positions)
    /\ Range(Positions) = {k \in 1..(pos-1) : IsText(k) /\ ~IsTarget(k)}
    /\ InOrder(Targets)
    /\ Range(Targets) = {k \in 1..(pos-1) : IsTarget(k)}
    /\ pc[Shell] \notin {"parse", "segv"} => Peek \in {"paren", "newline", "eof"}

\* Whether k and m stand in the same command of the text.
SameCommand(k, m) ==
    \A j \in (k..m) \cup (m..k) : tokens[j] \in {"word", "assignment", "redir"}

Assignments == UNION {Range(Commands[k].assignments) : k \in DOMAIN Commands}

\* Before the first pipeline runs every word has been expanded, and it has
\* seen the assignments in front of it in the line and, as an argument or a
\* target, those of its own command: no others, and these no matter whether
\* the chains they stand in are ever run, or run in a child.
SeesAssignmentsBefore ==
    pc[Shell] = "list" =>
        /\ DOMAIN seen = Range(Positions) \cup Range(Targets)
        /\ \A k \in DOMAIN seen : seen[k] =
             {a \in Assignments : a < k \/ (k \notin Assignments /\ SameCommand(a, k))}

\* Each process keeps the order of the text and runs only what lies behind the
\* place it was forked at.  No pipeline is run twice by the shell and those it
\* forked, nor by a copy that came back from execvp and those it forked: a
\* child in the background does not go on with the list of its parent.  Such a
\* copy does, so that what lies behind its pipeline is run by both.
InOrderOnce ==
    /\ \A a \in DOMAIN ran : local[ran[a].proc].after < ran[a].start
    /\ \A a, b \in DOMAIN ran : a < b =>
         /\ ran[a].proc = ran[b].proc => ran[a].start < ran[b].start
         /\ local[ran[a].proc].root = local[ran[b].proc].root => ran[a].start # ran[b].start

\* The pipelines of element i, those of them with something to run, and those
\* a process ran.
PipelinesOf(i) == {e.pipeline.start : e \in Range(list[i].andor)}
Asked(i) == {e.pipeline.start : e \in {x \in Range(list[i].andor) : ~Empty(x.pipeline)}}
RanBy(p) == {r.start : r \in {x \in Range(ran) : x.proc = p}}

\* The token on which element i ends, in the text of the line.
StartOf(i)   == list[i].andor[1].pipeline.start
LastToken(i) ==
    LET next == IF i < Len(list) THEN StartOf(i + 1) ELSE pos
    IN IF StartOf(i) < next THEN tokens[next - 1] ELSE "none"

\* The processes that are to run element i: those forked for it if "&" follows
\* it in the text, those of the foreground if not.
Responsible(p, i) == local[p].job = IF LastToken(i) = "amp" THEN i ELSE 0

\* A chain is run in a child that was forked for it if "&" follows it in the
\* text, and nowhere else; without "&" it is run in the foreground and in no
\* such child, whatever its neighbours are and however they ended.  A process
\* that has come to its end has run each chain without && and || that it was
\* to run, from the place on where it was forked: the shell all of the line,
\* and a copy that came back from execvp the rest of it, once more.
ChainsRun ==
    /\ \A r \in Range(ran), i \in Elements :
         r.start \in PipelinesOf(i) => Responsible(r.proc, i)
    /\ \A p \in Proc, i \in Elements :
         /\ pc[p] \in {"done", "exited"} \/ (pc[p] = "ended" /\ local[p].job # 0)
         /\ Len(list[i].andor) = 1
         /\ Responsible(p, i)
         /\ local[p].after < StartOf(i)
         => Asked(i) \subseteq RanBy(p)

\* The prompt comes back, or the shell ends, although the children in the
\* background may run for ever, and although the chains before failed.  One
\* thing keeps it away: a copy of the shell, at a prompt that nobody leaves.
PromptReturns == <>Over \/ <>[](\E p \in Proc \ {Shell} : pc[p] = "done")

\* "The operator which preceded this pipeline" (parsetypes.h) decides whether
\* it runs, by the status of what ran before: && after a success, || after a
\* failure.
ShortCircuit ==
    \A r \in Range(ran) : r.start > 1 =>
        /\ tokens[r.start - 1] = "and" => r.before = 0
        /\ tokens[r.start - 1] = "or" => r.before # 0
=============================================================================
