----------------------------- MODULE Completion -----------------------------
(***************************************************************************)
(* Tab completion: the registry of completion.c, filled by the builtin     *)
(* complete, and the generators, which keep static variables between the   *)
(* calls in which readline asks for one candidate after the other.         *)
(*                                                                         *)
(* The registry changes between lines only.  Readline calls a generator    *)
(* with the number of candidates it has, until it returns null; a signal   *)
(* that readline handles (a resized window, say) makes it give up earlier. *)
(***************************************************************************)
EXTENDS Integers, SequencesExt

CONSTANTS
    Command, Script, Text,
    NoText,         \* the empty text: it begins every word of a line
    Candidate,      \* the names and lines that can be offered
    Builtins,       \* the table of builtins, in its order
    OnPath,         \* the executables of the PATH directories, in order
    Begins,         \* which candidates each text is a prefix of
    Outputs,        \* what a completion script may print, as lines
    MaxCompletions  \* MAX_COMPLETIONS, 64 in the code

ASSUME CompletionAssumption ==
    /\ Builtins \in Seq(Candidate) /\ Builtins # <<>>
    /\ OnPath \in Seq(Candidate)
    /\ Begins \in [Text -> SUBSET Candidate]
    /\ NoText \in Text
    /\ Outputs \subseteq Seq(Candidate)
    /\ MaxCompletions \in Nat \ {0}

VARIABLES
    registry,       \* completion_registry[0..registry_count-1]
    completions,    \* static of external_completer_generator, or Null
    cmp_idx,        \* static: the next of them
    phase,          \* static of first_word_generator
    list_index,     \* static of builtin_generator
    path_pos,       \* statics of path_generator: the entries passed so far
    tab,            \* the completion under way, or the last one
    matches,        \* what readline has collected for it
    printed,        \* history: what the script printed for it
    clean           \* history: no completion was given up since one ended

statics == <<completions, cmp_idx, phase, list_index, path_pos>>
vars    == <<registry, statics, tab, matches, printed, clean>>

\* A pointer to an array: nothing, or one sequence.
Null == <<>>
Pointer(lines) == <<lines>>

\* Where the text stands in the line: it begins the command word, it begins a
\* later word, or it stands behind another character readline breaks words at
\* and begins no word of the line.
Where == {"command", "argument", "inside"}
Tab   == [is : {"idle", "first", "external", "hung", "done"},
          text : Text, command : Command, where : Where]

Init ==
    /\ registry = <<>>
    /\ completions = Null /\ cmp_idx = 0
    /\ phase = 0 /\ list_index = 0 /\ path_pos = 0
    /\ tab \in {t \in Tab : t.is = "idle"}
    /\ matches = <<>> /\ printed = <<>>
    /\ clean = TRUE

AtPrompt == tab.is \in {"idle", "done"}
InTab    == tab.is \in {"first", "external"}

-----------------------------------------------------------------------------
(* The registry. *)

Slot(command) == SelectInSeq(registry, LAMBDA r : r.command = command)

\* Whether lookup_completion finds a script.
HasScript(command) == Slot(command) # 0

Registration(command, script) == [command |-> command, script |-> script]

\* Mutant: the limit is tested with > in place of >=.
RegisterOneTooMany(command, script) ==
    IF Slot(command) # 0
    THEN [registry EXCEPT ![Slot(command)].script = script]
    ELSE IF Len(registry) > MaxCompletions THEN registry
    ELSE Append(registry, Registration(command, script))

\* Mutant: a second registration of a command is appended.
RegisterTwice(command, script) ==
    IF Len(registry) >= MaxCompletions THEN registry
    ELSE Append(registry, Registration(command, script))

\* A full registry is left as it is, without a word.
Registered(command, script) ==
    IF Slot(command) # 0
    THEN [registry EXCEPT ![Slot(command)].script = script]
    ELSE IF Len(registry) >= MaxCompletions THEN registry
    ELSE Append(registry, Registration(command, script))

\* complete -C SCRIPT COMMAND
register_completion(command, script) ==
    /\ AtPrompt
    /\ registry' = Registered(command, script)
    /\ UNCHANGED <<statics, tab, matches, printed, clean>>

\* complete -r COMMAND
unregister_completion(command) ==
    /\ AtPrompt
    /\ registry' = IF HasScript(command) THEN RemoveAt(registry, Slot(command))
                   ELSE registry
    /\ UNCHANGED <<statics, tab, matches, printed, clean>>

-----------------------------------------------------------------------------
(* One completion: shell_completion_function chooses the generator; a line  *)
(* that begins with ./ or ../ and a command without a script are left to    *)
(* readline.                                                                *)

PressTab(text, command, where, start, relative) ==
    /\ AtPrompt
    /\ tab' = [is |-> IF relative THEN "idle"
                      ELSE IF start = 0 THEN "first"
                      ELSE IF HasScript(command) THEN "external"
                      ELSE "idle",
               text |-> text, command |-> command, where |-> where]
    /\ matches' = <<>> /\ printed' = <<>>
    /\ UNCHANGED <<registry, statics, clean>>

\* Readline's answer to a candidate, and to null.
Collect(candidate) == matches' = Append(matches, candidate) /\ UNCHANGED <<tab, clean>>
Finish ==
    /\ tab' = [tab EXCEPT !.is = "done"]
    /\ matches' = matches

\* Readline's count, which tells the generator when to start anew.
state == Len(matches)

\* Mutant: the phase of the last completion is kept.
PhaseKept == phase

\* The phase in which this call begins: a new completion starts with builtins.
PhaseNow == IF state = 0 THEN 0 ELSE phase

\* The builtin that builtin_generator returns, as its place in the table; 0
\* if none.  It gives up when it takes the last entry, before comparing it.
NextBuiltin ==
    LET from == IF state = 0 THEN 0 ELSE list_index
        fits == {k \in (from + 1)..(Len(Builtins) - 1) : Builtins[k] \in Begins[tab.text]}
    IN IF fits = {} THEN 0 ELSE Min(fits)

\* The place of the next fitting executable behind a given one; 0 if none.
NextOnPath(from) ==
    LET fits == {k \in (from + 1)..Len(OnPath) : OnPath[k] \in Begins[tab.text]}
    IN IF fits = {} THEN 0 ELSE Min(fits)

\* first_word_generator: the builtins, then the executables on the PATH, with
\* path_generator started anew when the builtins have come to their end.
FirstWordCall ==
    /\ tab.is = "first"
    /\ IF PhaseNow = 0 /\ NextBuiltin # 0
       THEN /\ phase' = 0
            /\ list_index' = NextBuiltin
            /\ path_pos' = path_pos
            /\ Collect(Builtins[NextBuiltin])
       ELSE LET next == NextOnPath(IF PhaseNow = 0 \/ state = 0 THEN 0 ELSE path_pos)
            IN /\ phase' = 1
               /\ list_index' = IF PhaseNow = 0 THEN Len(Builtins) ELSE list_index
               /\ path_pos' = next
               /\ IF next # 0 THEN Collect(OnPath[next])
                  ELSE Finish /\ clean' = clean
    /\ UNCHANGED <<registry, completions, cmp_idx, printed>>

\* Mutant: the search starts behind the command word.
FoundBehindCommand == tab.where = "argument"

\* find_current_word looks for a word, delimited by blanks, that begins with
\* the text; without one it does not return.
WordIsFound == tab.where # "inside"

\* Mutant: the index stays where it is when the candidates come to an end.
IndexKept(lines) ==
    IF cmp_idx >= Len(lines)
    THEN completions' = Null /\ cmp_idx' = cmp_idx /\ Finish /\ clean' = TRUE
    ELSE completions' = Pointer(lines) /\ cmp_idx' = cmp_idx + 1 /\ Collect(lines[cmp_idx + 1])

\* The last part of external_completer_generator: the next candidate, or the
\* end, which forgets them.
NextLine(lines) ==
    IF cmp_idx >= Len(lines)
    THEN completions' = Null /\ cmp_idx' = 0 /\ Finish /\ clean' = TRUE
    ELSE completions' = Pointer(lines) /\ cmp_idx' = cmp_idx + 1 /\ Collect(lines[cmp_idx + 1])

\* The first call finds the words of the line, runs the script and reads what
\* it prints; what an earlier completion left in cmp_idx is not reset.
ScriptRuns ==
    /\ tab.is = "external" /\ state = 0 /\ WordIsFound
    /\ \E lines \in Outputs : printed' = lines /\ NextLine(lines)
    /\ UNCHANGED <<registry, phase, list_index, path_pos>>

\* pipe or fork fails; only candidates that were left over are forgotten.
ScriptFails ==
    /\ tab.is = "external" /\ state = 0 /\ WordIsFound
    /\ completions' = Null
    /\ cmp_idx' = IF completions = Null THEN cmp_idx ELSE 0
    /\ Finish /\ clean' = TRUE
    /\ UNCHANGED <<registry, phase, list_index, path_pos, printed>>

Hang ==
    /\ tab.is = "external" /\ state = 0 /\ ~WordIsFound
    /\ tab' = [tab EXCEPT !.is = "hung"]
    /\ UNCHANGED <<registry, statics, matches, printed, clean>>

NextCall ==
    /\ tab.is = "external" /\ state # 0
    /\ NextLine(completions[1])
    /\ UNCHANGED <<registry, phase, list_index, path_pos, printed>>

\* Readline sees a signal after it got a candidate, drops what it has and does
\* not call the generator again.
GiveUp ==
    /\ InTab /\ state # 0
    /\ tab' = [tab EXCEPT !.is = "idle"]
    /\ matches' = <<>>
    /\ clean' = (clean /\ tab.is = "first")
    /\ UNCHANGED <<registry, statics, printed>>

GeneratorCall == FirstWordCall \/ ScriptRuns \/ ScriptFails \/ Hang \/ NextCall

Next ==
    \/ \E c \in Command, s \in Script : register_completion(c, s)
    \/ \E c \in Command : unregister_completion(c)
    \/ \E t \in Text, c \in Command, w \in Where, start \in {0, 1}, rel \in BOOLEAN :
         /\ start = 0 => w = "command"
         /\ t = NoText => w # "inside"
         /\ PressTab(t, c, w, start, rel)
    \/ GeneratorCall
    \/ GiveUp
    \/ tab.is = "hung" /\ UNCHANGED vars

Spec == Init /\ [][Next]_vars

\* Readline calls the generator until it has its null.
FairSpec == Spec /\ WF_vars(GeneratorCall)

-----------------------------------------------------------------------------
(* Properties. *)

TypeOK ==
    /\ registry \in Seq([command : Command, script : Script])
    /\ Len(registry) <= MaxCompletions
    /\ completions \in {Null} \cup {Pointer(lines) : lines \in Outputs}
    /\ cmp_idx \in Nat
    /\ phase \in {0, 1}
    /\ list_index \in 0..Len(Builtins)
    /\ path_pos \in 0..Len(OnPath)
    /\ tab \in Tab
    /\ matches \in Seq(Candidate)
    /\ printed \in {<<>>} \cup Outputs
    /\ clean \in BOOLEAN

\* The registry is a map, although replacing, appending and closing the gap of
\* a removed entry are array operations: otherwise unregistering a command
\* would uncover an older script for it.
RegistryIsMap ==
    \A i, j \in DOMAIN registry : registry[i].command = registry[j].command => i = j

\* The candidates of a script are the lines it printed, all and in their order,
\* and none of an earlier completion.  Only the completion after one that
\* readline gave up may lack some of them, at the front.
OffersWhatWasPrinted ==
    [][tab.is = "external" /\ tab'.is = "done" =>
         IF clean THEN matches' = printed' ELSE IsSuffix(matches', printed')]_vars

\* The names that begin with the text among the first k of a list, in order.
Fitting(names, text, k) ==
    LET upto[i \in 0..Len(names)] ==
            IF i = 0 THEN <<>>
            ELSE IF names[i] \in Begins[text] THEN Append(upto[i-1], names[i])
            ELSE upto[i-1]
    IN upto[k]

FirstWords == Fitting(Builtins, tab.text, Len(Builtins) - 1)
                \o Fitting(OnPath, tab.text, Len(OnPath))

\* The first word is completed with every fitting builtin but the last of the
\* table and every fitting executable, whatever completions came before and
\* were given up.
FirstWordIsComplete ==
    [][tab.is = "first" /\ tab'.is = "done" => matches' = FirstWords]_vars

\* A completion comes to an end if the text begins a word of the line.
CompletionEnds == InTab /\ tab.where # "inside" ~> AtPrompt
=============================================================================
