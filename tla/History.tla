------------------------------- MODULE History -------------------------------
(***************************************************************************)
(* The history list, its files, and who writes them when.                  *)
(*                                                                         *)
(* Every process of the shell has a list and the static counter of         *)
(* history -a, and a fork copies both.  Besides the shell there are the    *)
(* copies that run a chain in the background and the ones that run a       *)
(* command substitution, for which the shell waits.  Whoever leaves        *)
(* through exit() runs exit_handler and replaces the history file by its   *)
(* own list: the shell, a copy that meets the builtin exit, and the member *)
(* of a pipeline that is a builtin.  Copies that come to their end leave   *)
(* through _exit() and write nothing, as does a process that crashes.      *)
(*                                                                         *)
(* An entry is the number of the line; the lists themselves are readline's,*)
(* whose calls return zero or a positive errno, and seldom -1.             *)
(***************************************************************************)
EXTENDS Integers, SequencesExt

CONSTANTS
    Copies,      \* the forked copies of the shell that can exist at once
    HistFile,    \* the file HISTFILE names
    OtherFiles,  \* other files the history builtin is given
    MaxEntries,  \* the lines typed in all sessions (a bound)
    MaxLength,   \* no list or file gets longer (a bound)
    MaxCalls     \* the forks, exits and history commands in all (a bound)

ASSUME ShellIsNoCopy == Copies \subseteq Nat \ {0}
ASSUME FilesAssumption == HistFile \notin OtherFiles
ASSUME BoundsAssumption == MaxEntries \in Nat /\ MaxLength \in Nat /\ MaxCalls \in Nat

Shell == 0
Proc  == Copies \cup {Shell}
File  == OtherFiles \cup {HistFile}

VARIABLES
    pc,        \* what each process is doing
    awaited,   \* the copies the shell waits for
    list,      \* readline's list in each process
    appended,  \* entries_appended in each process
    file,      \* the entries in each file, or Missing
    next,      \* the number of the next line
    calls,     \* the forks, exits and history commands so far
    unread,    \* the session could not read a history file that is there
    saved,     \* history: entries the shell has saved to HISTFILE or found there
    sent,      \* history: the places in the list that each process has appended
    dropped    \* history: the places it has counted without writing them

memory == <<list, appended, sent, dropped>>
vars == <<pc, awaited, memory, file, next, calls, unread, saved>>

\* No entry has this number.
Missing == <<-1>>
Entry == 0..MaxEntries

Entries(f) == IF file[f] = Missing THEN {} ELSE ToSet(file[f])

TypeOK ==
    /\ pc \in [Proc -> {"none", "ended", "prompt", "running", "await"}]
    /\ pc[Shell] # "none" /\ \A c \in Copies : pc[c] \in {"none", "running"}
    /\ awaited \subseteq {c \in Copies : pc[c] = "running"}
    /\ pc[Shell] = "await" <=> awaited # {}
    /\ list \in [Proc -> Seq(Entry)] /\ appended \in [Proc -> Nat]
    /\ sent \in [Proc -> Seq(Nat)] /\ dropped \in [Proc -> SUBSET Nat]
    /\ file \in [File -> Seq(Entry) \cup {Missing}]
    /\ saved \subseteq Entry /\ unread \in BOOLEAN
    /\ next \in 1..(MaxEntries + 1) /\ calls \in 0..MaxCalls

\* A file may be there from before, with line 0 in it.
Init ==
    /\ pc = [p \in Proc |-> IF p = Shell THEN "ended" ELSE "none"]
    /\ awaited = {}
    /\ list = [p \in Proc |-> <<>>]
    /\ appended = [p \in Proc |-> 0]
    /\ file \in [File -> {Missing, <<0>>}]
    /\ next = 1 /\ calls = 0
    /\ unread = FALSE
    /\ saved = {}
    /\ sent = [p \in Proc |-> <<>>]
    /\ dropped = [p \in Proc |-> {}]

-----------------------------------------------------------------------------
(* Readline. *)

\* Mutant: reading a file forgets the list.
ReadOver(l, entries) == entries

\* read_history adds the entries of a file to the list.
ReadInto(l, entries) == l \o entries

Runs(p) == pc[p] = "running"

\* Process p executes one of the commands that are counted.
Calls(p) ==
    /\ Runs(p)
    /\ calls < MaxCalls
    /\ calls' = calls + 1

\* A process whose list holds all that has been saved: the shell, unless it
\* could not read its file, and the copies it waits for.
UpToDate(p) == ~unread /\ (p = Shell \/ p \in awaited)

\* write_history replaces the file by the whole list, or fails and leaves it.
\* What an out-of-date list replaces is no longer counted as saved.
WriteHistory(p, f) ==
    \/ /\ file' = [file EXCEPT ![f] = list[p]]
       /\ saved' = IF f # HistFile THEN saved
                   ELSE (IF UpToDate(p) THEN saved ELSE saved \cap ToSet(list[p]))
                        \cup (IF p = Shell THEN ToSet(list[p]) ELSE {})
    \/ UNCHANGED <<file, saved>>

-----------------------------------------------------------------------------
(* The session. *)

\* repl: the counter starts at zero, and the list with the history file, if it
\* can be read.
StartUp ==
    /\ pc[Shell] = "ended"
    /\ pc' = [pc EXCEPT ![Shell] = "prompt"]
    /\ appended' = [appended EXCEPT ![Shell] = 0]
    /\ sent' = [sent EXCEPT ![Shell] = <<>>]
    /\ dropped' = [dropped EXCEPT ![Shell] = {}]
    /\ \/ /\ file[HistFile] # Missing
          /\ list' = [list EXCEPT ![Shell] = ReadInto(<<>>, file[HistFile])]
          /\ saved' = saved \cup Entries(HistFile)
          /\ unread' = FALSE
       \/ /\ list' = [list EXCEPT ![Shell] = <<>>]
          /\ unread' = (file[HistFile] # Missing)
          /\ saved' = saved
    /\ UNCHANGED <<awaited, file, next, calls>>

\* A line enters the list before any of it is executed.
AddHistory ==
    /\ pc[Shell] = "prompt"
    /\ next <= MaxEntries
    /\ Len(list[Shell]) < MaxLength
    /\ list' = [list EXCEPT ![Shell] = Append(@, next)]
    /\ next' = next + 1
    /\ pc' = [pc EXCEPT ![Shell] = "running"]
    /\ UNCHANGED <<awaited, appended, sent, dropped, file, calls, unread, saved>>

\* An empty line does nothing.
EmptyLine == pc[Shell] = "prompt" /\ UNCHANGED vars

LineDone ==
    /\ Runs(Shell)
    /\ pc' = [pc EXCEPT ![Shell] = "prompt"]
    /\ UNCHANGED <<awaited, memory, file, next, calls, unread, saved>>

\* execute_andor_bg and capture_list_output: a copy of everything.
Fork(c, wait) ==
    /\ Calls(Shell) /\ pc[c] = "none"
    /\ list' = [list EXCEPT ![c] = list[Shell]]
    /\ appended' = [appended EXCEPT ![c] = appended[Shell]]
    /\ sent' = [sent EXCEPT ![c] = sent[Shell]]
    /\ dropped' = [dropped EXCEPT ![c] = dropped[Shell]]
    /\ awaited' = IF wait THEN awaited \cup {c} ELSE awaited
    /\ pc' = [pc EXCEPT ![c] = "running", ![Shell] = IF wait THEN "await" ELSE @]
    /\ UNCHANGED <<file, next, unread, saved>>

\* Mutant: the shell is not told of the end of what it waits for.
LeavesUnseen(p) ==
    /\ pc' = [pc EXCEPT ![p] = IF p = Shell THEN "ended" ELSE "none"]
    /\ awaited' = awaited
    /\ list' = [list EXCEPT ![p] = <<>>]
    /\ appended' = [appended EXCEPT ![p] = 0]
    /\ sent' = [sent EXCEPT ![p] = <<>>]
    /\ dropped' = [dropped EXCEPT ![p] = {}]
    /\ UNCHANGED <<next, unread>>

\* A process is gone, and its memory with it; the shell goes on if it waited.
Leaves(p) ==
    /\ pc' = [q \in Proc |-> IF q = p THEN (IF p = Shell THEN "ended" ELSE "none")
                             ELSE IF q = Shell /\ p \in awaited THEN "running"
                             ELSE pc[q]]
    /\ awaited' = awaited \ {p}
    /\ list' = [list EXCEPT ![p] = <<>>]
    /\ appended' = [appended EXCEPT ![p] = 0]
    /\ sent' = [sent EXCEPT ![p] = <<>>]
    /\ dropped' = [dropped EXCEPT ![p] = {}]
    /\ UNCHANGED <<next, unread>>

\* The builtin exit.
Exit(p) ==
    /\ Calls(p)
    /\ WriteHistory(p, HistFile)
    /\ Leaves(p)

\* A builtin in a pipeline: the member calls exit() with the list of the
\* process that waits for it.
MemberExits(p) ==
    /\ Calls(p)
    /\ WriteHistory(p, HistFile)
    /\ UNCHANGED <<pc, awaited, memory, next, unread>>

\* A copy at its end, through _exit().
Finish(c) ==
    /\ Runs(c) /\ c # Shell
    /\ Leaves(c)
    /\ UNCHANGED <<file, calls, saved>>

\* history n with more than there is reads in front of the list; so does any
\* other end without exit().
Crash(p) ==
    /\ Calls(p)
    /\ Leaves(p)
    /\ UNCHANGED <<file, saved>>

-----------------------------------------------------------------------------
(* The history builtin. *)

HistoryRead(p, f) ==
    /\ Calls(p)
    /\ file[f] # Missing
    /\ Len(list[p]) + Len(file[f]) <= MaxLength
    /\ list' = [list EXCEPT ![p] = ReadInto(@, file[f])]
    /\ UNCHANGED <<pc, awaited, appended, sent, dropped, file, next, unread, saved>>

HistoryWrite(p, f) ==
    /\ Calls(p)
    /\ WriteHistory(p, f)
    /\ UNCHANGED <<pc, awaited, memory, next, unread>>

\* Mutant: as if the counter were the length at the last time, less one.
OneMore(p) == Min({Len(list[p]), Len(list[p]) - appended[p] + 1})

NewEntries(p) == Len(list[p]) - appended[p]

\* The places of the list's last entries.
LastPlaces(p, n) == [i \in 1..n |-> Len(list[p]) - n + i]

\* append_history writes the last entries to a file that exists.  A failure is
\* recognized by the status -1; any other leaves the counter moved on past
\* entries that were not written.
HistoryAppend(p, f) ==
    /\ Calls(p)
    /\ LET n == NewEntries(p)
           places == LastPlaces(p, n)
           new == [i \in 1..n |-> list[p][places[i]]]
           counts == appended' = [appended EXCEPT ![p] = @ + n]
       IN \/ /\ file[f] # Missing
             /\ Len(file[f]) + n <= MaxLength
             /\ file' = [file EXCEPT ![f] = @ \o new]
             /\ saved' = IF p = Shell /\ f = HistFile
                         THEN saved \cup ToSet(new) ELSE saved
             /\ sent' = [sent EXCEPT ![p] = @ \o places]
             /\ counts
             /\ dropped' = dropped
          \/ /\ counts
             /\ dropped' = [dropped EXCEPT ![p] = @ \cup ToSet(places)]
             /\ UNCHANGED <<file, saved, sent>>
          \/ UNCHANGED <<appended, dropped, file, saved, sent>>
    /\ UNCHANGED <<pc, awaited, list, next, unread>>

-----------------------------------------------------------------------------
Step(p) ==
    \/ Exit(p) \/ MemberExits(p) \/ Finish(p) \/ Crash(p)
    \/ \E f \in File : HistoryRead(p, f) \/ HistoryWrite(p, f) \/ HistoryAppend(p, f)

Next ==
    \/ StartUp \/ EmptyLine \/ AddHistory \/ LineDone
    \/ \E c \in Copies, wait \in BOOLEAN : Fork(c, wait)
    \/ \E p \in Proc : Step(p)

Spec == Init /\ [][Next]_vars

-----------------------------------------------------------------------------
(* Properties. *)

\* Within one process history -a takes up each entry of the list once and in
\* order, whatever -r and -w do in between: it is written, or lost because a
\* failure went unnoticed.
AppendedOnce ==
    \A p \in Proc :
        /\ appended[p] <= Len(list[p])
        /\ \A i \in 1..(Len(sent[p]) - 1) : sent[p][i] < sent[p][i+1]
        /\ ToSet(sent[p]) \cup dropped[p] = 1..appended[p]
        /\ ToSet(sent[p]) \cap dropped[p] = {}

\* What the shell has saved stays in the history file and in its own list,
\* from one session to the next and whatever the members of its pipelines and
\* the copies it waits for write at their exits.  Only a background copy that
\* writes an older list, or a session that could not read the file, takes
\* entries away.
SavedStays ==
    /\ saved \subseteq Entries(HistFile)
    /\ pc[Shell] # "ended" /\ ~unread => saved \subseteq ToSet(list[Shell])

\* The shell waits for one copy at a time, and what it has saved is in the
\* list of that copy too.
AwaitedIsUpToDate ==
    /\ \A c, d \in awaited : c = d
    /\ ~unread => \A c \in awaited : saved \subseteq ToSet(list[c])

\* The inductive invariant of HistoryProofs.
IInv ==
    /\ TypeOK
    /\ AppendedOnce
    /\ SavedStays
    /\ AwaitedIsUpToDate
=============================================================================
