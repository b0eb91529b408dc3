---------------------------- MODULE HistoryProofs -----------------------------
(***************************************************************************)
(* History for any number of copies, files and entries, and whatever the   *)
(* bounds are: history -a takes up each entry once, and what the shell has *)
(* saved stays.                                                            *)
(*                                                                         *)
(* The processes differ only in what they may do to saved: WriteSafe says  *)
(* what a write of the whole list does to it.  LeavesKeeps is shared by    *)
(* the three ways a process ends.                                          *)
(***************************************************************************)
EXTENDS History, TLAPS

-----------------------------------------------------------------------------
(* Sequences and their sets of elements. *)

\* What read_history and append_history do to the set of entries.
LEMMA ToSetConcat ==
    ASSUME NEW S, NEW s \in Seq(S), NEW t \in Seq(S)
    PROVE  ToSet(s \o t) = ToSet(s) \cup ToSet(t)
  <1>1. /\ Len(s \o t) = Len(s) + Len(t)
        /\ \A i \in 1..Len(s \o t) :
             (s \o t)[i] = IF i <= Len(s) THEN s[i] ELSE t[i - Len(s)]
    OBVIOUS
  <1>2. ToSet(s \o t) \subseteq ToSet(s) \cup ToSet(t)
    BY <1>1 DEF ToSet
  <1>3. ToSet(s) \subseteq ToSet(s \o t)
    BY <1>1 DEF ToSet
  <1>4. ASSUME NEW j \in 1..Len(t) PROVE t[j] \in ToSet(s \o t)
    <2>1. Len(s) + j \in 1..Len(s \o t) /\ (s \o t)[Len(s) + j] = t[j]
      BY <1>1
    <2>2. QED
      BY <2>1 DEF ToSet
  <1>5. QED
    BY <1>2, <1>3, <1>4 DEF ToSet

\* Where the elements of the two are, and that the first only grows.
LEMMA ConcatElements ==
    ASSUME NEW S, NEW s \in Seq(S), NEW t \in Seq(S)
    PROVE  /\ s \o t \in Seq(S)
           /\ Len(s \o t) = Len(s) + Len(t) /\ Len(s \o t) >= Len(s)
           /\ \A i \in 1..Len(s) : (s \o t)[i] = s[i]
           /\ \A i \in 1..Len(t) : (s \o t)[Len(s) + i] = t[i]
  OBVIOUS

\* What add_history does to it.
LEMMA ToSetAppend ==
    ASSUME NEW S, NEW s \in Seq(S), NEW e \in S
    PROVE  ToSet(Append(s, e)) = ToSet(s) \cup {e}
  <1>1. /\ Len(Append(s, e)) = Len(s) + 1
        /\ \A i \in 1..Len(s) : Append(s, e)[i] = s[i]
        /\ Append(s, e)[Len(s) + 1] = e
    OBVIOUS
  <1>2. QED
    BY <1>1 DEF ToSet

\* An empty list and an empty set.
LEMMA ToSetEmpty == ToSet(<<>>) = {}
  BY DEF ToSet

\* A list of entries is not the mark of a missing file.
LEMMA EntriesOfList ==
    ASSUME NEW s \in Seq(Entry)
    PROVE  s # Missing /\ ToSet(s) \subseteq Entry
  <1>1. \A i \in 1..Len(s) : s[i] \in Entry
    OBVIOUS
  <1>2. s # Missing
    <2>1. -1 \notin Entry /\ Missing[1] = -1 /\ Len(Missing) = 1
      BY DEF Entry, Missing
    <2>2. QED
      BY <1>1, <2>1
  <1>3. ToSet(s) \subseteq Entry
    BY <1>1 DEF ToSet
  <1>4. QED
    BY <1>2, <1>3

-----------------------------------------------------------------------------
(* Steps that leave parts of the state alone. *)

\* The counters of history -a depend on the memory of the processes only.
LEMMA MemoryKept ==
    ASSUME AppendedOnce, UNCHANGED memory
    PROVE  AppendedOnce'
  BY DEF AppendedOnce, memory

\* write_history puts the whole list into the file: what is still counted as
\* saved is in that list if it is the history file that was replaced, and only
\* the shell adds to it.
LEMMA WriteSafe ==
    ASSUME IInv, NEW p \in Proc, Runs(p), NEW f \in File, WriteHistory(p, f)
    PROVE  /\ file' \in [File -> Seq(Entry) \cup {Missing}]
           /\ saved' \subseteq Entry
           /\ saved' \subseteq Entries(HistFile)'
           /\ saved' \subseteq saved \cup ToSet(list[Shell])
           /\ p # Shell => saved' \subseteq saved
  <1> USE DEF Shell
  <1>1. TypeOK /\ SavedStays /\ AwaitedIsUpToDate
    BY DEF IInv
  <1>2. HistFile \in File /\ Shell \in Proc /\ list[p] \in Seq(Entry)
        /\ list[Shell] \in Seq(Entry)
    BY <1>1 DEF TypeOK, File, Proc
  <1>3. CASE UNCHANGED <<file, saved>>
    BY <1>1, <1>3 DEF TypeOK, SavedStays, Entries
  <1>4. CASE /\ file' = [file EXCEPT ![f] = list[p]]
             /\ saved' = IF f # HistFile THEN saved
                   ELSE (IF UpToDate(p) THEN saved ELSE saved \cap ToSet(list[p]))
                        \cup (IF p = Shell THEN ToSet(list[p]) ELSE {})
    <2>1. file' \in [File -> Seq(Entry) \cup {Missing}]
      BY <1>1, <1>2, <1>4 DEF TypeOK
    <2>2. UpToDate(p) => saved \subseteq ToSet(list[p])
      <3>1. CASE p = Shell
        BY <1>1, <3>1 DEF UpToDate, SavedStays, Runs
      <3>2. CASE p # Shell
        BY <1>1, <3>2 DEF UpToDate, AwaitedIsUpToDate
      <3>3. QED
        BY <3>1, <3>2
    <2>3. CASE f # HistFile
      <3>1. saved' = saved /\ file'[HistFile] = file[HistFile]
        BY <1>1, <1>2, <1>4, <2>3 DEF TypeOK
      <3>2. QED
        BY <2>1, <3>1, <1>1 DEF TypeOK, SavedStays, Entries
    <2>4. CASE f = HistFile
      <3>1. saved' \subseteq saved \cup ToSet(list[Shell])
            /\ (p # Shell => saved' \subseteq saved)
            /\ saved' \subseteq ToSet(list[p])
        BY <1>4, <2>2, <2>4
      <3>2. file'[HistFile] = list[p] /\ file'[HistFile] # Missing
        BY <1>1, <1>2, <1>4, <2>4, EntriesOfList DEF TypeOK
      <3>3. Entries(HistFile)' = ToSet(list[p])
        BY <3>2 DEF Entries
      <3>4. QED
        BY <2>1, <3>1, <3>3, <1>2, EntriesOfList
    <2>5. QED
      BY <2>3, <2>4
  <1>5. QED
    BY <1>3, <1>4 DEF WriteHistory

\* A process that leaves takes nothing away: the shell's session is over, and
\* a copy the shell waited for lets it go on.
LEMMA LeavesKeeps ==
    ASSUME IInv, NEW p \in Proc, Runs(p), Leaves(p),
           calls' \in 0..MaxCalls,
           file' \in [File -> Seq(Entry) \cup {Missing}],
           saved' \subseteq Entry,
           saved' \subseteq Entries(HistFile)',
           saved' \subseteq saved \cup ToSet(list[Shell]),
           p # Shell => saved' \subseteq saved
    PROVE  IInv'
  <1> USE DEF Shell
  <1>1. TypeOK /\ AppendedOnce /\ SavedStays /\ AwaitedIsUpToDate
    BY DEF IInv
  <1>2. /\ pc' = [q \in Proc |->
                    IF q = p THEN (IF p = Shell THEN "ended" ELSE "none")
                    ELSE IF q = Shell /\ p \in awaited THEN "running" ELSE pc[q]]
        /\ awaited' = awaited \ {p}
        /\ list' = [list EXCEPT ![p] = <<>>]
        /\ appended' = [appended EXCEPT ![p] = 0]
        /\ sent' = [sent EXCEPT ![p] = <<>>]
        /\ dropped' = [dropped EXCEPT ![p] = {}]
        /\ next' = next /\ unread' = unread
    BY DEF Leaves
  <1>3. Shell \in Proc /\ Copies \subseteq Proc /\ Shell \notin Copies
        /\ pc[p] = "running"
    BY ShellIsNoCopy DEF Proc, Runs
  <1>4. TypeOK'
    <2>1. pc' \in [Proc -> {"none", "ended", "prompt", "running", "await"}]
          /\ pc'[Shell] # "none"
          /\ \A c \in Copies : pc'[c] \in {"none", "running"}
      BY <1>1, <1>2, <1>3 DEF TypeOK
    <2>2. awaited' \subseteq {c \in Copies : pc'[c] = "running"}
      BY <1>1, <1>2, <1>3 DEF TypeOK
    <2>3. pc'[Shell] = "await" <=> awaited' # {}
      <3>1. CASE p = Shell
        BY <1>1, <1>2, <1>3, <3>1 DEF TypeOK
      <3>2. CASE p # Shell /\ p \in awaited
        <4>1. awaited' = {}
          BY <1>1, <1>2, <3>2 DEF AwaitedIsUpToDate
        <4>2. QED
          BY <4>1, <1>2, <1>3, <3>2
      <3>3. CASE p # Shell /\ p \notin awaited
        BY <1>1, <1>2, <1>3, <3>3 DEF TypeOK
      <3>4. QED
        BY <3>1, <3>2, <3>3
    <2>4. /\ list' \in [Proc -> Seq(Entry)] /\ appended' \in [Proc -> Nat]
          /\ sent' \in [Proc -> Seq(Nat)] /\ dropped' \in [Proc -> SUBSET Nat]
      BY <1>1, <1>2 DEF TypeOK
    <2>5. QED
      BY <2>1, <2>2, <2>3, <2>4, <1>1, <1>2 DEF TypeOK
  <1>5. AppendedOnce'
    <2>1. ASSUME NEW q \in Proc, q # p
          PROVE  list'[q] = list[q] /\ appended'[q] = appended[q]
                 /\ sent'[q] = sent[q] /\ dropped'[q] = dropped[q]
      BY <1>1, <1>2, <2>1 DEF TypeOK
    <2>2. list'[p] = <<>> /\ appended'[p] = 0 /\ sent'[p] = <<>> /\ dropped'[p] = {}
      BY <1>1, <1>2 DEF TypeOK
    <2>3. /\ appended'[p] <= Len(list'[p])
          /\ \A i \in 1..(Len(sent'[p]) - 1) : sent'[p][i] < sent'[p][i+1]
          /\ ToSet(sent'[p]) \cup dropped'[p] = 1..appended'[p]
          /\ ToSet(sent'[p]) \cap dropped'[p] = {}
      BY <2>2, ToSetEmpty
    <2>4. QED
      BY <2>1, <2>3, <1>1 DEF AppendedOnce
  <1>6. SavedStays'
    <2>1. CASE p = Shell
      BY <1>2, <1>3, <2>1 DEF SavedStays
    <2>2. CASE p # Shell
      <3>1. list'[Shell] = list[Shell]
        BY <1>1, <1>2, <1>3, <2>2 DEF TypeOK
      <3>2. pc'[Shell] # "ended" => pc[Shell] # "ended"
        BY <1>1, <1>2, <1>3, <2>2 DEF TypeOK
      <3>3. QED
        BY <1>1, <1>2, <2>2, <3>1, <3>2 DEF SavedStays
    <2>3. QED
      BY <2>1, <2>2
  <1>7. AwaitedIsUpToDate'
    <2>1. CASE p = Shell
      <3>1. awaited = {}
        BY <1>1, <1>3, <2>1 DEF TypeOK
      <3>2. QED
        BY <3>1, <1>2 DEF AwaitedIsUpToDate
    <2>2. CASE p # Shell
      <3>1. \A c \in awaited' : c \in awaited /\ list'[c] = list[c]
        BY <1>1, <1>2, <1>3 DEF TypeOK
      <3>2. QED
        BY <3>1, <2>2, <1>1, <1>2 DEF AwaitedIsUpToDate
    <2>3. QED
      BY <2>1, <2>2
  <1>8. QED
    BY <1>4, <1>5, <1>6, <1>7 DEF IInv

-----------------------------------------------------------------------------
(* One lemma per operation. *)

\* No process runs and nothing has been saved.
LEMMA InvInit == Init => IInv
  <1> SUFFICES ASSUME Init PROVE IInv
    OBVIOUS
  <1> USE DEF Shell
  <1>1. Shell \in Proc /\ Shell \notin Copies /\ HistFile \in File /\ 0 \in Entry
    BY ShellIsNoCopy, BoundsAssumption DEF Proc, File, Entry
  <1>2. file \in [File -> Seq(Entry) \cup {Missing}]
    <2>1. <<0>> \in Seq(Entry)
      BY <1>1
    <2>2. QED
      BY <2>1 DEF Init
  <1>3. pc \in [Proc -> {"none", "ended", "prompt", "running", "await"}]
        /\ pc[Shell] = "ended" /\ \A c \in Copies : pc[c] = "none"
    BY <1>1 DEF Init, Proc
  <1>4. list \in [Proc -> Seq(Entry)] /\ appended \in [Proc -> Nat]
        /\ sent \in [Proc -> Seq(Nat)] /\ dropped \in [Proc -> SUBSET Nat]
    BY DEF Init
  <1>5. awaited = {} /\ saved = {} /\ unread = FALSE /\ next = 1 /\ calls = 0
    BY DEF Init
  <1>6. TypeOK
    <2>1. next \in 1..(MaxEntries + 1) /\ calls \in 0..MaxCalls
      BY <1>5, BoundsAssumption
    <2>2. pc[Shell] = "await" <=> awaited # {}
      BY <1>3, <1>5
    <2>3. QED
      BY <1>2, <1>3, <1>4, <1>5, <2>1, <2>2 DEF TypeOK
  <1>7. AppendedOnce
    <2>1. ASSUME NEW p \in Proc
          PROVE  list[p] = <<>> /\ appended[p] = 0 /\ sent[p] = <<>> /\ dropped[p] = {}
      BY DEF Init
    <2>2. QED
      BY <2>1, ToSetEmpty DEF AppendedOnce
  <1>8. SavedStays /\ AwaitedIsUpToDate
    BY <1>5 DEF SavedStays, AwaitedIsUpToDate
  <1>9. QED
    BY <1>6, <1>7, <1>8 DEF IInv

\* The next session: it has in its list what the history file holds, or knows
\* that it could not read it.
LEMMA StartUpKeeps ==
    ASSUME IInv, StartUp
    PROVE  IInv'
  <1> USE DEF Shell
  <1>1. TypeOK /\ AppendedOnce /\ SavedStays /\ AwaitedIsUpToDate
    BY DEF IInv
  <1>2. /\ pc[Shell] = "ended"
        /\ pc' = [pc EXCEPT ![Shell] = "prompt"]
        /\ appended' = [appended EXCEPT ![Shell] = 0]
        /\ sent' = [sent EXCEPT ![Shell] = <<>>]
        /\ dropped' = [dropped EXCEPT ![Shell] = {}]
        /\ awaited' = awaited /\ file' = file /\ next' = next /\ calls' = calls
    BY DEF StartUp
  <1>3. Shell \in Proc /\ Shell \notin Copies /\ Copies \subseteq Proc
        /\ HistFile \in File /\ awaited = {}
    BY ShellIsNoCopy, <1>1, <1>2 DEF Proc, File, TypeOK
  <1>4. /\ list' \in [Proc -> Seq(Entry)]
        /\ \A q \in Proc \ {Shell} : list'[q] = list[q]
        /\ saved' \subseteq Entry /\ unread' \in BOOLEAN
        /\ saved' \subseteq Entries(HistFile)'
        /\ ~unread' => saved' \subseteq ToSet(list'[Shell])
    <2>1. CASE /\ file[HistFile] # Missing
               /\ list' = [list EXCEPT ![Shell] = ReadInto(<<>>, file[HistFile])]
               /\ saved' = saved \cup Entries(HistFile)
               /\ unread' = FALSE
      <3>1. file[HistFile] \in Seq(Entry)
            /\ ReadInto(<<>>, file[HistFile]) = file[HistFile]
        BY <1>1, <1>3, <2>1 DEF TypeOK, ReadInto
      <3>2. list' \in [Proc -> Seq(Entry)] /\ list'[Shell] = file[HistFile]
            /\ \A q \in Proc \ {Shell} : list'[q] = list[q]
        BY <1>1, <1>3, <2>1, <3>1 DEF TypeOK
      <3>3. Entries(HistFile) = ToSet(file[HistFile])
            /\ Entries(HistFile)' = Entries(HistFile)
        BY <1>2, <2>1 DEF Entries
      <3>4. Entries(HistFile) \subseteq Entry
        BY <3>1, <3>3, EntriesOfList
      <3>5. QED
        BY <2>1, <3>2, <3>3, <3>4, <1>1 DEF TypeOK, SavedStays
    <2>2. CASE /\ list' = [list EXCEPT ![Shell] = <<>>]
               /\ unread' = (file[HistFile] # Missing)
               /\ saved' = saved
      <3>1. list' \in [Proc -> Seq(Entry)]
            /\ \A q \in Proc \ {Shell} : list'[q] = list[q]
        <4>1. <<>> \in Seq(Entry) /\ list \in [Proc -> Seq(Entry)]
          BY <1>1 DEF TypeOK
        <4>2. QED
          BY <4>1, <2>2
      <3>2. Entries(HistFile)' = Entries(HistFile)
        BY <1>2 DEF Entries
      <3>3. ~unread' => saved = {}
        BY <1>1, <2>2 DEF SavedStays, Entries
      <3>4. QED
        BY <3>1, <3>2, <3>3, <2>2, <1>1 DEF TypeOK, SavedStays
    <2>3. QED
      BY <2>1, <2>2 DEF StartUp
  <1>5. TypeOK'
    <2>1. pc' \in [Proc -> {"none", "ended", "prompt", "running", "await"}]
          /\ pc'[Shell] = "prompt" /\ \A c \in Copies : pc'[c] = pc[c]
      BY <1>1, <1>2, <1>3 DEF TypeOK
    <2>2. /\ appended' \in [Proc -> Nat] /\ sent' \in [Proc -> Seq(Nat)]
          /\ dropped' \in [Proc -> SUBSET Nat]
      <3>1. /\ appended \in [Proc -> Nat] /\ sent \in [Proc -> Seq(Nat)]
            /\ dropped \in [Proc -> SUBSET Nat]
            /\ <<>> \in Seq(Nat)
        BY <1>1 DEF TypeOK
      <3>2. QED
        BY <3>1, <1>2
    <2>3. QED
      BY <2>1, <2>2, <1>1, <1>2, <1>3, <1>4 DEF TypeOK
  <1>6. AppendedOnce'
    <2>1. ASSUME NEW q \in Proc \ {Shell}
          PROVE  list'[q] = list[q] /\ appended'[q] = appended[q]
                 /\ sent'[q] = sent[q] /\ dropped'[q] = dropped[q]
      BY <1>1, <1>2, <1>4 DEF TypeOK
    <2>2. appended'[Shell] = 0 /\ sent'[Shell] = <<>> /\ dropped'[Shell] = {}
          /\ Len(list'[Shell]) \in Nat
      BY <1>1, <1>2, <1>3, <1>4 DEF TypeOK
    <2>3. /\ appended'[Shell] <= Len(list'[Shell])
          /\ \A i \in 1..(Len(sent'[Shell]) - 1) : sent'[Shell][i] < sent'[Shell][i+1]
          /\ ToSet(sent'[Shell]) \cup dropped'[Shell] = 1..appended'[Shell]
          /\ ToSet(sent'[Shell]) \cap dropped'[Shell] = {}
      BY <2>2, ToSetEmpty
    <2>4. QED
      BY <2>1, <2>3, <1>1 DEF AppendedOnce
  <1>7. SavedStays' /\ AwaitedIsUpToDate'
    BY <1>2, <1>3, <1>4 DEF SavedStays, AwaitedIsUpToDate
  <1>8. QED
    BY <1>5, <1>6, <1>7 DEF IInv

\* A new line comes behind the entries that history -a has taken up.
LEMMA AddHistoryKeeps ==
    ASSUME IInv, AddHistory
    PROVE  IInv'
  <1> USE DEF Shell
  <1>1. TypeOK /\ AppendedOnce /\ SavedStays /\ AwaitedIsUpToDate
    BY DEF IInv
  <1>2. /\ pc[Shell] = "prompt" /\ next <= MaxEntries
        /\ list' = [list EXCEPT ![Shell] = Append(@, next)]
        /\ next' = next + 1
        /\ pc' = [pc EXCEPT ![Shell] = "running"]
        /\ awaited' = awaited /\ appended' = appended /\ sent' = sent
        /\ dropped' = dropped /\ file' = file /\ calls' = calls
        /\ unread' = unread /\ saved' = saved
    BY DEF AddHistory
  <1>3. Shell \in Proc /\ Shell \notin Copies /\ Copies \subseteq Proc
        /\ awaited = {} /\ next \in Entry /\ next' \in 1..(MaxEntries + 1)
    BY ShellIsNoCopy, BoundsAssumption, <1>1, <1>2 DEF Proc, TypeOK, Entry
  <1>4. /\ list' \in [Proc -> Seq(Entry)]
        /\ list'[Shell] = Append(list[Shell], next)
        /\ Len(list'[Shell]) = Len(list[Shell]) + 1
        /\ \A q \in Proc \ {Shell} : list'[q] = list[q]
    BY <1>1, <1>2, <1>3 DEF TypeOK
  <1>5. ToSet(list[Shell]) \subseteq ToSet(list'[Shell])
    BY <1>1, <1>3, <1>4, ToSetAppend DEF TypeOK
  <1>6. TypeOK'
    <2>1. pc' \in [Proc -> {"none", "ended", "prompt", "running", "await"}]
          /\ pc'[Shell] = "running" /\ \A c \in Copies : pc'[c] = pc[c]
      BY <1>1, <1>2, <1>3 DEF TypeOK
    <2>2. QED
      BY <2>1, <1>1, <1>2, <1>3, <1>4 DEF TypeOK
  <1>7. AppendedOnce'
    <2>1. \A p \in Proc : Len(list[p]) \in Nat /\ appended[p] \in Nat
      BY <1>1 DEF TypeOK
    <2>2. \A p \in Proc : appended[p] <= Len(list'[p])
      BY <2>1, <1>1, <1>4 DEF AppendedOnce
    <2>3. QED
      BY <2>2, <1>1, <1>2 DEF AppendedOnce
  <1>8. SavedStays' /\ AwaitedIsUpToDate'
    BY <1>1, <1>2, <1>3, <1>5 DEF SavedStays, AwaitedIsUpToDate, Entries
  <1>9. QED
    BY <1>6, <1>7, <1>8 DEF IInv

\* The shell comes back to the prompt.
LEMMA LineDoneKeeps ==
    ASSUME IInv, LineDone
    PROVE  IInv'
  <1> USE DEF Shell
  <1>1. TypeOK /\ AppendedOnce /\ SavedStays /\ AwaitedIsUpToDate
    BY DEF IInv
  <1>2. /\ pc[Shell] = "running" /\ pc' = [pc EXCEPT ![Shell] = "prompt"]
        /\ UNCHANGED <<awaited, memory, file, next, calls, unread, saved>>
    BY DEF LineDone, Runs
  <1>3. Shell \in Proc /\ Shell \notin Copies /\ Copies \subseteq Proc
    BY ShellIsNoCopy DEF Proc
  <1>4. pc' \in [Proc -> {"none", "ended", "prompt", "running", "await"}]
        /\ pc'[Shell] = "prompt" /\ \A c \in Copies : pc'[c] = pc[c]
    BY <1>1, <1>2, <1>3 DEF TypeOK
  <1>5. TypeOK'
    BY <1>1, <1>2, <1>3, <1>4 DEF TypeOK, memory
  <1>6. AppendedOnce'
    BY <1>1, <1>2, MemoryKept
  <1>7. SavedStays' /\ AwaitedIsUpToDate'
    BY <1>1, <1>2, <1>4 DEF SavedStays, AwaitedIsUpToDate, Entries, memory
  <1>8. QED
    BY <1>5, <1>6, <1>7 DEF IInv

\* A copy has the shell's list and counters.
LEMMA ForkKeeps ==
    ASSUME IInv, NEW c \in Copies, NEW wait \in BOOLEAN, Fork(c, wait)
    PROVE  IInv'
  <1> USE DEF Shell
  <1>1. TypeOK /\ AppendedOnce /\ SavedStays /\ AwaitedIsUpToDate
    BY DEF IInv
  <1>2. /\ pc[Shell] = "running" /\ pc[c] = "none"
        /\ calls < MaxCalls /\ calls' = calls + 1
        /\ list' = [list EXCEPT ![c] = list[Shell]]
        /\ appended' = [appended EXCEPT ![c] = appended[Shell]]
        /\ sent' = [sent EXCEPT ![c] = sent[Shell]]
        /\ dropped' = [dropped EXCEPT ![c] = dropped[Shell]]
        /\ awaited' = IF wait THEN awaited \cup {c} ELSE awaited
        /\ pc' = [pc EXCEPT ![c] = "running",
                            ![Shell] = IF wait THEN "await" ELSE @]
        /\ file' = file /\ next' = next /\ unread' = unread /\ saved' = saved
    BY DEF Fork, Calls, Runs
  <1>3. Shell \in Proc /\ c \in Proc /\ c # Shell /\ Shell \notin Copies
        /\ Copies \subseteq Proc /\ awaited = {}
    BY ShellIsNoCopy, <1>1, <1>2 DEF Proc, TypeOK
  <1>4. /\ list' \in [Proc -> Seq(Entry)] /\ appended' \in [Proc -> Nat]
        /\ sent' \in [Proc -> Seq(Nat)] /\ dropped' \in [Proc -> SUBSET Nat]
        /\ calls' \in 0..MaxCalls
    BY <1>1, <1>2, <1>3, BoundsAssumption DEF TypeOK
  <1>5. \A q \in Proc : \E o \in Proc :
          /\ list'[q] = list[o] /\ appended'[q] = appended[o]
          /\ sent'[q] = sent[o] /\ dropped'[q] = dropped[o]
    <2>1. ASSUME NEW q \in Proc
          PROVE  LET o == IF q = c THEN Shell ELSE q IN
                   /\ list'[q] = list[o] /\ appended'[q] = appended[o]
                   /\ sent'[q] = sent[o] /\ dropped'[q] = dropped[o]
      BY <1>1, <1>2, <1>3 DEF TypeOK
    <2>2. QED
      BY <2>1, <1>3
  <1>6. TypeOK'
    <2>1. /\ pc' \in [Proc -> {"none", "ended", "prompt", "running", "await"}]
          /\ pc'[Shell] = (IF wait THEN "await" ELSE "running")
          /\ pc'[c] = "running"
          /\ \A d \in Copies : d # c => pc'[d] = pc[d]
      BY <1>1, <1>2, <1>3 DEF TypeOK
    <2>2. awaited' \subseteq {d \in Copies : pc'[d] = "running"}
      BY <2>1, <1>2, <1>3
    <2>3. pc'[Shell] = "await" <=> awaited' # {}
      BY <2>1, <1>2, <1>3
    <2>4. QED
      BY <2>1, <2>2, <2>3, <1>1, <1>2, <1>4 DEF TypeOK
  <1>7. AppendedOnce'
    BY <1>1, <1>5 DEF AppendedOnce
  <1>8. list'[Shell] = list[Shell] /\ list'[c] = list[Shell]
    BY <1>1, <1>2, <1>3 DEF TypeOK
  <1>9. SavedStays' /\ AwaitedIsUpToDate'
    BY <1>1, <1>2, <1>3, <1>8 DEF SavedStays, AwaitedIsUpToDate, Entries
  <1>10. QED
    BY <1>6, <1>7, <1>9 DEF IInv

\* exit, a copy's end, and a crash.
LEMMA EndKeeps ==
    ASSUME IInv, NEW p \in Proc, Exit(p) \/ Finish(p) \/ Crash(p)
    PROVE  IInv'
  <1>1. TypeOK /\ SavedStays
    BY DEF IInv
  <1>2. HistFile \in File
    BY DEF File
  <1>3. CASE Exit(p)
    <2>1. Runs(p) /\ Leaves(p) /\ WriteHistory(p, HistFile) /\ calls' \in 0..MaxCalls
      BY <1>1, <1>3, BoundsAssumption DEF Exit, Calls, TypeOK
    <2>2. QED
      BY <2>1, <1>2, WriteSafe, LeavesKeeps
  <1>4. CASE Finish(p) \/ Crash(p)
    <2>1. Runs(p) /\ Leaves(p) /\ file' = file /\ saved' = saved
          /\ calls' \in 0..MaxCalls
      BY <1>1, <1>4, BoundsAssumption DEF Finish, Crash, Calls, TypeOK
    <2>2. /\ file' \in [File -> Seq(Entry) \cup {Missing}]
          /\ saved' \subseteq Entry
          /\ saved' \subseteq Entries(HistFile)'
      BY <1>1, <2>1 DEF TypeOK, SavedStays, Entries
    <2>3. QED
      BY <2>1, <2>2, LeavesKeeps
  <1>5. QED
    BY <1>3, <1>4

\* history -w, and the member of a pipeline that exits.
LEMMA WriteKeeps ==
    ASSUME IInv, NEW p \in Proc, NEW f \in File, Calls(p), WriteHistory(p, f),
           UNCHANGED <<pc, awaited, memory, next, unread>>
    PROVE  IInv'
  <1> USE DEF Shell
  <1>1. TypeOK /\ AppendedOnce /\ SavedStays /\ AwaitedIsUpToDate
    BY DEF IInv
  <1>2. Runs(p) /\ calls' \in 0..MaxCalls
    BY <1>1, BoundsAssumption DEF Calls, TypeOK
  <1>3. /\ file' \in [File -> Seq(Entry) \cup {Missing}]
        /\ saved' \subseteq Entry
        /\ saved' \subseteq Entries(HistFile)'
        /\ saved' \subseteq saved \cup ToSet(list[Shell])
        /\ p # Shell => saved' \subseteq saved
    BY <1>2, WriteSafe
  <1>4. TypeOK'
    BY <1>1, <1>2, <1>3 DEF TypeOK, memory
  <1>5. AppendedOnce'
    BY <1>1, MemoryKept
  <1>6. SavedStays'
    BY <1>1, <1>3 DEF SavedStays, memory
  <1>7. p = Shell => awaited = {}
    BY <1>1, <1>2 DEF TypeOK, Runs
  <1>8. AwaitedIsUpToDate'
    BY <1>1, <1>3, <1>7 DEF AwaitedIsUpToDate, memory
  <1>9. QED
    BY <1>4, <1>5, <1>6, <1>8 DEF IInv

\* history -r adds behind the entries that were taken up.
LEMMA ReadKeeps ==
    ASSUME IInv, NEW p \in Proc, NEW f \in File, HistoryRead(p, f)
    PROVE  IInv'
  <1> USE DEF Shell
  <1>1. TypeOK /\ AppendedOnce /\ SavedStays /\ AwaitedIsUpToDate
    BY DEF IInv
  <1>2. /\ calls' \in 0..MaxCalls
        /\ file[f] # Missing
        /\ list' = [list EXCEPT ![p] = ReadInto(@, file[f])]
        /\ UNCHANGED <<pc, awaited, appended, sent, dropped, file, next, unread, saved>>
    BY <1>1, BoundsAssumption DEF HistoryRead, Calls, TypeOK
  <1>3. file[f] \in Seq(Entry) /\ list[p] \in Seq(Entry)
    BY <1>1, <1>2 DEF TypeOK
  <1>4. /\ list' \in [Proc -> Seq(Entry)]
        /\ list'[p] = list[p] \o file[f]
        /\ \A q \in Proc \ {p} : list'[q] = list[q]
    BY <1>1, <1>2, <1>3 DEF TypeOK, ReadInto
  <1>5. \A q \in Proc : ToSet(list[q]) \subseteq ToSet(list'[q])
    <2>1. ToSet(list'[p]) = ToSet(list[p]) \cup ToSet(file[f])
      BY <1>3, <1>4, ToSetConcat
    <2>2. QED
      BY <2>1, <1>4
  <1>6. \A q \in Proc : Len(list'[q]) >= Len(list[q])
    <2>1. Len(list[p] \o file[f]) >= Len(list[p])
      BY <1>3, ConcatElements
    <2>2. \A q \in Proc : Len(list[q]) \in Nat
      BY <1>1 DEF TypeOK
    <2>3. \A q \in Proc \ {p} : Len(list'[q]) >= Len(list[q])
      BY <1>4, <2>2
    <2>4. QED
      BY <2>1, <2>3, <1>4
  <1>7. TypeOK'
    BY <1>1, <1>2, <1>4 DEF TypeOK
  <1>8. AppendedOnce'
    <2>1. \A q \in Proc : Len(list[q]) \in Nat /\ Len(list'[q]) \in Nat
                          /\ appended[q] \in Nat
      BY <1>1, <1>4 DEF TypeOK
    <2>2. \A q \in Proc : appended[q] <= Len(list'[q])
      BY <2>1, <1>1, <1>6 DEF AppendedOnce
    <2>3. QED
      BY <2>2, <1>1, <1>2 DEF AppendedOnce
  <1>9. SavedStays'
    BY <1>1, <1>2, <1>5 DEF SavedStays, Entries, Proc
  <1>10. AwaitedIsUpToDate'
    BY <1>1, <1>2, <1>5 DEF AwaitedIsUpToDate, TypeOK, Proc
  <1>11. QED
    BY <1>7, <1>8, <1>9, <1>10 DEF IInv

\* The entries up to a are sent, in s, or dropped, in d, and t lists the ones
\* from there to m: what an append has before it.
LastTaken(a, m, s, d, t) ==
    /\ a \in Nat /\ m \in Nat /\ a <= m
    /\ s \in Seq(Nat) /\ d \in SUBSET Nat
    /\ \A i \in 1..(Len(s) - 1) : s[i] < s[i+1]
    /\ ToSet(s) \cup d = 1..a /\ ToSet(s) \cap d = {}
    /\ t \in Seq(Nat) /\ Len(t) = m - a
    /\ \A i \in 1..(m - a) : t[i] = a + i

\* What it has behind it, whether t is sent or dropped.
AllTaken(a, m, s, d, t) ==
    /\ ToSet(t) = (a+1)..m
    /\ \A i \in 1..(Len(s \o t) - 1) : (s \o t)[i] < (s \o t)[i+1]
    /\ ToSet(s \o t) \cup d = 1..m /\ ToSet(s \o t) \cap d = {}
    /\ ToSet(s) \cup (d \cup ToSet(t)) = 1..m
    /\ ToSet(s) \cap (d \cup ToSet(t)) = {}

\* The places that append_history is given are those behind the last one
\* taken up, and all of them.
LEMMA PlacesTakenUp ==
    ASSUME NEW a, NEW m, NEW s, NEW d, NEW t, LastTaken(a, m, s, d, t)
    PROVE  AllTaken(a, m, s, d, t)
  <1> USE DEF LastTaken
  <1>1. m - a \in Nat
    OBVIOUS
  <1>2. ToSet(t) = (a+1)..m
    <2>1. ToSet(t) \subseteq (a+1)..m
      BY <1>1 DEF ToSet
    <2>2. ASSUME NEW k \in (a+1)..m PROVE k \in ToSet(t)
      <3>1. k - a \in 1..(m - a) /\ t[k - a] = k
        BY <1>1
      <3>2. QED
        BY <3>1 DEF ToSet
    <2>3. QED
      BY <2>1, <2>2
  <1> DEFINE u == s \o t
  <1>3. /\ Len(u) = Len(s) + (m - a)
        /\ \A i \in 1..Len(s) : u[i] = s[i]
        /\ \A i \in 1..(m - a) : u[Len(s) + i] = a + i
    <2>1. /\ Len(u) = Len(s) + Len(t)
          /\ \A i \in 1..Len(s) : u[i] = s[i]
          /\ \A i \in 1..Len(t) : u[Len(s) + i] = t[i]
      BY ConcatElements
    <2> HIDE DEF u
    <2>2. QED
      BY <1>1, <2>1
  <1> HIDE DEF u
  <1>4. ASSUME NEW i \in 1..(Len(u) - 1)
        PROVE  u[i] < u[i+1]
    <2>1. Len(s) \in Nat /\ i \in Nat \ {0} /\ i <= Len(s) + (m - a) - 1
      BY <1>1, <1>3
    <2>2. CASE i < Len(s)
      <3>1. i \in 1..(Len(s) - 1) /\ i \in 1..Len(s) /\ i + 1 \in 1..Len(s)
        BY <2>1, <2>2
      <3>2. QED
        BY <3>1, <1>3
    <2>3. CASE i = Len(s)
      <3>1. 1 \in 1..(m - a) /\ i \in 1..Len(s)
        BY <1>1, <2>1, <2>3
      <3>2. s[i] <= a
        BY <3>1 DEF ToSet
      <3>3. u[i+1] = a + 1 /\ u[i] = s[i] /\ s[i] \in Nat
        BY <1>3, <2>3, <3>1
      <3>4. QED
        BY <3>2, <3>3
    <2>4. CASE i > Len(s)
      <3> DEFINE k == i - Len(s)
      <3>1. k \in Nat /\ i = Len(s) + k
        BY <2>1, <2>4
      <3> HIDE DEF k
      <3>2. k \in 1..(m - a) /\ k + 1 \in 1..(m - a)
        BY <1>1, <2>1, <2>4, <3>1
      <3>3. u[Len(s) + k] = a + k /\ u[Len(s) + (k + 1)] = a + (k + 1)
        BY <3>2, <1>3
      <3>4. i + 1 = Len(s) + (k + 1)
        BY <2>1, <3>1
      <3>5. QED
        BY <3>1, <3>3, <3>4
    <2>5. QED
      BY <2>1, <2>2, <2>3, <2>4
  <1>5. ToSet(u) = ToSet(s) \cup ToSet(t)
    BY ToSetConcat DEF u
  <1>6. (1..a) \cup ((a+1)..m) = 1..m /\ (1..a) \cap ((a+1)..m) = {}
    OBVIOUS
  <1>7. ToSet(u) \cup d = 1..m /\ ToSet(u) \cap d = {}
        /\ ToSet(s) \cup (d \cup ToSet(t)) = 1..m
        /\ ToSet(s) \cap (d \cup ToSet(t)) = {}
    BY <1>2, <1>5, <1>6
  <1>8. QED
    BY <1>2, <1>4, <1>7 DEF u, AllTaken

\* history -a.
LEMMA AppendKeeps ==
    ASSUME IInv, NEW p \in Proc, NEW f \in File, HistoryAppend(p, f)
    PROVE  IInv'
  <1> USE DEF Shell
  <1>1. TypeOK /\ AppendedOnce /\ SavedStays /\ AwaitedIsUpToDate
    BY DEF IInv
  <1>2. PICK n, places, new :
          /\ n = NewEntries(p) /\ places = LastPlaces(p, n)
          /\ new = [i \in 1..n |-> list[p][places[i]]]
          /\ \/ /\ file[f] # Missing
                /\ file' = [file EXCEPT ![f] = @ \o new]
                /\ saved' = IF p = Shell /\ f = HistFile
                            THEN saved \cup ToSet(new) ELSE saved
                /\ sent' = [sent EXCEPT ![p] = @ \o places]
                /\ appended' = [appended EXCEPT ![p] = @ + n]
                /\ dropped' = dropped
             \/ /\ appended' = [appended EXCEPT ![p] = @ + n]
                /\ dropped' = [dropped EXCEPT ![p] = @ \cup ToSet(places)]
                /\ UNCHANGED <<file, saved, sent>>
             \/ UNCHANGED <<appended, dropped, file, saved, sent>>
    BY DEF HistoryAppend
  <1>3. /\ Runs(p) /\ calls' \in 0..MaxCalls
        /\ UNCHANGED <<pc, awaited, list, next, unread>>
    BY <1>1, BoundsAssumption DEF HistoryAppend, Calls, TypeOK
  <1> DEFINE a == appended[p]
             m == Len(list[p])
  <1>4. /\ a \in Nat /\ m \in Nat /\ a <= m /\ n = m - a /\ a + n = m
        /\ sent[p] \in Seq(Nat) /\ dropped[p] \in SUBSET Nat
        /\ list[p] \in Seq(Entry)
    BY <1>1, <1>2 DEF TypeOK, AppendedOnce, NewEntries
  <1> HIDE DEF a, m
  <1>5. /\ places \in Seq(Nat) /\ Len(places) = m - a
        /\ \A i \in 1..(m - a) : places[i] = a + i
    <2>1. places = [i \in 1..n |-> m - n + i]
      BY <1>2 DEF LastPlaces, m
    <2>2. n \in Nat /\ n = m - a /\ m - n = a
      BY <1>4
    <2>3. places = [i \in 1..n |-> a + i]
      BY <2>1, <2>2
    <2>4. a \in Nat
      BY <1>4
    <2>5. QED
      BY <2>2, <2>3, <2>4
  <1>6. /\ ToSet(places) = (a+1)..m
        /\ \A i \in 1..(Len(sent[p] \o places) - 1) :
             (sent[p] \o places)[i] < (sent[p] \o places)[i+1]
        /\ ToSet(sent[p] \o places) \cup dropped[p] = 1..m
        /\ ToSet(sent[p] \o places) \cap dropped[p] = {}
        /\ ToSet(sent[p]) \cup (dropped[p] \cup ToSet(places)) = 1..m
        /\ ToSet(sent[p]) \cap (dropped[p] \cup ToSet(places)) = {}
    <2>1. /\ \A i \in 1..(Len(sent[p]) - 1) : sent[p][i] < sent[p][i+1]
          /\ ToSet(sent[p]) \cup dropped[p] = 1..a
          /\ ToSet(sent[p]) \cap dropped[p] = {}
      BY <1>1 DEF AppendedOnce, a
    <2>2. QED
      <3>1. LastTaken(a, m, sent[p], dropped[p], places)
        BY <1>4, <1>5, <2>1 DEF LastTaken
      <3>2. AllTaken(a, m, sent[p], dropped[p], places)
        BY <3>1, PlacesTakenUp, Zenon
      <3>3. QED
        BY <3>2, Zenon DEF AllTaken
  <1>7. new \in Seq(Entry) /\ ToSet(new) \subseteq ToSet(list[p])
    <2>1. \A i \in 1..n : places[i] \in 1..Len(list[p])
      BY <1>4, <1>5 DEF m
    <2>2. n \in Nat
      BY <1>4
    <2>3. \A i \in 1..n : list[p][places[i]] \in Entry
      BY <1>4, <2>1
    <2>4. new \in Seq(Entry) /\ Len(new) = n
          /\ \A i \in 1..n : new[i] = list[p][places[i]]
      BY <1>2, <2>2, <2>3
    <2>5. QED
      BY <2>1, <2>4, <1>4 DEF ToSet
  <1>8. /\ file' \in [File -> Seq(Entry) \cup {Missing}]
        /\ saved' \subseteq Entry
        /\ saved' \subseteq Entries(HistFile)'
        /\ saved' \subseteq saved \cup ToSet(list[Shell])
        /\ p # Shell => saved' = saved
    <2>1. CASE /\ file[f] # Missing
               /\ file' = [file EXCEPT ![f] = @ \o new]
               /\ saved' = IF p = Shell /\ f = HistFile
                           THEN saved \cup ToSet(new) ELSE saved
      <3>1. file[f] \in Seq(Entry) /\ file \in [File -> Seq(Entry) \cup {Missing}]
            /\ HistFile \in File
        BY <1>1, <2>1 DEF TypeOK, File
      <3>2. file[f] \o new \in Seq(Entry)
        BY <3>1, <1>7
      <3>3. file' \in [File -> Seq(Entry) \cup {Missing}]
            /\ file'[f] = file[f] \o new
            /\ (f # HistFile => file'[HistFile] = file[HistFile])
        BY <2>1, <3>1, <3>2
      <3>4. f = HistFile => /\ Entries(HistFile) = ToSet(file[f])
                            /\ Entries(HistFile)' = ToSet(file[f]) \cup ToSet(new)
        <4>1. ToSet(file[f] \o new) = ToSet(file[f]) \cup ToSet(new)
          BY <3>1, <1>7, ToSetConcat
        <4>2. file[f] \o new # Missing
          BY <3>2, EntriesOfList
        <4>3. QED
          BY <4>1, <4>2, <2>1, <3>3 DEF Entries
      <3>5. f # HistFile => Entries(HistFile)' = Entries(HistFile)
        BY <3>3 DEF Entries
      <3>6. saved \subseteq Entries(HistFile) /\ saved \subseteq Entry
        BY <1>1 DEF SavedStays, TypeOK
      <3>7. ToSet(new) \subseteq Entry
        BY <1>7, EntriesOfList
      <3>8. CASE f = HistFile
        BY <2>1, <3>3, <3>4, <3>6, <3>7, <3>8, <1>7
      <3>9. CASE f # HistFile
        BY <2>1, <3>3, <3>5, <3>6, <3>9
      <3>10. QED
        BY <3>8, <3>9
    <2>2. CASE UNCHANGED <<file, saved>>
      BY <1>1, <2>2 DEF TypeOK, SavedStays, Entries
    <2>3. QED
      BY <2>1, <2>2, <1>2
  <1>9. /\ appended' \in [Proc -> Nat] /\ sent' \in [Proc -> Seq(Nat)]
        /\ dropped' \in [Proc -> SUBSET Nat]
        /\ \A q \in Proc \ {p} : /\ appended'[q] = appended[q]
                                 /\ sent'[q] = sent[q] /\ dropped'[q] = dropped[q]
        /\ \/ appended'[p] = m /\ sent'[p] = sent[p] \o places
              /\ dropped'[p] = dropped[p]
           \/ appended'[p] = m /\ sent'[p] = sent[p]
              /\ dropped'[p] = dropped[p] \cup ToSet(places)
           \/ appended'[p] = a /\ sent'[p] = sent[p] /\ dropped'[p] = dropped[p]
    <2>1. /\ appended \in [Proc -> Nat] /\ sent \in [Proc -> Seq(Nat)]
          /\ dropped \in [Proc -> SUBSET Nat]
      BY <1>1 DEF TypeOK
    <2>2. appended[p] + n = m /\ m \in Nat /\ appended[p] = a
      BY <1>4 DEF a
    <2>3. sent[p] \o places \in Seq(Nat) /\ dropped[p] \cup ToSet(places) \in SUBSET Nat
      BY <1>4, <1>5, <1>6
    <2>4. CASE /\ sent' = [sent EXCEPT ![p] = @ \o places]
               /\ appended' = [appended EXCEPT ![p] = @ + n]
               /\ dropped' = dropped
      BY <2>1, <2>2, <2>3, <2>4
    <2>5. CASE /\ appended' = [appended EXCEPT ![p] = @ + n]
               /\ dropped' = [dropped EXCEPT ![p] = @ \cup ToSet(places)]
               /\ sent' = sent
      BY <2>1, <2>2, <2>3, <2>5
    <2>6. CASE UNCHANGED <<appended, dropped, sent>>
      BY <2>1, <2>2, <2>6
    <2>7. QED
      BY <2>4, <2>5, <2>6, <1>2
  <1>10. TypeOK'
    BY <1>1, <1>3, <1>8, <1>9 DEF TypeOK
  <1>11. AppendedOnce'
    <2>1. /\ appended'[p] <= Len(list'[p])
          /\ \A i \in 1..(Len(sent'[p]) - 1) : sent'[p][i] < sent'[p][i+1]
          /\ ToSet(sent'[p]) \cup dropped'[p] = 1..appended'[p]
          /\ ToSet(sent'[p]) \cap dropped'[p] = {}
      <3>1. list'[p] = list[p] /\ Len(list[p]) = m /\ m <= m /\ a <= m
        BY <1>3, <1>4 DEF m
      <3>2. /\ \A i \in 1..(Len(sent[p]) - 1) : sent[p][i] < sent[p][i+1]
            /\ ToSet(sent[p]) \cup dropped[p] = 1..a
            /\ ToSet(sent[p]) \cap dropped[p] = {}
        BY <1>1 DEF AppendedOnce, a
      <3>3. CASE appended'[p] = m /\ sent'[p] = sent[p] \o places
                 /\ dropped'[p] = dropped[p]
        BY <3>1, <3>3, <1>6
      <3>4. CASE appended'[p] = m /\ sent'[p] = sent[p]
                 /\ dropped'[p] = dropped[p] \cup ToSet(places)
        BY <3>1, <3>2, <3>4, <1>6
      <3>5. CASE appended'[p] = a /\ sent'[p] = sent[p] /\ dropped'[p] = dropped[p]
        BY <3>1, <3>2, <3>5
      <3>6. QED
        BY <3>3, <3>4, <3>5, <1>9
    <2>2. QED
      BY <2>1, <1>1, <1>3, <1>9 DEF AppendedOnce
  <1>12. SavedStays'
    BY <1>1, <1>3, <1>8 DEF SavedStays
  <1>13. p = Shell => awaited = {}
    BY <1>1, <1>3 DEF TypeOK, Runs
  <1>14. AwaitedIsUpToDate'
    BY <1>1, <1>3, <1>8, <1>13 DEF AwaitedIsUpToDate
  <1>15. QED
    BY <1>10, <1>11, <1>12, <1>14 DEF IInv

\* Every step keeps the invariant.
LEMMA InvStep == IInv /\ [Next]_vars => IInv'
  <1> SUFFICES ASSUME IInv, [Next]_vars PROVE IInv'
    OBVIOUS
  <1>1. CASE StartUp
    BY <1>1, StartUpKeeps
  <1>2. CASE AddHistory
    BY <1>2, AddHistoryKeeps
  <1>3. CASE LineDone
    BY <1>3, LineDoneKeeps
  <1>4. ASSUME NEW c \in Copies, NEW wait \in BOOLEAN, Fork(c, wait) PROVE IInv'
    BY <1>4, ForkKeeps
  <1>5. ASSUME NEW p \in Proc, Step(p) PROVE IInv'
    <2>1. CASE Exit(p) \/ Finish(p) \/ Crash(p)
      BY <2>1, EndKeeps
    <2>2. CASE MemberExits(p)
      <3>1. HistFile \in File
        BY DEF File
      <3>2. QED
        BY <2>2, <3>1, WriteKeeps DEF MemberExits
    <2>3. ASSUME NEW f \in File, HistoryRead(p, f) PROVE IInv'
      BY <2>3, ReadKeeps
    <2>4. ASSUME NEW f \in File, HistoryWrite(p, f) PROVE IInv'
      BY <2>4, WriteKeeps DEF HistoryWrite
    <2>5. ASSUME NEW f \in File, HistoryAppend(p, f) PROVE IInv'
      BY <2>5, AppendKeeps
    <2>6. QED
      BY <1>5, <2>1, <2>2, <2>3, <2>4, <2>5 DEF Step
  <1>6. CASE EmptyLine \/ UNCHANGED vars
    <2>1. UNCHANGED vars
      BY <1>6 DEF EmptyLine
    <2>2. QED
      BY <2>1 DEF vars, memory, IInv, TypeOK, AppendedOnce, SavedStays, Entries,
                  AwaitedIsUpToDate
  <1>7. QED
    BY <1>1, <1>2, <1>3, <1>4, <1>5, <1>6 DEF Next

-----------------------------------------------------------------------------
(* The theorems. *)

\* The inductive invariant holds in every reachable state.
THEOREM HistoryInvariant == Spec => []IInv
  <1>1. QED
    BY InvInit, InvStep, PTL DEF Spec

\* Type correctness: the control of the shell and the copies it waits for.
THEOREM HistoryTypeCorrect == Spec => []TypeOK
  <1>1. IInv => TypeOK
    BY DEF IInv
  <1>2. QED
    BY <1>1, HistoryInvariant, PTL

\* history -a takes up every entry of a list once and in order, in each of the
\* processes, whatever history -r and -w, forks and failures come in between.
THEOREM EntriesAppendedOnce == Spec => []AppendedOnce
  <1>1. IInv => AppendedOnce
    BY DEF IInv
  <1>2. QED
    BY <1>1, HistoryInvariant, PTL

\* What the shell has saved stays in the history file, from one session to the
\* next, unless a copy in the background or a session that could not read the
\* file has written it over.
THEOREM SavedHistoryStays == Spec => []SavedStays
  <1>1. IInv => SavedStays
    BY DEF IInv
  <1>2. QED
    BY <1>1, HistoryInvariant, PTL
=============================================================================
