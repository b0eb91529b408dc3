----------------------------- MODULE JobsProofs -----------------------------
(* Theorems about Jobs, for every set of pids and every bound. *)
EXTENDS Jobs, SequenceTheorems, TLAPS

(* Removing the i-th element of a sequence. *)
LEMMA RemoveAtProperties ==
    ASSUME NEW S, NEW s \in Seq(S), NEW i \in 1..Len(s)
    PROVE  /\ RemoveAt(s, i) \in Seq(S)
           /\ Len(RemoveAt(s, i)) = Len(s) - 1
           /\ \A k \in 1..(Len(s) - 1) :
                RemoveAt(s, i)[k] = IF k < i THEN s[k] ELSE s[k+1]
  <1> DEFINE a == SubSeq(s, 1, i-1)
             b == SubSeq(s, i+1, Len(s))
  <1>1. a \in Seq(S) /\ Len(a) = i-1 /\ \A k \in 1..(i-1) : a[k] = s[k]
    <2>1. \A k \in 1..(i-1) : s[k] \in S
      OBVIOUS
    <2>2. QED
      BY <2>1, SubSeqProperties
  <1>2. /\ b \in Seq(S) /\ Len(b) = Len(s) - i
        /\ \A k \in 1..(Len(s) - i) : b[k] = s[i+k]
    <2>1. \A k \in (i+1)..Len(s) : s[k] \in S
      OBVIOUS
    <2>2. QED
      BY <2>1, SubSeqProperties
  <1>3. RemoveAt(s, i) = a \o b
    BY DEF RemoveAt
  <1> HIDE DEF a, b
  <1>4. /\ a \o b \in Seq(S)
        /\ Len(a \o b) = Len(s) - 1
        /\ \A k \in 1..(Len(s) - 1) :
             (a \o b)[k] = IF k <= i-1 THEN a[k] ELSE b[k - (i-1)]
    <2>1. /\ a \o b \in Seq(S)
          /\ Len(a \o b) = Len(a) + Len(b)
          /\ \A k \in 1..(Len(a) + Len(b)) :
               (a \o b)[k] = IF k <= Len(a) THEN a[k] ELSE b[k - Len(a)]
      BY <1>1, <1>2, ConcatProperties
    <2>2. Len(a) = i-1 /\ Len(a) + Len(b) = Len(s) - 1
      BY <1>1, <1>2
    <2>3. QED
      BY <2>1, <2>2
  <1>5. ASSUME NEW k \in 1..(Len(s) - 1)
        PROVE  RemoveAt(s, i)[k] = IF k < i THEN s[k] ELSE s[k+1]
    BY <1>1, <1>2, <1>3, <1>4
  <1>6. QED
    BY <1>3, <1>4, <1>5

-----------------------------------------------------------------------------
(* How the three shapes of a step change the list and the held pids. *)

LEMMA JobListRemoval ==
    ASSUME TypeOK, JobsDistinct, NEW p \in Pid, jl_remove(p)
    PROVE  /\ jobs' \in Seq(Job)
           /\ JobsDistinct'
           /\ JobPids' = JobPids \ {p}
  <1>1. PICK i \in 1..Len(jobs) : jobs[i].pid = p /\ jobs' = RemoveAt(jobs, i)
    BY DEF jl_remove
  <1>2. jobs \in Seq(Job)
    BY DEF TypeOK
  <1>3. /\ jobs' \in Seq(Job)
        /\ Len(jobs') = Len(jobs) - 1
        /\ \A k \in 1..(Len(jobs) - 1) :
             jobs'[k] = IF k < i THEN jobs[k] ELSE jobs[k+1]
    BY <1>1, <1>2, RemoveAtProperties
  <1>4. JobsDistinct'
    <2> SUFFICES ASSUME NEW k \in 1..Len(jobs'), NEW l \in 1..Len(jobs'), k # l
                 PROVE  /\ jobs'[k].pid # jobs'[l].pid
                        /\ jobs'[k].num # jobs'[l].num
      BY DEF JobsDistinct
    <2> DEFINE old(x) == IF x < i THEN x ELSE x+1
    <2>1. /\ old(k) \in 1..Len(jobs)
          /\ old(l) \in 1..Len(jobs)
          /\ old(k) # old(l)
      BY <1>2, <1>3
    <2>2. jobs'[k] = jobs[old(k)] /\ jobs'[l] = jobs[old(l)]
      BY <1>2, <1>3
    <2> HIDE DEF old
    <2>3. QED
      BY <2>1, <2>2 DEF JobsDistinct
  <1>5. JobPids' \subseteq JobPids \ {p}
    <2> SUFFICES ASSUME NEW k \in 1..Len(jobs')
                 PROVE  jobs'[k].pid \in JobPids \ {p}
      BY DEF JobPids
    <2> DEFINE old == IF k < i THEN k ELSE k+1
    <2>1. old \in 1..Len(jobs) /\ old # i
      BY <1>2, <1>3
    <2>2. jobs'[k] = jobs[old]
      BY <1>2, <1>3
    <2> HIDE DEF old
    <2>3. QED
      BY <1>1, <2>1, <2>2 DEF JobsDistinct, JobPids
  <1>6. ASSUME NEW q \in JobPids \ {p}
        PROVE  q \in JobPids'
    <2>1. PICK j \in 1..Len(jobs) : jobs[j].pid = q /\ j # i
      BY <1>1 DEF JobPids
    <2>2. CASE j < i
      BY <2>1, <2>2, <1>2, <1>3 DEF JobPids
    <2>3. CASE j > i
      <3>1. j-1 \in 1..(Len(jobs) - 1) /\ jobs'[j-1] = jobs[j]
        BY <2>1, <2>3, <1>2, <1>3
      <3>2. QED
        BY <3>1, <2>1, <1>3 DEF JobPids
    <2>4. QED
      BY <2>1, <2>2, <2>3, <1>2
  <1>7. QED
    BY <1>3, <1>4, <1>5, <1>6

LEMMA JobListAppend ==
    ASSUME TypeOK, JobsDistinct,
           NEW p \in Pid \ JobPids, NEW n \in (Nat \ {0}) \ JobNumbers,
           jobs' = Append(jobs, [pid |-> p, num |-> n])
    PROVE  /\ jobs' \in Seq(Job)
           /\ JobsDistinct'
           /\ JobPids' = JobPids \cup {p}
  <1>1. jobs \in Seq(Job) /\ [pid |-> p, num |-> n] \in Job
    BY DEF TypeOK, Job
  <1>2. /\ jobs' \in Seq(Job)
        /\ Len(jobs') = Len(jobs) + 1
        /\ \A k \in 1..Len(jobs) : jobs'[k] = jobs[k]
        /\ jobs'[Len(jobs) + 1] = [pid |-> p, num |-> n]
    BY <1>1, AppendProperties
  <1>3. JobsDistinct'
    BY <1>1, <1>2 DEF JobsDistinct, JobPids, JobNumbers
  <1>4. JobPids' = JobPids \cup {p}
    BY <1>1, <1>2 DEF JobPids
  <1>5. QED
    BY <1>2, <1>3, <1>4

LEMMA HeldTail ==
    ASSUME TypeOK, HeldDistinct, pids # <<>>, pids' = Tail(pids)
    PROVE  /\ Head(pids) \in Held
           /\ pids' \in Seq(Pid)
           /\ HeldDistinct'
           /\ Held' = Held \ {Head(pids)}
  <1>1. pids \in Seq(Pid)
    BY DEF TypeOK
  <1>2. /\ pids' \in Seq(Pid)
        /\ Len(pids') = Len(pids) - 1
        /\ \A i \in 1..Len(pids') : pids'[i] = pids[i+1]
    BY <1>1, HeadTailProperties
  <1>3. Head(pids) = pids[1] /\ Len(pids) >= 1
    BY <1>1
  <1>4. Head(pids) \in Held
    BY <1>1, <1>3 DEF Held
  <1>5. HeldDistinct'
    BY <1>1, <1>2 DEF HeldDistinct
  <1>6. Held' \subseteq Held \ {Head(pids)}
    BY <1>1, <1>2, <1>3 DEF HeldDistinct, Held
  <1>7. ASSUME NEW q \in Held \ {Head(pids)}
        PROVE  q \in Held'
    <2>1. PICK j \in 2..Len(pids) : pids[j] = q
      BY <1>1, <1>3 DEF Held
    <2>2. j-1 \in 1..Len(pids') /\ pids'[j-1] = q
      BY <2>1, <1>1, <1>2
    <2>3. QED
      BY <2>2 DEF Held
  <1>8. QED
    BY <1>2, <1>4, <1>5, <1>6, <1>7

LEMMA HeldAppend ==
    ASSUME TypeOK, HeldDistinct, NEW p \in Pid \ Held, pids' = Append(pids, p)
    PROVE  /\ pids' \in Seq(Pid)
           /\ HeldDistinct'
           /\ Held' = Held \cup {p}
  <1>1. pids \in Seq(Pid)
    BY DEF TypeOK
  <1>2. /\ pids' \in Seq(Pid)
        /\ Len(pids') = Len(pids) + 1
        /\ \A k \in 1..Len(pids) : pids'[k] = pids[k]
        /\ pids'[Len(pids) + 1] = p
    BY <1>1, AppendProperties
  <1>3. HeldDistinct'
    BY <1>1, <1>2 DEF HeldDistinct, Held
  <1>4. Held' = Held \cup {p}
    BY <1>1, <1>2 DEF Held
  <1>5. QED
    BY <1>2, <1>3, <1>4

LEMMA HeldOne ==
    ASSUME NEW p \in Pid, pids' = <<p>>
    PROVE  /\ pids' \in Seq(Pid)
           /\ Len(pids') = 1
           /\ HeldDistinct'
           /\ Held' = {p}
  BY DEF HeldDistinct, Held

LEMMA HeldNone ==
    ASSUME pids' = <<>>
    PROVE  pids' \in Seq(Pid) /\ HeldDistinct' /\ Held' = {}
  BY DEF HeldDistinct, Held

-----------------------------------------------------------------------------
(* The invariant is inductive. *)

LEMMA InitInvariant == Init => IInv
  <1> SUFFICES ASSUME Init PROVE IInv
    OBVIOUS
  <1>1. TypeOK
    <2>1. jobs \in Seq(Job) /\ pids \in Seq(Pid)
      BY EmptySeq DEF Init
    <2>2. pc \in PC /\ child \in [Pid -> {"free", "running", "zombie"}]
      BY DEF Init, PC
    <2>3. left \in 0..MaxForks /\ todo \in 0..MaxPipe /\ cursor \in Nat \ {0}
      BY MaxForksAssumption, MaxPipeAssumption DEF Init
    <2>4. /\ allocated \in BOOLEAN /\ flag \in BOOLEAN
          /\ pending \in BOOLEAN /\ pipeFailed \in BOOLEAN
      BY DEF Init
    <2>5. QED
      BY <2>1, <2>2, <2>3, <2>4 DEF Init, TypeOK
  <1>2. JobPids = {} /\ Held = {} /\ JobsDistinct /\ HeldDistinct
    BY DEF Init, JobPids, Held, JobsDistinct, HeldDistinct
  <1>3. QED
    BY <1>1, <1>2 DEF Init, IInv, HeldWhileWaiting, ListAllocated, JobsAreChildren,
       ForegroundNotStolen, NoLostWakeup, ReaperFaultNeedsForkFailure, Dead

TypeInv == TypeOK /\ HeldWhileWaiting /\ ListAllocated

LEMMA TypeStep == IInv /\ [Next]_vars => TypeInv'
  <1> SUFFICES ASSUME IInv, [Next]_vars
               PROVE  TypeInv'
    OBVIOUS
  <1> USE MaxForksAssumption, MaxPipeAssumption
          DEF TypeInv, TypeOK, HeldWhileWaiting, ListAllocated, PC, Dead, control, table, signal
  <1>0. TypeInv /\ JobsDistinct /\ HeldDistinct
    BY DEF IInv, ForegroundNotStolen, TypeInv
  <1>1. ASSUME Top PROVE TypeInv'
    BY <1>0, <1>1 DEF Top, Check
  <1>2. ASSUME EventHook PROVE TypeInv'
    BY <1>0, <1>2 DEF EventHook, Check
  <1>3. ASSUME ClearFlag PROVE TypeInv'
    BY <1>0, <1>3 DEF ClearFlag
  <1>4. ASSUME ReapDone PROVE TypeInv'
    BY <1>0, <1>4 DEF ReapDone
  <1>5. ASSUME EnterLine PROVE TypeInv'
    BY <1>0, <1>5 DEF EnterLine
  <1>6. ASSUME EmptyLine PROVE TypeInv'
    BY <1>0, <1>6 DEF EmptyLine
  <1>7. ASSUME BadLine PROVE TypeInv'
    BY <1>0, <1>7 DEF BadLine
  <1>8. ASSUME ForegroundForkFails PROVE TypeInv'
    BY <1>0, <1>8 DEF ForegroundForkFails, Spend
  <1>9. ASSUME WaitDone PROVE TypeInv'
    BY <1>0, <1>9 DEF WaitDone
  <1>10. ASSUME ExpandDone PROVE TypeInv'
    BY <1>0, <1>10 DEF ExpandDone
  <1>11. ASSUME PipeForkFails PROVE TypeInv'
    BY <1>0, <1>11 DEF PipeForkFails
  <1>12. ASSUME PipeForked PROVE TypeInv'
    BY <1>0, <1>12 DEF PipeForked
  <1>13. ASSUME JobsBuiltin PROVE TypeInv'
    BY <1>0, <1>13 DEF JobsBuiltin, Spend
  <1>14. ASSUME JobsDone PROVE TypeInv'
    BY <1>0, <1>14 DEF JobsDone, Check
  <1>15. ASSUME ExitBuiltin PROVE TypeInv'
    BY <1>0, <1>15 DEF ExitBuiltin, Spend
  <1>16. ASSUME LineDone PROVE TypeInv'
    BY <1>0, <1>16 DEF LineDone
  <1>17. ASSUME sigchld_handler PROVE TypeInv'
    BY <1>0, <1>17 DEF sigchld_handler
  <1>18. ASSUME NEW p \in Pid, ChildExit(p) PROVE TypeInv'
    BY <1>0, <1>18 DEF ChildExit
  <1>19. ASSUME NEW p \in Pid, ChildStops(p) PROVE TypeInv'
    BY <1>0, <1>19 DEF ChildStops
  <1>20. ASSUME NEW p \in Pid, ForkBackground(p) PROVE TypeInv'
    BY <1>0, <1>20 DEF ForkBackground, Fork, Spend
  <1>21. ASSUME NEW p \in Pid, NEW from \in {"readline", "expand", "exec"},
               ForkAndWait(p, from)
        PROVE  TypeInv'
    <2>1. pids' \in Seq(Pid)
      BY <1>21, HeldOne DEF ForkAndWait
    <2>2. QED
      BY <1>0, <1>21, <2>1 DEF ForkAndWait, Fork, Spend
  <1>22. ASSUME NEW p \in Pid, Reap(p) PROVE TypeInv'
    <2>1. jobs' \in Seq(Job)
      BY <1>0, <1>22, JobListRemoval DEF Reap
    <2>2. QED
      BY <1>0, <1>22, <2>1 DEF Reap
  <1>23. ASSUME WaitChild PROVE TypeInv'
    <2>1. pids' \in Seq(Pid)
      BY <1>0, <1>23, HeldTail DEF WaitChild
    <2>2. QED
      BY <1>0, <1>23, <2>1 DEF WaitChild
  <1>24. ASSUME register_job PROVE TypeInv'
    <2>1. Head(pids) \in Pid
      <3>1. pids \in Seq(Pid) /\ Len(pids) = 1
        BY <1>0, <1>24 DEF register_job
      <3>2. pids # <<>>
        BY <3>1
      <3>3. QED
        BY <3>1, <3>2, HeadTailProperties
    <2>2. PICK m \in 1..(Len(jobs) + 1) :
            jobs' = Append(jobs, [pid |-> Head(pids), num |-> m])
      BY <1>24 DEF register_job
    <2>3. jobs' \in Seq(Job)
      BY <1>0, <2>1, <2>2, AppendProperties DEF Job
    <2>4. QED
      BY <1>0, <1>24, <2>3 DEF register_job
  <1>25. ASSUME NEW m \in 2..MaxPipe, StartPipeline(m)
        PROVE  TypeInv'
    BY <1>0, <1>25 DEF StartPipeline
  <1>26. ASSUME NEW p \in Pid, ForkPipeCommand(p)
        PROVE  TypeInv'
    BY <1>0, <1>26 DEF ForkPipeCommand, Fork
  <1>27. ASSUME check_and_print_job PROVE TypeInv'
    <2>1. jobs[cursor].pid \in Pid
      <3>1. jobs \in Seq(Job) /\ cursor \in 1..Len(jobs)
        BY <1>0, <1>27 DEF check_and_print_job
      <3>2. jobs[cursor] \in Job
        BY <3>1
      <3>3. QED
        BY <3>2 DEF Job
    <2>2. jobs' \in Seq(Job)
      BY <1>0, <1>27, <2>1, JobListRemoval DEF check_and_print_job
    <2>3. QED
      BY <1>0, <1>27, <2>1, <2>2 DEF check_and_print_job
  <1>28. ASSUME UNCHANGED vars PROVE TypeInv'
    BY <1>0, <1>28 DEF vars
  <1> QED
    BY <1>1, <1>2, <1>3, <1>4, <1>5, <1>6, <1>7, <1>8, <1>9, <1>10, <1>11, <1>12, <1>13, <1>14, <1>15, <1>16, <1>17, <1>18, <1>19, <1>20, <1>21, <1>22, <1>23, <1>24, <1>25, <1>26, <1>27, <1>28
       DEF Next, UserStep, ShellStep, KernelStep, Stopped

\* What relates the list, the held pids and the kernel's children.
TableInv ==
    /\ JobsDistinct
    /\ JobsAreChildren
    /\ ForegroundNotStolen
    /\ ReaperFaultNeedsForkFailure

(* A step that changes neither pids nor lists nor children. *)
LEMMA QuietStep ==
    ASSUME TableInv, UNCHANGED <<jobs, pids, child, pipeFailed>>,
           pc' # "segv_reaper" \/ pc' = pc
    PROVE  TableInv'
  BY DEF TableInv, JobsDistinct, JobsAreChildren, ForegroundNotStolen,
     HeldDistinct, ReaperFaultNeedsForkFailure, JobPids, Held

(* A pid that the kernel hands out belongs to no job and nobody holds it. *)
LEMMA ForkedIsNew ==
    ASSUME TypeOK, TableInv, NEW p \in Pid, Fork(p)
    PROVE  /\ p \notin JobPids /\ p \notin Held
           /\ child'[p] = "running"
           /\ \A q \in Pid : q # p => child'[q] = child[q]
           /\ JobPids \subseteq Pid /\ Held \subseteq Pid
  <1>1. p \notin JobPids /\ p \notin Held
    BY DEF TableInv, JobsAreChildren, ForegroundNotStolen, Fork
  <1>2. child'[p] = "running" /\ \A q \in Pid : q # p => child'[q] = child[q]
    BY DEF Fork, TypeOK
  <1>3. JobPids \subseteq Pid /\ Held \subseteq Pid
    <2>1. \A i \in 1..Len(jobs) : jobs[i] \in Job
      BY DEF TypeOK
    <2>2. JobPids \subseteq Pid
      BY <2>1 DEF JobPids, Job
    <2>3. Held \subseteq Pid
      BY DEF Held, TypeOK
    <2>4. QED
      BY <2>2, <2>3
  <1>4. QED
    BY <1>1, <1>2, <1>3

(* A fork that only one local variable, or one more, remembers. *)
LEMMA ForkedAndHeld ==
    ASSUME TypeOK, TableInv, NEW p \in Pid, Fork(p),
           \/ pids = <<>> /\ pids' = <<p>>
           \/ pids' = Append(pids, p),
           UNCHANGED <<jobs, pipeFailed>>, pc' # "segv_reaper"
    PROVE  TableInv'
  <1>1. /\ p \notin JobPids /\ p \notin Held
        /\ child'[p] = "running"
        /\ \A q \in Pid : q # p => child'[q] = child[q]
        /\ JobPids \subseteq Pid /\ Held \subseteq Pid
    BY ForkedIsNew
  <1>2. HeldDistinct' /\ Held' = Held \cup {p}
    <2>1. CASE pids = <<>> /\ pids' = <<p>>
      <3>1. Held = {}
        BY <2>1 DEF Held
      <3>2. QED
        BY <2>1, <3>1, HeldOne
    <2>2. CASE pids' = Append(pids, p)
      BY <2>2, <1>1, HeldAppend DEF TableInv, ForegroundNotStolen
    <2>3. QED
      BY <2>1, <2>2
  <1>3. JobPids' = JobPids /\ JobsDistinct'
    BY DEF JobPids, TableInv, JobsDistinct
  <1>4. JobsAreChildren'
    BY <1>1, <1>3 DEF TableInv, JobsAreChildren
  <1>5. ForegroundNotStolen'
    BY <1>1, <1>2, <1>3 DEF TableInv, ForegroundNotStolen
  <1>6. ReaperFaultNeedsForkFailure'
    BY <1>1, <1>2, <1>3 DEF TableInv, ReaperFaultNeedsForkFailure
  <1>7. QED
    BY <1>3, <1>4, <1>5, <1>6 DEF TableInv

(* The status of a job is collected and the job is removed. *)
LEMMA JobCollected ==
    ASSUME TypeOK, TableInv, NEW p \in Pid, jl_remove(p),
           child' = [child EXCEPT ![p] = "free"],
           UNCHANGED <<pids, pipeFailed>>, pc' # "segv_reaper"
    PROVE  TableInv'
  <1>1. JobsDistinct' /\ JobPids' = JobPids \ {p}
    BY JobListRemoval DEF TableInv
  <1>2. p \in JobPids
    BY DEF jl_remove, JobPids
  <1>3. Held' = Held /\ p \notin Held /\ HeldDistinct'
    BY <1>2 DEF Held, TableInv, ForegroundNotStolen, HeldDistinct
  <1>4. child'[p] = "free" /\ \A q \in Pid : q # p => child'[q] = child[q]
    BY DEF TypeOK
  <1>5. JobPids \subseteq Pid /\ Held \subseteq Pid
    <2>1. \A i \in 1..Len(jobs) : jobs[i] \in Job
      BY DEF TypeOK
    <2>2. QED
      BY <2>1 DEF JobPids, Job, Held, TypeOK
  <1>6. JobsAreChildren'
    BY <1>1, <1>4, <1>5 DEF TableInv, JobsAreChildren
  <1>7. ForegroundNotStolen'
    BY <1>1, <1>3, <1>4, <1>5 DEF TableInv, ForegroundNotStolen
  <1>8. ReaperFaultNeedsForkFailure'
    BY <1>1, <1>3, <1>4 DEF TableInv, ReaperFaultNeedsForkFailure
  <1>9. QED
    BY <1>1, <1>6, <1>7, <1>8 DEF TableInv

LEMMA TableStep == IInv /\ [Next]_vars => TableInv'
  <1> SUFFICES ASSUME IInv, [Next]_vars
               PROVE  TableInv'
    OBVIOUS
  <1>0. TypeOK /\ ListAllocated /\ HeldWhileWaiting /\ TableInv
    BY DEF IInv, TableInv
  <1>00. JobPids \subseteq Pid /\ Held \subseteq Pid
    <2>1. \A i \in 1..Len(jobs) : jobs[i] \in Job
      BY <1>0 DEF TypeOK
    <2>2. QED
      BY <2>1, <1>0 DEF JobPids, Job, Held, TypeOK
  <1>1. ASSUME \/ EnterLine \/ EmptyLine \/ BadLine \/ Top \/ EventHook
               \/ ClearFlag \/ ReapDone \/ ForegroundForkFails \/ WaitDone
               \/ ExpandDone \/ PipeForked \/ JobsBuiltin \/ JobsDone
               \/ ExitBuiltin \/ LineDone \/ sigchld_handler \/ UNCHANGED vars
               \/ \E p \in Pid : ChildStops(p)
               \/ \E m \in 2..MaxPipe : StartPipeline(m)
        PROVE  TableInv'
    <2>1. /\ UNCHANGED <<jobs, pids, child, pipeFailed>>
          /\ pc' # "segv_reaper" \/ pc' = pc
      BY <1>0, <1>1 DEF TypeOK, EnterLine, EmptyLine, BadLine, Top, EventHook,
         ClearFlag, ReapDone, ForegroundForkFails, WaitDone, ExpandDone,
         PipeForked, JobsBuiltin, JobsDone, ExitBuiltin, LineDone,
         sigchld_handler, ChildStops, StartPipeline, Check, vars, control,
         table, signal
    <2>2. QED
      BY <1>0, <2>1, QuietStep
  <1>2. ASSUME NEW p \in Pid, ChildExit(p) PROVE TableInv'
    <2>1. /\ UNCHANGED <<pc, jobs, pids, pipeFailed>>
          /\ child[p] # "free" /\ child'[p] # "free"
          /\ \A q \in Pid : q # p => child'[q] = child[q]
      BY <1>0, <1>2 DEF ChildExit, TypeOK, control, table
    <2>2. /\ JobPids' = JobPids /\ Held' = Held
          /\ HeldDistinct' /\ JobsDistinct'
      BY <1>0, <2>1 DEF JobPids, Held, HeldDistinct, JobsDistinct, TableInv,
         ForegroundNotStolen
    <2>3. QED
      BY <1>0, <1>00, <2>1, <2>2 DEF TableInv, JobsAreChildren,
         ForegroundNotStolen, ReaperFaultNeedsForkFailure
  <1>3. ASSUME NEW p \in Pid, NEW from \in {"readline", "expand", "exec"},
               ForkAndWait(p, from)
        PROVE  TableInv'
    <2>1. /\ Fork(p) /\ pids = <<>> /\ pids' = <<p>>
          /\ UNCHANGED <<jobs, pipeFailed>> /\ pc' # "segv_reaper"
      BY <1>0, <1>3 DEF ForkAndWait, HeldWhileWaiting, table
    <2>2. QED
      BY <1>0, <2>1, ForkedAndHeld
  <1>4. ASSUME NEW p \in Pid, ForkBackground(p) PROVE TableInv'
    <2>1. /\ Fork(p) /\ pids = <<>> /\ pids' = <<p>>
          /\ UNCHANGED <<jobs, pipeFailed>> /\ pc' # "segv_reaper"
      BY <1>0, <1>4 DEF ForkBackground, HeldWhileWaiting, table
    <2>2. QED
      BY <1>0, <2>1, ForkedAndHeld
  <1>5. ASSUME NEW p \in Pid, ForkPipeCommand(p) PROVE TableInv'
    <2>1. /\ Fork(p) /\ pids' = Append(pids, p)
          /\ UNCHANGED <<jobs, pipeFailed>> /\ pc' # "segv_reaper"
      BY <1>5 DEF ForkPipeCommand, table
    <2>2. QED
      BY <1>0, <2>1, ForkedAndHeld
  <1>6. ASSUME PipeForkFails PROVE TableInv'
    <2>1. /\ UNCHANGED <<jobs, child>> /\ pids' = <<>>
          /\ pipeFailed' = (pipeFailed \/ pids # <<>>) /\ pc' = "exec"
      BY <1>6 DEF PipeForkFails, table
    <2>2. HeldDistinct' /\ Held' = {}
      BY <2>1, HeldNone
    <2>3. JobPids' = JobPids /\ JobsDistinct'
      BY <1>0, <2>1 DEF JobPids, JobsDistinct, TableInv
    <2>4. ASSUME ~pipeFailed' PROVE ~pipeFailed /\ Held = {}
      <3>1. ~pipeFailed /\ pids = <<>>
        BY <2>1, <2>4, Zenon
      <3>2. QED
        BY <3>1 DEF Held
    <2>5. ReaperFaultNeedsForkFailure'
      BY <1>0, <2>1, <2>2, <2>3, <2>4 DEF TableInv, ReaperFaultNeedsForkFailure
    <2>6. QED
      BY <1>0, <2>1, <2>2, <2>3, <2>5 DEF TableInv, JobsAreChildren,
         ForegroundNotStolen
  <1>7. ASSUME register_job PROVE TableInv'
    <2>1. pids \in Seq(Pid) /\ Len(pids) = 1 /\ pids # <<>>
      <3>1. pids \in Seq(Pid) /\ Len(pids) = 1
        BY <1>0, <1>7 DEF register_job, HeldWhileWaiting, TypeOK
      <3>2. QED
        BY <3>1
    <2>2. PICK n \in 1..(Len(jobs) + 1) :
            /\ n \notin JobNumbers
            /\ jobs' = Append(jobs, [pid |-> Head(pids), num |-> n])
      BY <1>7 DEF register_job, IsNextNumber
    <2>3. Held = {Head(pids)}
      BY <2>1 DEF Held
    <2>4. Head(pids) \in Pid \ JobPids
      BY <1>0, <1>00, <2>3 DEF TableInv, ForegroundNotStolen
    <2>5. JobsDistinct' /\ JobPids' = JobPids \cup {Head(pids)}
      <3>1. n \in (Nat \ {0}) \ JobNumbers
        BY <2>2, <1>0 DEF TypeOK
      <3>2. QED
        BY <1>0, <2>2, <2>4, <3>1, JobListAppend DEF TableInv
    <2>6. /\ pids' = <<>> /\ pc' = "exec" /\ UNCHANGED <<child, pipeFailed>>
          /\ Held' = {} /\ HeldDistinct'
      BY <1>7, HeldNone DEF register_job
    <2>7. JobsAreChildren'
      BY <1>0, <2>3, <2>5, <2>6 DEF TableInv, JobsAreChildren,
         ForegroundNotStolen
    <2>8. ReaperFaultNeedsForkFailure'
      BY <1>0, <2>3, <2>5, <2>6 DEF TableInv, ReaperFaultNeedsForkFailure
    <2>9. QED
      BY <2>5, <2>6, <2>7, <2>8 DEF TableInv, ForegroundNotStolen
  <1>8. ASSUME NEW p \in Pid, Reap(p) PROVE TableInv'
    <2>1. /\ pc = "reap" /\ pids = <<>> /\ child[p] = "zombie"
          /\ child' = [child EXCEPT ![p] = "free"]
          /\ UNCHANGED <<pids, pipeFailed>>
      BY <1>0, <1>8 DEF Reap, HeldWhileWaiting
    <2>2. CASE allocated /\ jl_remove(p) /\ pc' = pc
      BY <1>0, <2>1, <2>2, JobCollected
    <2>3. CASE /\ p \notin JobPids /\ jobs' = jobs
               /\ pc' = pc \/ pc' = "segv_reaper"
      <3>1. /\ child'[p] = "free"
            /\ \A q \in Pid : q # p => child'[q] = child[q]
        BY <1>0, <2>1 DEF TypeOK
      <3>2. Held = {} /\ Held' = {} /\ HeldDistinct'
        BY <2>1 DEF Held, HeldDistinct
      <3>3. JobPids' = JobPids /\ JobsDistinct'
        BY <1>0, <2>3 DEF JobPids, JobsDistinct, TableInv
      <3>4. pipeFailed
        BY <1>0, <2>1, <2>3, <3>2 DEF TableInv, ReaperFaultNeedsForkFailure
      <3>5. ReaperFaultNeedsForkFailure'
        BY <2>1, <3>4 DEF ReaperFaultNeedsForkFailure
      <3>6. QED
        BY <1>0, <1>00, <2>1, <2>3, <3>1, <3>2, <3>3, <3>5 DEF TableInv,
           JobsAreChildren, ForegroundNotStolen
    <2>4. CASE ~allocated /\ jobs' = jobs /\ pc' = "segv_reaper"
      <3>1. JobPids = {}
        BY <1>0, <2>4 DEF ListAllocated, JobPids
      <3>2. QED
        BY <2>3, <2>4, <3>1
    <2>5. QED
      BY <1>8, <2>2, <2>3, <2>4 DEF Reap
  <1>9. ASSUME WaitChild PROVE TableInv'
    <2> DEFINE h == Head(pids)
    <2>1. /\ pids # <<>> /\ pids' = Tail(pids) /\ pc' = "wait"
          /\ child' = [child EXCEPT ![h] = "free"]
          /\ UNCHANGED <<jobs, pipeFailed>>
      BY <1>9 DEF WaitChild, table
    <2>2. h \in Held /\ HeldDistinct' /\ Held' = Held \ {h}
      BY <1>0, <2>1, HeldTail DEF TableInv, ForegroundNotStolen
    <2> HIDE DEF h
    <2>3. /\ h \in Pid /\ h \notin JobPids /\ child'[h] = "free"
          /\ \A q \in Pid : q # h => child'[q] = child[q]
      BY <1>0, <1>00, <2>1, <2>2 DEF TypeOK, TableInv, ForegroundNotStolen
    <2>4. JobPids' = JobPids /\ JobsDistinct'
      BY <1>0, <2>1 DEF JobPids, JobsDistinct, TableInv
    <2>5. JobsAreChildren'
      BY <1>0, <1>00, <2>3, <2>4 DEF TableInv, JobsAreChildren
    <2>6. ForegroundNotStolen'
      BY <1>0, <1>00, <2>2, <2>3, <2>4 DEF TableInv, ForegroundNotStolen
    <2>7. ReaperFaultNeedsForkFailure'
      BY <1>0, <2>1, <2>2, <2>3, <2>4 DEF TableInv, ReaperFaultNeedsForkFailure
    <2>8. QED
      BY <2>4, <2>5, <2>6, <2>7 DEF TableInv
  <1>10. ASSUME check_and_print_job PROVE TableInv'
    <2> DEFINE p == jobs[cursor].pid
    <2>1. p \in JobPids
      BY <1>0, <1>10 DEF check_and_print_job, JobPids, TypeOK
    <2>2. p \in Pid /\ UNCHANGED <<pc, pids, pipeFailed>> /\ pc = "jobs"
      BY <1>00, <1>10, <2>1 DEF check_and_print_job
    <2>3. CASE jl_remove(p) /\ child' = [child EXCEPT ![p] = "free"]
      BY <1>0, <2>2, <2>3, JobCollected
    <2>4. CASE UNCHANGED <<child, jobs>>
      BY <1>0, <2>2, <2>4, QuietStep
    <2>5. QED
      BY <1>10, <2>3, <2>4 DEF check_and_print_job
  <1> QED
    BY <1>1, <1>2, <1>3, <1>4, <1>5, <1>6, <1>7, <1>8, <1>9, <1>10
       DEF Next, UserStep, ShellStep, KernelStep, Stopped

LEMMA WakeupStep == IInv /\ [Next]_vars => NoLostWakeup'
  <1> SUFFICES ASSUME IInv, [Next]_vars,
                      pc' \notin Dead, NEW z \in Pid, child'[z] = "zombie"
               PROVE  pending' \/ flag' \/ pc' \in {"clear", "reap"}
    BY DEF NoLostWakeup
  <1>1. TypeOK /\ NoLostWakeup
    BY DEF IInv
  <1>2. ASSUME \/ \E p \in Pid : ChildExit(p) \/ ChildStops(p)
               \/ sigchld_handler \/ ClearFlag \/ ReapDone
               \/ \E p \in Pid : Reap(p)
        PROVE  pending' \/ flag' \/ pc' \in {"clear", "reap"}
    BY <1>1, <1>2 DEF ChildExit, ChildStops, sigchld_handler, ClearFlag,
       ReapDone, Reap, Dead
  <1>3. ASSUME UNCHANGED signal, pc \notin Dead, child[z] = "zombie",
               pc \in {"clear", "reap"} => pc' = pc \/ flag
        PROVE  pending' \/ flag' \/ pc' \in {"clear", "reap"}
    BY <1>1, <1>3 DEF NoLostWakeup, signal
  <1>4. ASSUME \/ UserStep \/ Top \/ EventHook
               \/ \E p \in Pid, from \in {"expand", "exec"} : ForkAndWait(p, from)
               \/ ForegroundForkFails \/ WaitChild \/ WaitDone \/ ExpandDone
               \/ \E p \in Pid : ForkBackground(p) \/ ForkPipeCommand(p)
               \/ \E m \in 2..MaxPipe : StartPipeline(m)
               \/ register_job \/ PipeForkFails \/ PipeForked \/ JobsBuiltin
               \/ check_and_print_job \/ JobsDone \/ ExitBuiltin \/ LineDone
        PROVE  /\ UNCHANGED signal /\ pc \notin Dead /\ child[z] = "zombie"
               /\ pc \notin {"clear", "reap"}
    BY <1>1, <1>4 DEF TypeOK, UserStep, EnterLine, EmptyLine, BadLine, Top,
       EventHook, ForkAndWait, Fork, ForegroundForkFails, WaitChild, WaitDone,
       ExpandDone, ForkBackground, ForkPipeCommand, StartPipeline,
       register_job, PipeForkFails, PipeForked, JobsBuiltin,
       check_and_print_job, JobsDone, ExitBuiltin, LineDone, Dead
  <1>5. CASE UNCHANGED vars
    BY <1>1, <1>5 DEF NoLostWakeup, vars, control, signal
  <1>6. QED
    BY <1>2, <1>3, <1>4, <1>5 DEF Next, ShellStep, KernelStep, Stopped

-----------------------------------------------------------------------------
(* The list implements the job table. *)

\* With distinct numbers, PidIn finds the pid of the node.
LEMMA NumberNamesNode ==
    ASSUME NEW s,
           \A i, j \in 1..Len(s) : i # j => s[i].num # s[j].num,
           NEW i \in 1..Len(s)
    PROVE  PidIn(s, s[i].num) = s[i].pid
  <1> DEFINE k == CHOOSE k \in 1..Len(s) : s[k].num = s[i].num
  <1>1. k \in 1..Len(s) /\ s[k].num = s[i].num
    OBVIOUS
  <1> HIDE DEF k
  <1>2. k = i
    BY <1>1
  <1>3. QED
    BY <1>2 DEF k, PidIn

\* The table that the list stands for, node by node.
LEMMA TableOfList ==
    ASSUME TypeOK, JobsDistinct
    PROVE  /\ \A i \in 1..Len(jobs) : PidIn(jobs, jobs[i].num) = jobs[i].pid
           /\ \A n \in JobNumbers : PidIn(jobs, n) \in JobPids
           /\ JobPids \subseteq Pid /\ JobNumbers \subseteq Nat \ {0}
  <1>1. \A i, j \in 1..Len(jobs) : i # j => jobs[i].num # jobs[j].num
    BY DEF JobsDistinct
  <1>2. \A i \in 1..Len(jobs) : PidIn(jobs, jobs[i].num) = jobs[i].pid
    BY <1>1, NumberNamesNode
  <1>3. \A i \in 1..Len(jobs) : jobs[i] \in Job
    BY DEF TypeOK
  <1>4. QED
    BY <1>2, <1>3 DEF JobPids, JobNumbers, Job

\* The smallest free number is 1 or comes behind one that is taken.
LEMMA SmallestFree ==
    ASSUME NEW n \in Nat \ {0}, IsNextNumber(n)
    PROVE  n \in {1} \cup {m + 1 : m \in JobNumbers}
  <1>1. CASE n # 1
    <2>1. n - 1 \in 1..(n-1) /\ n = (n-1) + 1
      BY <1>1
    <2>2. QED
      BY <2>1 DEF IsNextNumber
  <1>2. QED
    BY <1>1

\* A step that touches no listed job.
LEMMA TableUntouched ==
    ASSUME TypeOK, JobsDistinct, jobs' = jobs,
           \A p \in JobPids : child'[p] = "zombie" <=> child[p] = "zombie"
    PROVE  UNCHANGED <<TableBar, ExitedBar>>
  <1>1. /\ JobNumbers' = JobNumbers
        /\ \A n \in JobNumbers : PidIn(jobs', n) = PidIn(jobs, n)
    BY DEF JobNumbers
  <1>2. \A n \in JobNumbers : PidIn(jobs, n) \in JobPids
    BY TableOfList
  <1>3. QED
    BY <1>1, <1>2 DEF TableBar, ExitedBar

\* The first node with this pid is removed, and its status is collected.
LEMMA TableReport ==
    ASSUME TypeOK, JobsDistinct, NEW p \in Pid, jl_remove(p),
           child[p] = "zombie", child' = [child EXCEPT ![p] = "free"]
    PROVE  \E n \in Table!Numbers : Table!Report(n)
  <1>1. PICK i \in 1..Len(jobs) : jobs[i].pid = p /\ jobs' = RemoveAt(jobs, i)
    BY DEF jl_remove
  <1>2. /\ jobs' \in Seq(Job) /\ jobs \in Seq(Job)
        /\ Len(jobs') = Len(jobs) - 1
        /\ \A k \in 1..(Len(jobs) - 1) :
             jobs'[k] = IF k < i THEN jobs[k] ELSE jobs[k+1]
    BY <1>1, RemoveAtProperties DEF TypeOK
  <1>3. JobsDistinct'
    BY JobListRemoval
  <1> DEFINE n == jobs[i].num
  <1>4. n \in JobNumbers /\ PidIn(jobs, n) = p
    BY <1>1, TableOfList DEF JobNumbers
  <1>5. ASSUME NEW k \in 1..Len(jobs'), NEW j \in 1..Len(jobs), jobs'[k] = jobs[j]
        PROVE  PidIn(jobs', jobs[j].num) = PidIn(jobs, jobs[j].num)
    <2>1. \A x, y \in 1..Len(jobs') : x # y => jobs'[x].num # jobs'[y].num
      BY <1>3 DEF JobsDistinct
    <2>2. PidIn(jobs', jobs'[k].num) = jobs'[k].pid
      BY <2>1, NumberNamesNode
    <2>3. QED
      BY <1>5, <2>2, TableOfList
  <1>6. ASSUME NEW k \in 1..Len(jobs')
        PROVE  \E j \in 1..Len(jobs) : j # i /\ jobs'[k] = jobs[j]
    <2>1. CASE k < i
      BY <2>1, <1>2
    <2>2. CASE k >= i
      <3>1. k + 1 \in 1..Len(jobs) /\ k + 1 # i /\ jobs'[k] = jobs[k+1]
        BY <2>2, <1>2
      <3>2. QED
        BY <3>1
    <2>3. QED
      BY <2>1, <2>2, <1>2
  <1>7. ASSUME NEW j \in 1..Len(jobs), j # i
        PROVE  \E k \in 1..Len(jobs') : jobs'[k] = jobs[j]
    <2>1. CASE j < i
      BY <2>1, <1>2
    <2>2. CASE j > i
      <3>1. j - 1 \in 1..Len(jobs') /\ jobs'[j-1] = jobs[j]
        BY <2>2, <1>2
      <3>2. QED
        BY <3>1
    <2>3. QED
      BY <2>1, <2>2, <1>2, <1>7
  <1>8. JobNumbers' = JobNumbers \ {n}
    <2>1. JobNumbers' \subseteq JobNumbers \ {n}
      BY <1>6 DEF JobNumbers, JobsDistinct
    <2>2. ASSUME NEW m \in JobNumbers \ {n} PROVE m \in JobNumbers'
      <3>1. PICK j \in 1..Len(jobs) : jobs[j].num = m /\ j # i
        BY DEF JobNumbers
      <3>2. QED
        BY <3>1, <1>7 DEF JobNumbers
    <2>3. QED
      BY <2>1, <2>2
  <1>9. ASSUME NEW m \in JobNumbers'
        PROVE  /\ PidIn(jobs', m) = PidIn(jobs, m)
               /\ PidIn(jobs, m) \in Pid /\ PidIn(jobs, m) # p
    <2>1. PICK k \in 1..Len(jobs') : jobs'[k].num = m
      BY DEF JobNumbers
    <2>2. PICK j \in 1..Len(jobs) : j # i /\ jobs'[k] = jobs[j]
      BY <1>6
    <2>3. PidIn(jobs', m) = PidIn(jobs, m)
      BY <1>5, <2>1, <2>2
    <2>4. PidIn(jobs, m) = jobs[j].pid /\ jobs[j].pid \in JobPids
      BY <2>1, <2>2, TableOfList DEF JobPids
    <2>5. jobs[j].pid # p
      BY <1>1, <2>2 DEF JobsDistinct
    <2>6. QED
      BY <2>3, <2>4, <2>5, TableOfList
  <1> HIDE DEF n
  <1>10. \A q \in Pid : q # p => child'[q] = child[q]
    BY DEF TypeOK
  <1>11. TableBar' = [m \in JobNumbers \ {n} |-> TableBar[m]]
    BY <1>8, <1>9 DEF TableBar
  <1>12. ExitedBar' = ExitedBar \ {n} /\ n \in ExitedBar
    BY <1>4, <1>8, <1>9, <1>10 DEF ExitedBar, TableBar
  <1>13. DOMAIN TableBar = JobNumbers
    BY DEF TableBar
  <1>14. n \in Table!Numbers /\ Table!Report(n)
    BY <1>4, <1>11, <1>12, <1>13 DEF Table!Numbers, Table!Report
  <1>15. QED
    BY <1>14

\* A node with a new pid and the smallest free number is appended.
LEMMA TableStart ==
    ASSUME TypeOK, JobsDistinct, NEW p \in Pid \ JobPids,
           NEW n \in Nat \ {0}, IsNextNumber(n),
           jobs' = Append(jobs, [pid |-> p, num |-> n]), child' = child
    PROVE  Table!Start(p)
  <1>1. jobs \in Seq(Job) /\ [pid |-> p, num |-> n] \in Job
    BY DEF TypeOK, Job
  <1>2. /\ jobs' \in Seq(Job)
        /\ Len(jobs') = Len(jobs) + 1 /\ Len(jobs) \in Nat
        /\ \A k \in 1..Len(jobs) : jobs'[k] = jobs[k]
        /\ jobs'[Len(jobs) + 1] = [pid |-> p, num |-> n]
    BY <1>1, AppendProperties
  <1>3. n \notin JobNumbers /\ \A m \in 1..(n-1) : m \in JobNumbers
    BY DEF IsNextNumber
  <1>4. JobsDistinct'
    BY <1>3, JobListAppend
  <1>5. ASSUME NEW k \in 1..Len(jobs')
        PROVE  PidIn(jobs', jobs'[k].num) = jobs'[k].pid
    <2>1. \A x, y \in 1..Len(jobs') : x # y => jobs'[x].num # jobs'[y].num
      BY <1>4 DEF JobsDistinct
    <2>2. QED
      BY <2>1, NumberNamesNode
  <1>6. JobNumbers' = JobNumbers \cup {n}
    BY <1>2 DEF JobNumbers
  <1>7. PidIn(jobs', n) = p
    <2>1. Len(jobs) + 1 \in 1..Len(jobs')
      BY <1>2
    <2>2. QED
      BY <1>2, <1>5, <2>1
  <1>8. ASSUME NEW m \in JobNumbers
        PROVE  PidIn(jobs', m) = PidIn(jobs, m)
    <2>1. PICK k \in 1..Len(jobs) : jobs[k].num = m
      BY DEF JobNumbers
    <2>2. PidIn(jobs, m) = jobs[k].pid
      BY <2>1, TableOfList
    <2>3. k \in 1..Len(jobs') /\ jobs'[k] = jobs[k]
      BY <1>2
    <2>4. PidIn(jobs', jobs'[k].num) = jobs'[k].pid
      BY <1>5, <2>3
    <2>5. QED
      BY <2>1, <2>2, <2>3, <2>4
  <1>9. TableBar' = [m \in JobNumbers \cup {n} |-> IF m = n THEN p ELSE TableBar[m]]
    BY <1>3, <1>6, <1>7, <1>8 DEF TableBar
  <1>10. ExitedBar' \in {ExitedBar, ExitedBar \cup {n}}
    BY <1>3, <1>6, <1>7, <1>8 DEF ExitedBar, TableBar
  <1>11. DOMAIN TableBar = JobNumbers /\ \A m \in JobNumbers : TableBar[m] # p
    BY TableOfList DEF TableBar
  <1>12. n \in {1} \cup {m + 1 : m \in JobNumbers}
    BY SmallestFree
  <1>13. QED
    BY <1>3, <1>9, <1>10, <1>11, <1>12 DEF Table!Start, Table!Numbers

\* A child exits: its job does, if it is one.
LEMMA TableExit ==
    ASSUME TypeOK, JobsDistinct, NEW p \in Pid, ChildExit(p)
    PROVE  \/ \E n \in Table!Numbers : Table!Exit(n)
           \/ UNCHANGED <<TableBar, ExitedBar>>
  <1>1. /\ jobs' = jobs /\ child[p] = "running" /\ child'[p] = "zombie"
        /\ \A q \in Pid : q # p => child'[q] = child[q]
    BY DEF ChildExit, TypeOK, table
  <1>2. CASE p \notin JobPids
    <2>1. \A q \in JobPids : child'[q] = child[q]
      BY <1>1, <1>2, TableOfList
    <2>2. QED
      BY <1>1, <2>1, TableUntouched
  <1>3. CASE p \in JobPids
    <2>1. PICK i \in 1..Len(jobs) : jobs[i].pid = p
      BY <1>3 DEF JobPids
    <2> DEFINE n == jobs[i].num
    <2>2. n \in JobNumbers /\ PidIn(jobs, n) = p
      BY <2>1, TableOfList DEF JobNumbers
    <2>3. /\ JobNumbers' = JobNumbers
          /\ \A m \in JobNumbers : PidIn(jobs', m) = PidIn(jobs, m)
      BY <1>1 DEF JobNumbers
    <2>4. ASSUME NEW m \in JobNumbers, m # n
          PROVE  PidIn(jobs, m) \in Pid /\ PidIn(jobs, m) # p
      <3>1. PICK j \in 1..Len(jobs) : jobs[j].num = m
        BY DEF JobNumbers
      <3>2. PidIn(jobs, m) = jobs[j].pid /\ jobs[j].pid \in JobPids
        BY <3>1, TableOfList DEF JobPids
      <3>3. j # i
        BY <2>4, <3>1
      <3>4. jobs[j].pid # p
        BY <2>1, <3>3 DEF JobsDistinct
      <3>5. QED
        BY <3>2, <3>4, TableOfList
    <2> HIDE DEF n
    <2>5. TableBar' = TableBar
      BY <2>3 DEF TableBar
    <2>6. ExitedBar' = ExitedBar \cup {n} /\ n \notin ExitedBar
      BY <1>1, <2>2, <2>3, <2>4 DEF ExitedBar, TableBar
    <2>7. DOMAIN TableBar = JobNumbers
      BY DEF TableBar
    <2>8. n \in Table!Numbers /\ Table!Exit(n)
      BY <2>2, <2>5, <2>6, <2>7 DEF Table!Numbers, Table!Exit
    <2>9. QED
      BY <2>8
  <1>4. QED
    BY <1>2, <1>3

\* Every step of the shell and the kernel is a step of the table or none.
LEMMA TableRefined == IInv /\ [Next]_vars => [Table!TableNext]_(Table!tvars)
  <1> SUFFICES ASSUME IInv, [Next]_vars
               PROVE  Table!TableNext \/ UNCHANGED <<TableBar, ExitedBar>>
    BY DEF Table!tvars
  <1>0. TypeOK /\ JobsDistinct /\ TableInv /\ HeldWhileWaiting
    BY DEF IInv, TableInv
  <1>00. JobPids \subseteq Pid
    BY <1>0, TableOfList
  <1>1. ASSUME \/ EnterLine \/ EmptyLine \/ BadLine \/ Top \/ EventHook
               \/ ClearFlag \/ ReapDone \/ ForegroundForkFails \/ WaitDone
               \/ ExpandDone \/ PipeForked \/ JobsBuiltin \/ JobsDone
               \/ ExitBuiltin \/ LineDone \/ sigchld_handler \/ UNCHANGED vars
               \/ PipeForkFails
               \/ \E p \in Pid : ChildStops(p)
               \/ \E m \in 2..MaxPipe : StartPipeline(m)
        PROVE  UNCHANGED <<TableBar, ExitedBar>>
    <2>1. UNCHANGED <<jobs, child>>
      BY <1>1 DEF EnterLine, EmptyLine, BadLine, Top, EventHook,
         ClearFlag, ReapDone, ForegroundForkFails, WaitDone, ExpandDone,
         PipeForked, JobsBuiltin, JobsDone, ExitBuiltin, LineDone, PipeForkFails,
         sigchld_handler, ChildStops, StartPipeline, vars, control, table, signal
    <2>2. QED
      BY <1>0, <2>1, TableUntouched
  <1>2. ASSUME NEW p \in Pid, ChildExit(p)
        PROVE  Table!TableNext \/ UNCHANGED <<TableBar, ExitedBar>>
    BY <1>0, <1>2, TableExit DEF Table!TableNext
  <1>3. ASSUME NEW p \in Pid,
               \/ \E from \in {"readline", "expand", "exec"} : ForkAndWait(p, from)
               \/ ForkBackground(p) \/ ForkPipeCommand(p)
        PROVE  UNCHANGED <<TableBar, ExitedBar>>
    <2>1. Fork(p) /\ jobs' = jobs
      BY <1>3 DEF ForkAndWait, ForkBackground, ForkPipeCommand, table
    <2>2. /\ p \notin JobPids
          /\ \A q \in Pid : q # p => child'[q] = child[q]
      BY <1>0, <2>1, ForkedIsNew
    <2>3. \A q \in JobPids : child'[q] = child[q]
      BY <1>00, <2>2
    <2>4. QED
      BY <1>0, <2>1, <2>3, TableUntouched
  <1>4. ASSUME NEW p \in Pid, Reap(p)
        PROVE  Table!TableNext \/ UNCHANGED <<TableBar, ExitedBar>>
    <2>1. child[p] = "zombie" /\ child' = [child EXCEPT ![p] = "free"]
      BY <1>4 DEF Reap
    <2>2. CASE jl_remove(p)
      <3>1. \E n \in Table!Numbers : Table!Report(n)
        BY <1>0, <2>1, <2>2, TableReport
      <3>2. QED
        BY <3>1 DEF Table!TableNext
    <2>3. CASE p \notin JobPids /\ jobs' = jobs
      <3>1. \A q \in JobPids : child'[q] = child[q]
        BY <1>0, <1>00, <2>1, <2>3 DEF TypeOK
      <3>2. QED
        BY <1>0, <2>3, <3>1, TableUntouched
    <2>4. CASE ~allocated /\ jobs' = jobs
      <3>1. JobPids = {}
        BY <2>4 DEF IInv, ListAllocated, JobPids
      <3>2. QED
        BY <2>3, <2>4, <3>1
    <2>5. QED
      BY <1>4, <2>2, <2>3, <2>4 DEF Reap
  <1>5. ASSUME WaitChild
        PROVE  UNCHANGED <<TableBar, ExitedBar>>
    <2>1. /\ jobs' = jobs /\ pids # <<>> /\ pids' = Tail(pids)
          /\ child' = [child EXCEPT ![Head(pids)] = "free"]
      BY <1>5 DEF WaitChild, table
    <2>2. Head(pids) \in Held
      BY <1>0, <2>1, HeldTail DEF TableInv, ForegroundNotStolen
    <2>3. \A q \in JobPids : q # Head(pids)
      BY <1>0, <2>2 DEF TableInv, ForegroundNotStolen
    <2>4. \A q \in JobPids : child'[q] = child[q]
      BY <1>0, <1>00, <2>1, <2>3 DEF TypeOK
    <2>5. QED
      BY <1>0, <2>1, <2>4, TableUntouched
  <1>6. ASSUME register_job
        PROVE  Table!TableNext
    <2>1. pids \in Seq(Pid) /\ Len(pids) = 1
      BY <1>0, <1>6 DEF register_job, HeldWhileWaiting, TypeOK
    <2>2. Head(pids) \in Held /\ Head(pids) \in Pid
      BY <2>1 DEF Held
    <2>3. Head(pids) \in Pid \ JobPids
      BY <1>0, <2>2 DEF TableInv, ForegroundNotStolen
    <2>4. PICK n \in 1..(Len(jobs) + 1) :
            /\ IsNextNumber(n)
            /\ jobs' = Append(jobs, [pid |-> Head(pids), num |-> n])
      BY <1>6 DEF register_job
    <2>5. child' = child /\ n \in Nat \ {0}
      BY <1>0, <1>6, <2>4 DEF register_job, TypeOK
    <2>6. Table!Start(Head(pids))
      BY <1>0, <2>3, <2>4, <2>5, TableStart
    <2>7. QED
      BY <2>2, <2>6 DEF Table!TableNext
  <1>7. ASSUME check_and_print_job
        PROVE  Table!TableNext \/ UNCHANGED <<TableBar, ExitedBar>>
    <2> DEFINE p == jobs[cursor].pid
    <2>1. p \in JobPids
      BY <1>0, <1>7 DEF check_and_print_job, JobPids, TypeOK
    <2>2. CASE /\ child[p] = "zombie" /\ jl_remove(p)
               /\ child' = [child EXCEPT ![p] = "free"]
      <3>1. \E n \in Table!Numbers : Table!Report(n)
        BY <1>0, <1>00, <2>1, <2>2, TableReport
      <3>2. QED
        BY <3>1 DEF Table!TableNext
    <2>3. CASE UNCHANGED <<child, jobs>>
      BY <1>0, <2>3, TableUntouched
    <2>4. QED
      BY <1>7, <2>2, <2>3 DEF check_and_print_job
  <1> QED
    BY <1>1, <1>2, <1>3, <1>4, <1>5, <1>6, <1>7
       DEF Next, UserStep, ShellStep, KernelStep, Stopped

-----------------------------------------------------------------------------
(* The theorems. *)

THEOREM JobsInvariant == Spec => []IInv
  <1>1. IInv /\ [Next]_vars => IInv'
    BY TypeStep, TableStep, WakeupStep DEF TypeInv, TableInv, IInv
  <1>2. QED
    BY InitInvariant, <1>1, PTL DEF Spec

THEOREM TypeCorrect == Spec => []TypeOK
  BY JobsInvariant, PTL DEF IInv

(* `[n] pid` names one job and that job is still a child of the shell,       *)
(* whatever exits, is reaped by the hook, by `jobs` or by a wait.            *)
THEOREM JobListIsSound == Spec => [](JobsDistinct /\ JobsAreChildren)
  BY JobsInvariant, PTL DEF IInv

(* The reaper of the event hook never collects a child that execute_command, *)
(* execute_pipes, capture_list_output or a completer waits for.              *)
THEOREM ForegroundIsSafe == Spec => []ForegroundNotStolen
  BY JobsInvariant, PTL DEF IInv

(* check_background_jobs lowers the flag before it reaps, so no exit of a    *)
(* child is ever forgotten.                                                  *)
THEOREM NoWakeupIsLost == Spec => []NoLostWakeup
  BY JobsInvariant, PTL DEF IInv

(* Only a fork that fails in the middle of a pipeline leaves a child nobody  *)
(* knows, and only then can the reaper dereference an unallocated list.      *)
THEOREM ReaperFaultsOnlyAfterForkFailure ==
    Spec => []ReaperFaultNeedsForkFailure
  BY JobsInvariant, PTL DEF IInv

\* The job list implements the table of JobTable: the smallest free number,
\* kept until the one report that follows the exit, through every interleaving
\* of signals, hooks, waits and `jobs`.
THEOREM JobListRefinesTable == Spec => JobListIsTable
  <1>1. Init => Table!TableInit
    BY DEF Init, Table!TableInit, TableBar, ExitedBar, JobNumbers
  <1>2. QED
    BY <1>1, TableRefined, JobsInvariant, PTL DEF Spec, JobListIsTable, Table!TableSpec
=============================================================================
