---------------------------- MODULE StringBuilder ----------------------------
(***************************************************************************)
(* The text buffer that expansions and the command lines of jobs are built *)
(* in.  size is the length of the text and capacity that of the            *)
(* allocation; both are unsigned, and every append decides for itself      *)
(* whether the buffer has to grow.                                         *)
(*                                                                         *)
(* A cell of the buffer holds a zero, the character that belongs there, or *)
(* another one.  The byte right behind the buffer belongs to the allocator *)
(* and is written to all the same.  sb_format is called by nobody.         *)
(***************************************************************************)
EXTENDS Integers

CONSTANTS
    Requests,   \* the capacities that are asked for
    MaxAppend,  \* the longest string or number appended at once (a bound)
    MaxFactor,  \* the largest factor a buffer grows by at once (a bound)
    MaxCapacity \* no operation starts from a larger buffer (a bound)

ASSUME RequestsAssumption == Requests \subseteq Nat
ASSUME BoundsAssumption == MaxAppend \in Nat /\ MaxFactor \in Nat /\ MaxCapacity \in Nat

VARIABLES
    capacity,
    size,
    str,        \* the cells 0..capacity-1
    dirty,      \* history: realloc handed sb_appendc memory that is not zero
    lost,       \* history: realloc dropped the byte behind the old buffer
    cut,        \* history: snprintf had no room for the last digits
    over        \* history: a byte beyond the one behind the buffer was written

flags == <<dirty, lost, cut, over>>
vars  == <<capacity, size, str, flags>>

DefaultCapacity == 16

Byte == {"zero", "text", "other"}

TypeOK ==
    /\ capacity \in Nat \ {0}
    /\ size \in Nat
    /\ str \in [0..(capacity-1) -> Byte]
    /\ \A f \in {dirty, lost, cut, over} : f \in BOOLEAN

\* Mutant: the capacity that was asked for, as it is.
AsRequested(c) == c

\* sb_new_sized: never a buffer of no bytes.
InitialCapacity(c) == IF c = 0 THEN DefaultCapacity ELSE c

Init ==
    /\ \E c \in Requests : capacity = InitialCapacity(c)
    /\ size = 0
    /\ str = [i \in 0..(capacity-1) |-> "zero"]
    /\ dirty = FALSE /\ lost = FALSE /\ cut = FALSE /\ over = FALSE

-----------------------------------------------------------------------------
(* Growing. *)

\* The factors 1 << growth_factor.
Factor == {f \in 2..MaxFactor : \E g \in 1..f : f = 2^g}

\* The condition that ends the loop over growth_factor.
HasRoom(c, add) == c - size > add

\* The first doubling with room.
Doublings(add) ==
    {c \in {capacity * f : f \in Factor} :
        /\ HasRoom(c, add)
        /\ \A f \in Factor : capacity * f < c => ~HasRoom(capacity * f, add)}

\* realloc keeps the cells of the old buffer.  Whether it keeps the byte that
\* was written behind it is up to the allocator, and what the new cells hold.
Reallocated(c, behind, fresh) ==
    [i \in 0..(c-1) |-> IF i < capacity THEN str[i]
                        ELSE IF i = capacity /\ size = capacity + 1 THEN behind
                        ELSE fresh]

\* Mutant: the byte at the end of the text is left as it was.
ClearedAfter(cells) == [i \in DOMAIN cells |-> IF i > size THEN "zero" ELSE cells[i]]

\* memset from the end of the text on.
Cleared(cells) == [i \in DOMAIN cells |-> IF i >= size THEN "zero" ELSE cells[i]]

\* The buffer of sb_appends and sb_appendl, grown or as it is.
Buffers(grow, add) ==
    IF ~grow THEN {[capacity |-> capacity, str |-> str, lost |-> FALSE]}
    ELSE {[capacity |-> c, str |-> Cleared(Reallocated(c, b, "other")),
           lost |-> size = capacity + 1 /\ b # "text"] :
            c \in Doublings(add), b \in {"text", "other"}}

-----------------------------------------------------------------------------
(* The operations. *)

\* Mutant: the terminator is paid for twice over.
LooseFull(len) == len > capacity + 2 - size

\* capacity - (size - 1) is computed without a sign: with no text it is
\* capacity + 1, as the difference of the other cases is.
IsFull(len) == len >= capacity + 1 - size

\* Nothing can be said of a program that has written over its heap.
Usable == capacity <= MaxCapacity /\ ~over

\* The first zero at or behind the end of the text, which strcat looks for.
Terminators(cells) == {i \in DOMAIN cells : i >= size /\ cells[i] = "zero"}

\* strcat to &str[size].  Where there is no zero left in the buffer it goes on
\* behind it.
Strcat(b, len) ==
    IF Terminators(b.str) = {}
    THEN /\ str' = b.str
         /\ over' = (over \/ len > 0)
    ELSE LET p == CHOOSE i \in Terminators(b.str) :
                    \A j \in Terminators(b.str) : i <= j
             put == IF p = size THEN "text" ELSE "other"
         IN /\ str' = [i \in DOMAIN b.str |->
                         IF i \in p..(p+len-1) THEN put
                         ELSE IF i = p + len THEN "zero" ELSE b.str[i]]
            /\ over' = (over \/ p + len > b.capacity)

sb_appends(len) ==
    /\ Usable
    /\ \E b \in Buffers(IsFull(len), len) :
         /\ capacity' = b.capacity
         /\ lost' = (lost \/ b.lost)
         /\ Strcat(b, len)
    /\ size' = size + len
    /\ UNCHANGED <<dirty, cut>>

\* The character goes to str[size], which may be the byte behind the buffer.
Store(cells, c) ==
    /\ str' = [i \in DOMAIN cells |-> IF i = size THEN "text" ELSE cells[i]]
    /\ over' = (over \/ size > c)
    /\ size' = size + 1

\* Grows only once the byte behind the buffer has been used, and clears
\* nothing.
sb_appendc ==
    /\ Usable
    /\ IF size = capacity + 1
       THEN \E b \in {"text", "other"}, fresh \in {"zero", "other"} :
              /\ capacity' = 2 * capacity
              /\ lost' = (lost \/ b # "text")
              /\ dirty' = (dirty \/ fresh # "zero")
              /\ Store(Reallocated(2 * capacity, b, fresh), 2 * capacity)
       ELSE /\ Store(str, capacity)
            /\ UNCHANGED <<capacity, lost, dirty>>
    /\ cut' = cut

\* Mutant: one digit less.
Narrow(c) == c - size - 2

\* The size snprintf is told, terminator included.
Limit(c) == c - size - 1

\* The digits snprintf writes; without room for one byte it writes nothing.
Printed(digits, limit) ==
    IF limit <= 0 THEN 0 ELSE IF digits < limit THEN digits ELSE limit - 1

\* A number of that many digits, minus sign included.  size advances by all of
\* them.
sb_appendl(digits) ==
    /\ Usable
    /\ \E b \in Buffers(digits + size >= capacity + 1, digits) :
         LET limit == Limit(b.capacity)
             k == Printed(digits, limit)
         IN /\ capacity' = b.capacity
            /\ lost' = (lost \/ b.lost)
            /\ str' = [i \in DOMAIN b.str |->
                         IF i \in size..(size+k-1) THEN "text"
                         ELSE IF i = size + k /\ limit > 0 THEN "zero" ELSE b.str[i]]
            /\ cut' = (cut \/ k < digits)
    /\ size' = size + digits
    /\ UNCHANGED <<dirty, over>>

\* The buffer is handed out, a zeroed one of the same capacity takes its place.
sb_takestring ==
    /\ size' = 0
    /\ str' = [i \in 0..(capacity-1) |-> "zero"]
    /\ capacity' = capacity
    /\ dirty' = FALSE /\ lost' = FALSE /\ cut' = FALSE /\ over' = FALSE

Next ==
    \/ \E len \in 0..MaxAppend : sb_appends(len)
    \/ sb_appendc
    \/ \E digits \in 1..MaxAppend : sb_appendl(digits)
    \/ sb_takestring

Spec == Init /\ [][Next]_vars

-----------------------------------------------------------------------------
(* Properties. *)

\* The text never gets longer than the buffer and the byte behind it, and no
\* byte further out is written, as long as the memory that sb_appendc grows
\* into happens to be zero: strcat starts at the first zero behind the text.
OneByteBehind == size <= capacity + 1 /\ (~dirty => ~over)

\* The buffer holds all that was appended, in its place, and where there is
\* room for it a terminator follows.  Three things spoil it: memory that
\* sb_appendc did not clear, a byte behind the buffer that realloc dropped,
\* and a number at the edge of the buffer.
TextIsWhole ==
    ~dirty /\ ~lost /\ ~cut =>
        /\ \A i \in DOMAIN str : i < size => str[i] = "text"
        /\ size < capacity => str[size] = "zero"

\* A number loses digits only when it ends in the last two bytes of the
\* buffer, and then no more than two.
CutAtTheEdge ==
    [][cut' /\ ~cut =>
         /\ size' >= capacity' - 1
         /\ \A i \in DOMAIN str' : i >= size /\ i < size' - 2 => str'[i] = "text"]_vars

\* The buffer is zero behind its text: why strcat finds the end of the text,
\* and why a character that sb_appendc adds is followed by a zero.
ZeroBehind == ~dirty => \A i \in DOMAIN str : i >= size => str[i] = "zero"

\* The inductive invariant of StringBuilderProofs.
IInv ==
    /\ TypeOK
    /\ OneByteBehind
    /\ ZeroBehind
    /\ TextIsWhole
=============================================================================
