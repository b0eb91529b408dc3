-------------------------- MODULE StringBuilderProofs -------------------------
(***************************************************************************)
(* The buffer of the string builder stays whole for all capacities asked   *)
(* for and for all sequences of appends, whatever the bounds are.          *)
(*                                                                         *)
(* IInv holds in the initial states (InvInit) and is kept by each of the   *)
(* four operations (AppendsKeeps, AppendcKeeps, AppendlStep and            *)
(* TakeKeeps); what growing does is in BufferGrown.                        *)
(***************************************************************************)
EXTENDS StringBuilder, TLAPS

\* The buffer that sb_appends and sb_appendl go on with: the old one, or a
\* larger one with room for the new text and the terminator, which keeps the
\* text and is zero behind it.
LEMMA BufferGrown ==
    ASSUME TypeOK, size <= capacity + 1,
           NEW grow \in BOOLEAN, NEW add \in Nat, NEW b \in Buffers(grow, add)
    PROVE  /\ b.capacity \in Nat \ {0}
           /\ b.str \in [0..(b.capacity-1) -> Byte]
           /\ b.lost \in BOOLEAN
           /\ ~grow => b.capacity = capacity /\ b.str = str /\ b.lost = FALSE
           /\ grow =>
                /\ size + add < b.capacity
                /\ \A i \in 0..(b.capacity-1) :
                     /\ i >= size => b.str[i] = "zero"
                     /\ i < size /\ i < capacity => b.str[i] = str[i]
                     /\ i < size /\ i >= capacity /\ ~b.lost => b.str[i] = "text"
  <1>1. CASE ~grow
    <2>1. b = [capacity |-> capacity, str |-> str, lost |-> FALSE]
      BY <1>1 DEF Buffers
    <2>2. b.capacity = capacity /\ b.str = str /\ b.lost = FALSE
      BY <2>1
    <2>3. QED
      BY <1>1, <2>2 DEF TypeOK
  <1>2. CASE grow
    <2>1. PICK c \in Doublings(add), x \in {"text", "other"} :
            b = [capacity |-> c, str |-> Cleared(Reallocated(c, x, "other")),
                 lost |-> size = capacity + 1 /\ x # "text"]
      BY <1>2 DEF Buffers
    <2>2. c \in Nat \ {0} /\ c - size > add /\ c >= capacity + 1
      <3>1. PICK f \in Factor : c = capacity * f
        BY DEF Doublings
      <3>2. f \in Nat /\ f >= 2
        BY BoundsAssumption DEF Factor
      <3>3. c \in Nat /\ c >= 2 * capacity
        <4>1. capacity \in Nat \ {0}
          BY DEF TypeOK
        <4>2. QED
          BY <3>1, <3>2, <4>1
      <3>4. c - size > add
        BY DEF Doublings, HasRoom
      <3>5. QED
        BY <3>3, <3>4 DEF TypeOK
    <2> DEFINE cells == Reallocated(c, x, "other")
    <2>3. /\ cells \in [0..(c-1) -> Byte]
          /\ \A i \in 0..(c-1) : i < capacity => cells[i] = str[i]
          /\ \A i \in 0..(c-1) : i = capacity /\ size = capacity + 1 => cells[i] = x
      BY <2>2 DEF Reallocated, TypeOK, Byte
    <2> HIDE DEF cells
    <2>4. /\ Cleared(cells) \in [0..(c-1) -> Byte]
          /\ \A i \in 0..(c-1) :
               Cleared(cells)[i] = IF i >= size THEN "zero" ELSE cells[i]
      BY <2>3 DEF Cleared, Byte
    <2>5. b.capacity = c /\ b.str = Cleared(cells)
          /\ b.lost = (size = capacity + 1 /\ x # "text")
      BY <2>1 DEF cells
    <2>6. ASSUME NEW i \in 0..(c-1), i < size, i >= capacity, ~b.lost
          PROVE  b.str[i] = "text"
      <3>1. i = capacity /\ size = capacity + 1
        BY <2>6, <2>2 DEF TypeOK
      <3>2. QED
        <4>1. x = "text"
          BY <3>1, <2>5, <2>6
        <4>2. b.str[i] = cells[i]
          BY <2>4, <2>5, <2>6 DEF TypeOK
        <4>3. QED
          BY <3>1, <4>1, <4>2, <2>3
    <2>7. QED
      BY <1>2, <2>2, <2>3, <2>4, <2>5, <2>6 DEF TypeOK
  <1>3. QED
    BY <1>1, <1>2

-----------------------------------------------------------------------------
(* One step per operation. *)

\* A new builder is an empty text in a zeroed buffer.
LEMMA InvInit == Init => IInv
  <1> SUFFICES ASSUME Init PROVE IInv
    OBVIOUS
  <1>1. capacity \in Nat \ {0}
    BY RequestsAssumption DEF Init, InitialCapacity, DefaultCapacity
  <1>2. TypeOK
    BY <1>1 DEF Init, TypeOK, Byte
  <1>3. size = 0 /\ over = FALSE
        /\ \A i \in 0..(capacity-1) : str[i] = "zero"
        /\ DOMAIN str = 0..(capacity-1)
    BY DEF Init
  <1>4. OneByteBehind /\ ZeroBehind /\ TextIsWhole
    BY <1>1, <1>3 DEF OneByteBehind, ZeroBehind, TextIsWhole
  <1>5. QED
    BY <1>2, <1>4 DEF IInv

\* strcat finds the end of the text, unless sb_appendc grew into memory that
\* was not zero.
LEMMA AppendsKeeps ==
    ASSUME IInv, NEW len \in Nat, sb_appends(len)
    PROVE  IInv'
  <1>1. PICK b \in Buffers(IsFull(len), len) :
          /\ capacity' = b.capacity
          /\ lost' = (lost \/ b.lost)
          /\ Strcat(b, len)
    BY DEF sb_appends
  <1>2. TypeOK /\ size <= capacity + 1 /\ size' = size + len
        /\ dirty' = dirty /\ cut' = cut
    BY DEF sb_appends, IInv, OneByteBehind
  <1> DEFINE grow == IsFull(len)
  <1>3. grow \in BOOLEAN /\ (~grow => size + len <= capacity)
    BY <1>2 DEF IsFull, TypeOK
  <1>4. /\ b.capacity \in Nat \ {0}
        /\ b.str \in [0..(b.capacity-1) -> Byte]
        /\ b.lost \in BOOLEAN
        /\ ~grow => b.capacity = capacity /\ b.str = str /\ b.lost = FALSE
        /\ grow =>
             /\ size + len < b.capacity
             /\ \A i \in 0..(b.capacity-1) :
                  /\ i >= size => b.str[i] = "zero"
                  /\ i < size /\ i < capacity => b.str[i] = str[i]
                  /\ i < size /\ i >= capacity /\ ~b.lost => b.str[i] = "text"
    BY <1>2, <1>3, BufferGrown
  <1> HIDE DEF grow
  <1>5. size' <= b.capacity
    BY <1>2, <1>3, <1>4 DEF TypeOK
  <1>6. ~dirty => \A i \in 0..(b.capacity-1) : i >= size => b.str[i] = "zero"
    BY <1>4 DEF IInv, ZeroBehind, TypeOK
  <1>7. ~dirty /\ ~lost' /\ ~cut =>
          \A i \in 0..(b.capacity-1) : i < size => b.str[i] = "text"
    BY <1>1, <1>2, <1>4 DEF IInv, TextIsWhole, TypeOK
  <1>8. str' \in [0..(b.capacity-1) -> Byte] /\ over' \in BOOLEAN
    <2>1. CASE Terminators(b.str) = {}
      BY <1>1, <1>2, <1>4, <2>1 DEF Strcat, TypeOK
    <2>2. CASE Terminators(b.str) # {}
      <3> DEFINE p == CHOOSE i \in Terminators(b.str) :
                        \A j \in Terminators(b.str) : i <= j
                 put == IF p = size THEN "text" ELSE "other"
      <3>1. /\ str' = [i \in DOMAIN b.str |->
                         IF i \in p..(p+len-1) THEN put
                         ELSE IF i = p + len THEN "zero" ELSE b.str[i]]
            /\ over' = (over \/ p + len > b.capacity)
        BY <1>1, <2>2 DEF Strcat
      <3>2. put \in Byte
        BY DEF Byte
      <3> HIDE DEF p, put
      <3>3. QED
        BY <3>1, <3>2, <1>2, <1>4 DEF TypeOK, Byte
    <2>3. QED
      BY <2>1, <2>2
  <1>9. ASSUME ~dirty
        PROVE  /\ over' = over
               /\ \A i \in 0..(b.capacity-1) :
                    str'[i] = IF size <= i /\ i < size + len THEN "text"
                              ELSE b.str[i]
    <2>1. CASE size < b.capacity
      <3>1. size \in Terminators(b.str) /\ \A j \in Terminators(b.str) : size <= j
        BY <1>2, <1>4, <1>6, <1>9, <2>1 DEF Terminators, TypeOK
      <3> DEFINE p == CHOOSE i \in Terminators(b.str) :
                        \A j \in Terminators(b.str) : i <= j
      <3>2. p = size
        <4>1. p \in Terminators(b.str) /\ \A j \in Terminators(b.str) : p <= j
          BY <3>1
        <4>2. p \in Nat
          BY <4>1, <1>4 DEF Terminators
        <4>3. QED
          BY <4>1, <4>2, <3>1, <1>2 DEF TypeOK
      <3>3. /\ str' = [i \in DOMAIN b.str |->
                         IF i \in p..(p+len-1) THEN "text"
                         ELSE IF i = p + len THEN "zero" ELSE b.str[i]]
            /\ over' = (over \/ p + len > b.capacity)
        BY <1>1, <3>1, <3>2 DEF Strcat
      <3> HIDE DEF p
      <3>4. over' = over
        BY <3>2, <3>3, <1>2, <1>4, <1>5 DEF TypeOK
      <3>5. ASSUME NEW i \in 0..(b.capacity-1)
            PROVE  str'[i] = IF size <= i /\ i < size + len THEN "text"
                             ELSE b.str[i]
        <4>1. str'[i] = IF i \in size..(size+len-1) THEN "text"
                        ELSE IF i = size + len THEN "zero" ELSE b.str[i]
          BY <3>2, <3>3, <1>4
        <4>2. i = size + len => b.str[i] = "zero"
          BY <1>6, <1>9, <1>2 DEF TypeOK
        <4>3. QED
          BY <4>1, <4>2, <1>2 DEF TypeOK
      <3>6. QED
        BY <3>4, <3>5
    <2>2. CASE size >= b.capacity
      <3>1. len = 0 /\ Terminators(b.str) = {}
        BY <2>2, <1>2, <1>4, <1>5 DEF Terminators, TypeOK
      <3>2. QED
        BY <3>1, <1>1, <1>2 DEF Strcat, TypeOK
    <2>3. QED
      BY <2>1, <2>2, <1>2, <1>4 DEF TypeOK
  <1>10. TypeOK'
    BY <1>1, <1>2, <1>4, <1>8 DEF TypeOK
  <1>11. OneByteBehind'
    BY <1>1, <1>2, <1>4, <1>5, <1>9 DEF IInv, OneByteBehind, TypeOK
  <1>12. ZeroBehind'
    BY <1>1, <1>2, <1>4, <1>6, <1>8, <1>9 DEF ZeroBehind, TypeOK
  <1>13. TextIsWhole'
    BY <1>1, <1>2, <1>4, <1>6, <1>7, <1>8, <1>9 DEF TextIsWhole, TypeOK
  <1>14. QED
    BY <1>10, <1>11, <1>12, <1>13 DEF IInv

\* The character takes a zero's place and a zero follows, or the byte behind
\* the buffer is used.
LEMMA AppendcKeeps ==
    ASSUME IInv, sb_appendc
    PROVE  IInv'
  <1>1. TypeOK /\ size <= capacity + 1 /\ size' = size + 1 /\ cut' = cut
    BY DEF sb_appendc, Store, IInv, OneByteBehind
  <1>2. CASE size = capacity + 1
    <2>1. PICK b \in {"text", "other"}, fresh \in {"zero", "other"} :
            /\ capacity' = 2 * capacity
            /\ lost' = (lost \/ b # "text")
            /\ dirty' = (dirty \/ fresh # "zero")
            /\ Store(Reallocated(2 * capacity, b, fresh), 2 * capacity)
      BY <1>2 DEF sb_appendc
    <2> DEFINE cells == Reallocated(2 * capacity, b, fresh)
    <2>2. /\ cells \in [0..(2*capacity-1) -> Byte]
          /\ \A i \in 0..(2*capacity-1) :
               cells[i] = IF i < capacity THEN str[i]
                          ELSE IF i = capacity THEN b ELSE fresh
      BY <1>1, <1>2 DEF Reallocated, TypeOK, Byte
    <2>3. Store(cells, 2 * capacity)
      BY <2>1
    <2> HIDE DEF cells
    <2>4. /\ str' \in [0..(2*capacity-1) -> Byte]
          /\ \A i \in 0..(2*capacity-1) :
               str'[i] = IF i = size THEN "text" ELSE cells[i]
          /\ over' = (over \/ size > 2 * capacity)
      BY <2>2, <2>3 DEF Store, Byte
    <2>5. size <= 2 * capacity /\ over' = over
      BY <1>1, <1>2, <2>4 DEF TypeOK
    <2>6. TypeOK'
      BY <1>1, <2>1, <2>4, <2>5 DEF TypeOK
    <2>7. OneByteBehind'
      BY <1>1, <1>2, <2>1, <2>5 DEF IInv, OneByteBehind, TypeOK
    <2>8. ZeroBehind'
      <3>1. ASSUME ~dirty', NEW i \in 0..(2*capacity-1), i >= size'
            PROVE  str'[i] = "zero"
        <4>1. fresh = "zero"
          BY <2>1, <3>1
        <4>2. i > capacity /\ i # size
          BY <1>1, <1>2, <3>1 DEF TypeOK
        <4>3. QED
          BY <4>1, <4>2, <2>2, <2>4, <1>1 DEF TypeOK
      <3>2. QED
        BY <3>1, <2>4 DEF ZeroBehind
    <2>9. TextIsWhole'
      <3>1. ASSUME ~dirty', ~lost', ~cut', NEW i \in 0..(2*capacity-1), i < size'
            PROVE  str'[i] = "text"
        <4>1. b = "text" /\ ~dirty /\ ~lost /\ ~cut
          BY <1>1, <2>1, <3>1
        <4>2. i < capacity => str[i] = "text"
          BY <4>1, <1>1, <1>2 DEF IInv, TextIsWhole, TypeOK
        <4>3. i < capacity \/ i = capacity \/ i = size
          BY <1>1, <1>2, <3>1 DEF TypeOK
        <4>4. QED
          BY <4>1, <4>2, <4>3, <2>2, <2>4
      <3>2. size' < capacity' => size' \in 0..(2*capacity-1)
        BY <1>1, <2>1 DEF TypeOK
      <3>3. ~dirty' /\ size' < capacity' => str'[size'] = "zero"
        BY <3>2, <2>8, <2>4, <1>1 DEF ZeroBehind, TypeOK
      <3>4. QED
        BY <3>1, <3>3, <2>4 DEF TextIsWhole
    <2>10. QED
      BY <2>6, <2>7, <2>8, <2>9 DEF IInv
  <1>3. CASE size # capacity + 1
    <2>1. /\ Store(str, capacity)
          /\ capacity' = capacity /\ lost' = lost /\ dirty' = dirty
      BY <1>3 DEF sb_appendc
    <2>2. /\ str' \in [0..(capacity-1) -> Byte]
          /\ \A i \in 0..(capacity-1) :
               str'[i] = IF i = size THEN "text" ELSE str[i]
          /\ over' = (over \/ size > capacity)
      BY <1>1, <2>1 DEF Store, TypeOK, Byte
    <2>3. size <= capacity /\ over' = over
      BY <1>1, <1>3, <2>2 DEF TypeOK
    <2>4. TypeOK'
      BY <1>1, <2>1, <2>2, <2>3 DEF TypeOK
    <2>5. OneByteBehind'
      BY <1>1, <2>1, <2>3 DEF IInv, OneByteBehind, TypeOK
    <2>6. ZeroBehind'
      BY <1>1, <2>1, <2>2 DEF IInv, ZeroBehind, TypeOK
    <2>7. TextIsWhole'
      BY <1>1, <2>1, <2>2 DEF IInv, TextIsWhole, ZeroBehind, TypeOK
    <2>8. QED
      BY <2>4, <2>5, <2>6, <2>7 DEF IInv
  <1>4. QED
    BY <1>2, <1>3

\* What sb_appendl leaves of a number that loses digits.
LEMMA AppendlStep ==
    ASSUME IInv, NEW digits \in Nat, sb_appendl(digits)
    PROVE  /\ IInv'
           /\ cut' /\ ~cut =>
                /\ size' >= capacity' - 1
                /\ \A i \in DOMAIN str' :
                     i >= size /\ i < size' - 2 => str'[i] = "text"
  <1> DEFINE grow == digits + size >= capacity + 1
  <1>0. PICK b \in Buffers(grow, digits) :
          LET limit == Limit(b.capacity)
              n == Printed(digits, limit)
          IN /\ capacity' = b.capacity
             /\ lost' = (lost \/ b.lost)
             /\ str' = [i \in DOMAIN b.str |->
                          IF i \in size..(size+n-1) THEN "text"
                          ELSE IF i = size + n /\ limit > 0 THEN "zero" ELSE b.str[i]]
             /\ cut' = (cut \/ n < digits)
    BY DEF sb_appendl
  <1> DEFINE limit == Limit(b.capacity)
             n == Printed(digits, limit)
  <1>1. /\ capacity' = b.capacity
        /\ lost' = (lost \/ b.lost)
        /\ limit = Limit(b.capacity)
        /\ n = Printed(digits, limit)
        /\ str' = [i \in DOMAIN b.str |->
                     IF i \in size..(size+n-1) THEN "text"
                     ELSE IF i = size + n /\ limit > 0 THEN "zero" ELSE b.str[i]]
        /\ cut' = (cut \/ n < digits)
    BY <1>0
  <1> HIDE DEF limit, n
  <1>2. TypeOK /\ size <= capacity + 1 /\ size' = size + digits
        /\ dirty' = dirty /\ over' = over
    BY DEF sb_appendl, IInv, OneByteBehind
  <1>3. grow \in BOOLEAN /\ (~grow => size + digits <= capacity)
    BY <1>2 DEF TypeOK
  <1>4. /\ b.capacity \in Nat \ {0}
        /\ b.str \in [0..(b.capacity-1) -> Byte]
        /\ b.lost \in BOOLEAN
        /\ ~grow => b.capacity = capacity /\ b.str = str /\ b.lost = FALSE
        /\ grow =>
             /\ size + digits < b.capacity
             /\ \A i \in 0..(b.capacity-1) :
                  /\ i >= size => b.str[i] = "zero"
                  /\ i < size /\ i < capacity => b.str[i] = str[i]
                  /\ i < size /\ i >= capacity /\ ~b.lost => b.str[i] = "text"
    BY <1>2, <1>3, BufferGrown
  <1> HIDE DEF grow
  <1>5. size' <= b.capacity
    BY <1>2, <1>3, <1>4 DEF TypeOK
  <1>6. ~dirty => \A i \in 0..(b.capacity-1) : i >= size => b.str[i] = "zero"
    BY <1>4 DEF IInv, ZeroBehind, TypeOK
  <1>7. ~dirty /\ ~lost' /\ ~cut =>
          \A i \in 0..(b.capacity-1) : i < size => b.str[i] = "text"
    BY <1>1, <1>2, <1>4 DEF IInv, TextIsWhole, TypeOK
  <1>8. limit \in Int /\ limit = b.capacity - size - 1
    BY <1>1, <1>2, <1>4 DEF Limit, TypeOK
  <1>9. /\ n \in Nat /\ n <= digits
        /\ n < digits => size' >= b.capacity - 1 /\ n >= digits - 2
    <2>1. limit >= digits - 1
      BY <1>2, <1>5, <1>8, <1>4 DEF TypeOK
    <2>2. n = IF limit <= 0 THEN 0 ELSE IF digits < limit THEN digits ELSE limit - 1
      BY <1>1 DEF Printed
    <2>3. size \in Nat /\ b.capacity \in Nat
      BY <1>2, <1>4 DEF TypeOK
    <2>4. n \in Nat /\ n <= digits /\ n >= digits - 2
      BY <2>1, <2>2, <1>8, <2>3
    <2>5. n < digits => limit <= digits
      BY <2>1, <2>2, <1>8, <2>3
    <2>6. QED
      BY <2>3, <2>4, <2>5, <1>2, <1>8
  <1>10. cut' = (cut \/ n < digits)
    BY <1>1
  <1>11. /\ str' \in [0..(b.capacity-1) -> Byte]
         /\ \A i \in 0..(b.capacity-1) :
              /\ i < size => str'[i] = b.str[i]
              /\ size <= i /\ i < size + n => str'[i] = "text"
              /\ i >= size + n => str'[i] \in {"zero", b.str[i]}
    <2>1. size \in Nat /\ n \in Nat
      BY <1>2, <1>9 DEF TypeOK
    <2>2. \A i \in 0..(b.capacity-1) : str'[i] =
             IF i \in size..(size+n-1) THEN "text"
             ELSE IF i = size + n /\ limit > 0 THEN "zero" ELSE b.str[i]
      BY <1>1, <1>4
    <2>3. str' \in [0..(b.capacity-1) -> Byte]
      BY <1>1, <1>4 DEF Byte
    <2>4. QED
      BY <2>1, <2>2, <2>3, <1>4
  <1>12. TypeOK'
    BY <1>1, <1>2, <1>4, <1>10, <1>11 DEF TypeOK
  <1>13. OneByteBehind'
    BY <1>1, <1>2, <1>4, <1>5 DEF IInv, OneByteBehind, TypeOK
  <1>14. ZeroBehind'
    <2>1. ASSUME ~dirty, NEW i \in 0..(b.capacity-1), i >= size'
          PROVE  str'[i] = "zero"
      <3>1. i >= size /\ i >= size + n
        BY <1>2, <1>9, <2>1 DEF TypeOK
      <3>2. b.str[i] = "zero"
        BY <3>1, <2>1, <1>6
      <3>3. QED
        BY <3>1, <3>2, <1>11
    <2>2. QED
      BY <2>1, <1>2, <1>11 DEF ZeroBehind
  <1>15. TextIsWhole'
    <2>1. SUFFICES ASSUME ~dirty', ~lost', ~cut'
                   PROVE  /\ \A i \in DOMAIN str' : i < size' => str'[i] = "text"
                          /\ size' < capacity' => str'[size'] = "zero"
      BY DEF TextIsWhole
    <2>2. n = digits /\ ~cut /\ ~dirty
      <3>1. ~cut /\ ~(n < digits) /\ ~dirty
        BY <2>1, <1>2, <1>10
      <3>2. QED
        BY <3>1, <1>9
    <2>3. ASSUME NEW i \in 0..(b.capacity-1), i < size'
          PROVE  str'[i] = "text"
      <3>1. CASE i < size
        BY <3>1, <2>1, <2>2, <1>7, <1>11
      <3>2. CASE i >= size
        BY <3>2, <2>2, <2>3, <1>2, <1>11 DEF TypeOK
      <3>3. QED
        BY <3>1, <3>2, <1>2 DEF TypeOK
    <2>4. size' < capacity' => size' \in 0..(b.capacity-1)
      BY <1>1, <1>2, <1>4 DEF TypeOK
    <2>5. size' < capacity' => str'[size'] = "zero"
      BY <2>1, <2>4, <1>14, <1>11, <1>2 DEF ZeroBehind, TypeOK
    <2>6. QED
      BY <2>3, <2>5, <1>11
  <1>16. ASSUME cut', ~cut
         PROVE  /\ size' >= capacity' - 1
                /\ \A i \in DOMAIN str' :
                     i >= size /\ i < size' - 2 => str'[i] = "text"
    <2>1. n < digits
      BY <1>16, <1>10
    <2>2. QED
      <3>1. size' >= b.capacity - 1 /\ n >= digits - 2
        BY <2>1, <1>9
      <3>2. ASSUME NEW i \in 0..(b.capacity-1), i >= size, i < size' - 2
            PROVE  str'[i] = "text"
        <4>1. size <= i /\ i < size + n
          BY <3>1, <3>2, <1>2, <1>9 DEF TypeOK
        <4>2. QED
          BY <4>1, <1>11
      <3>3. QED
        BY <3>1, <3>2, <1>1, <1>11
  <1>17. QED
    BY <1>12, <1>13, <1>14, <1>15, <1>16 DEF IInv

\* A zeroed buffer of the same capacity.
LEMMA TakeKeeps == IInv /\ sb_takestring => IInv'
  <1> SUFFICES ASSUME IInv, sb_takestring PROVE IInv'
    OBVIOUS
  <1>1. /\ capacity \in Nat \ {0} /\ capacity' = capacity /\ size' = 0
        /\ str' = [i \in 0..(capacity-1) |-> "zero"]
        /\ over' = FALSE
    BY DEF IInv, TypeOK, sb_takestring
  <1>2. TypeOK'
    <2>1. str' \in [0..(capacity-1) -> Byte]
      BY <1>1 DEF Byte
    <2>2. dirty' = FALSE /\ lost' = FALSE /\ cut' = FALSE /\ over' = FALSE
      BY DEF sb_takestring
    <2>3. QED
      BY <1>1, <2>1, <2>2 DEF TypeOK
  <1>3. OneByteBehind' /\ ZeroBehind' /\ TextIsWhole'
    BY <1>1 DEF OneByteBehind, ZeroBehind, TextIsWhole
  <1>4. QED
    BY <1>2, <1>3 DEF IInv

\* Every operation keeps the invariant.
LEMMA InvStep == IInv /\ [Next]_vars => IInv'
  <1> SUFFICES ASSUME IInv, [Next]_vars PROVE IInv'
    OBVIOUS
  <1>1. MaxAppend \in Nat
    BY BoundsAssumption
  <1>2. ASSUME NEW len \in 0..MaxAppend, sb_appends(len) PROVE IInv'
    BY <1>1, <1>2, AppendsKeeps
  <1>3. CASE sb_appendc
    BY <1>3, AppendcKeeps
  <1>4. ASSUME NEW digits \in 1..MaxAppend, sb_appendl(digits) PROVE IInv'
    BY <1>1, <1>4, AppendlStep
  <1>5. CASE sb_takestring
    BY <1>5, TakeKeeps
  <1>6. CASE UNCHANGED vars
    BY <1>6 DEF vars, flags, IInv, TypeOK, OneByteBehind, ZeroBehind, TextIsWhole
  <1>7. QED
    BY <1>2, <1>3, <1>4, <1>5, <1>6 DEF Next

-----------------------------------------------------------------------------
(* The theorems. *)

\* The inductive invariant holds in every reachable state.
THEOREM BuilderInvariant == Spec => []IInv
  <1>1. QED
    BY InvInit, InvStep, PTL DEF Spec

\* Type correctness of the string builder.
THEOREM BuilderTypeCorrect == Spec => []TypeOK
  <1>1. IInv => TypeOK
    BY DEF IInv
  <1>2. QED
    BY <1>1, BuilderInvariant, PTL

\* The text never grows beyond the byte behind the buffer, and nothing is
\* written further out as long as the memory that realloc hands out is zero.
\* That byte is a character of sb_appendc, or the terminator of a text that
\* fits exactly (strcat in sb_appends).
THEOREM BuilderStaysNear == Spec => []OneByteBehind
  <1>1. IInv => OneByteBehind
    BY DEF IInv
  <1>2. QED
    BY <1>1, BuilderInvariant, PTL

\* The text is whole and terminated where there is room for it, unless one of
\* the three named events spoiled it.
THEOREM BuilderTextIsWhole == Spec => []TextIsWhole
  <1>1. IInv => TextIsWhole
    BY DEF IInv
  <1>2. QED
    BY <1>1, BuilderInvariant, PTL

\* sb_appendl loses at most two digits, and these at the end of the buffer.
THEOREM BuilderCutsAtTheEdge == Spec => CutAtTheEdge
  <1> DEFINE A == cut' /\ ~cut =>
                    /\ size' >= capacity' - 1
                    /\ \A i \in DOMAIN str' :
                         i >= size /\ i < size' - 2 => str'[i] = "text"
  <1>1. IInv /\ [Next]_vars => [A]_vars
    <2> SUFFICES ASSUME IInv, Next PROVE A
      OBVIOUS
    <2>1. ASSUME NEW digits \in 1..MaxAppend, sb_appendl(digits) PROVE A
      BY <2>1, AppendlStep, BoundsAssumption
    <2>2. CASE ~\E digits \in 1..MaxAppend : sb_appendl(digits)
      <3>1. cut' = cut \/ cut' = FALSE
        BY <2>2 DEF Next, sb_appends, sb_appendc, sb_takestring
      <3>2. QED
        BY <3>1
    <2>3. QED
      BY <2>1, <2>2
  <1>2. QED
    BY <1>1, BuilderInvariant, PTL DEF Spec, CutAtTheEdge
=============================================================================
