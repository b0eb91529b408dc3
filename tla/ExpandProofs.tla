----------------------------- MODULE ExpandProofs ----------------------------
(***************************************************************************)
(* The two scanners, on lines of any length: the tokens cover the line,    *)
(* the expansion of a word stays in it unless a last backslash leads out   *)
(* and agrees with the lexer on a regular word, and neither loops for ever.*)
(*                                                                         *)
(* The lexer moves its stream and the end of the token side by side: end   *)
(* is ahead by one for each escaped blank, and by no more (Ahead).  That   *)
(* alone bounds end, and tells where a token ends from where it is cut.    *)
(***************************************************************************)
EXTENDS Expand, FiniteSetTheorems, SequenceTheorems, WellFoundedInduction, TLAPS

Flags     == {"unquoted"} \cup Quotes
TokenType == {"word", "assignment", "redir", "pipe", "and", "or", "semi", "amp",
              "paren", "newline", "eof"}
Token     == [type : TokenType, begin : 0..Len(line), end : Nat, stop : 0..Len(line)]

\* Offsets of escaped blanks from b up to p.
Escaped(b, p) == {k \in b..(p - 1) : CharAt(k) = "backslash" /\ CharAt(k + 1) = "blank"}

\* A token that begins at b would end at e when the stream is at p.
Ahead(b, p, e) == b =< p /\ e - p \in 0..Cardinality(Escaped(b, p))

\* Where the scan of the last token stopped.
LastStop == IF tokens = <<>> THEN 0 ELSE tokens[Len(tokens)].stop

\* What lies between the last token and b is blank.
BlankUpTo(b) == LastStop =< b /\ \A j \in LastStop..(b - 1) : CharAt(j) \in Space

\* What TokensCover says of a token behind offset f.
Covers(t, f) ==
    /\ f =< t.begin
    /\ \A j \in f..(t.begin - 1) : CharAt(j) \in Space
    /\ t.type # "eof" => t.begin < t.stop
    /\ t.end - t.stop \in 0..Cardinality(Escaped(t.begin, t.stop))
From(k) == IF k = 1 THEN 0 ELSE tokens[k - 1].stop

LexTypes ==
    /\ line \in Seq(Char)
    /\ pos \in 0..Len(line) /\ begin \in 0..Len(line) /\ end \in Nat
    /\ flag \in Flags
    /\ type \in {"word", "assignment"}
    /\ depth \in Nat
    /\ pc \in {"token", "scan", "sub", "tokenized", "error"}
    /\ toggled \subseteq 0..(Len(line) - 1)
    /\ tokens \in Seq(Token)

\* Where the scan is: between two tokens, or in one.
Where ==
    /\ pc \in {"token", "tokenized"} => pos = LastStop
    /\ pc \in {"scan", "sub"} => BlankUpTo(begin)
    /\ pc = "scan" => pos < Len(line)
    /\ pc = "sub" => begin < pos /\ depth > 0

LexInv == LexTypes /\ Ahead(begin, pos, end) /\ Where /\ TokensCover

\* Where the expansion is: in a word, and not behind its end.
ExpandInv ==
    /\ eflag \in Flags
    /\ removed \subseteq 0..(Len(line) - 1)
    /\ word \in 0..(Len(tokens) + 1)
    /\ i \in 0..(Len(line) + 1)
    /\ epc \in {"lexing", "next", "expand", "done", "overrun"}
    /\ epc = "lexing" => word = 0
    /\ epc # "lexing" => pc = "tokenized"
    /\ epc = "expand" => word \in 1..Len(tokens) /\ IsText(Tok) /\ i \in Tok.begin..WordEnd

IInv == LexInv /\ ExpandInv /\ StaysInWord

-----------------------------------------------------------------------------
(* Characters, and escaped blanks. *)

\* The end of the line is no character of it.
LEMMA CharFacts ==
  ASSUME line \in Seq(Char), NEW k \in Nat
  PROVE  /\ CharAt(k) \in Char <=> k < Len(line)
         /\ CharAt(k) = "end" <=> ~(k < Len(line))
         /\ Len(line) \in Nat
<1>1. "end" \notin Char
  BY DEF Char, Operators, Digits, Space, Quotes
<1>2. k < Len(line) => line[k + 1] \in Char
  <2> SUFFICES ASSUME k < Len(line) PROVE line[k + 1] \in Char
    OBVIOUS
  <2>1. k + 1 \in 1..Len(line)
    OBVIOUS
  <2> QED
    BY <2>1, ElementOfSeq
<1> QED
  BY <1>1, <1>2 DEF CharAt, EOI

\* How many blanks can be escaped in a text.
LEMMA EscapedFacts ==
  ASSUME NEW b \in Nat, NEW p \in Nat, b =< p
  PROVE  /\ IsFiniteSet(Escaped(b, p)) /\ Cardinality(Escaped(b, p)) \in 0..(p - b)
<1>1. IsFiniteSet(b..(p - 1)) /\ Cardinality(b..(p - 1)) = p - b
  <2>1. b \in Int /\ p - 1 \in Int
    OBVIOUS
  <2>2. IsFiniteSet(b..(p - 1))
        /\ Cardinality(b..(p - 1)) = IF b > p - 1 THEN 0 ELSE (p - 1) - b + 1
    BY <2>1, FS_Interval
  <2> QED
    BY <2>2
<1>2. Escaped(b, p) \in SUBSET (b..(p - 1))
  BY DEF Escaped
<1>3. IsFiniteSet(Escaped(b, p)) /\ Cardinality(Escaped(b, p)) =< p - b
  BY <1>1, <1>2, FS_Subset
<1>4. Cardinality(Escaped(b, p)) \in Nat
  BY <1>3, FS_CardinalityType
<1> QED
  BY <1>3, <1>4

\* Side by side the two go on.
LEMMA AheadGoes ==
  ASSUME NEW b \in Nat, NEW p \in Nat, NEW e \in Nat, Ahead(b, p, e), NEW n \in Nat
  PROVE  Ahead(b, p + n, e + n)
<1>1. b =< p /\ b =< p + n /\ p + n \in Nat
  BY DEF Ahead
<1>2. Escaped(b, p) \in SUBSET Escaped(b, p + n)
  BY DEF Escaped
<1>3. Cardinality(Escaped(b, p)) =< Cardinality(Escaped(b, p + n))
  BY <1>1, <1>2, EscapedFacts, FS_Subset
<1>4. Cardinality(Escaped(b, p)) \in Nat /\ Cardinality(Escaped(b, p + n)) \in Nat
  <2>1. Cardinality(Escaped(b, p)) \in 0..(p - b)
    BY <1>1, EscapedFacts
  <2>2. Cardinality(Escaped(b, p + n)) \in 0..((p + n) - b)
    BY <1>1, EscapedFacts
  <2> QED
    BY <2>1, <2>2
<1>5. (e + n) - (p + n) = e - p
  OBVIOUS
<1> QED
  BY <1>1, <1>3, <1>4, <1>5 DEF Ahead

\* An escaped blank takes one character more into the token.
LEMMA AheadOfBlank ==
  ASSUME NEW b \in Nat, NEW p \in Nat, NEW e \in Nat, Ahead(b, p, e),
         CharAt(p) = "backslash", CharAt(p + 1) = "blank"
  PROVE  Ahead(b, p + 1, e + 2)
<1>1. b =< p /\ b =< p + 1
  BY DEF Ahead
<1>2. Escaped(b, p + 1) = Escaped(b, p) \cup {p} /\ p \notin Escaped(b, p)
  <2>1. \A k : k \in b..((p + 1) - 1) <=> k \in b..(p - 1) \/ k = p
    BY <1>1
  <2>2. p \notin b..(p - 1)
    OBVIOUS
  <2> QED
    BY <2>1, <2>2 DEF Escaped
<1>3. Cardinality(Escaped(b, p + 1)) = Cardinality(Escaped(b, p)) + 1
  BY <1>1, <1>2, EscapedFacts, FS_AddElement
<1>4. Cardinality(Escaped(b, p)) \in Nat
  BY <1>1, EscapedFacts
<1>5. (e + 2) - (p + 1) = (e - p) + 1
  OBVIOUS
<1> QED
  BY <1>1, <1>3, <1>4, <1>5 DEF Ahead

\* A token that has not been scanned at all ends where it begins.
LEMMA AheadAtStart ==
  ASSUME NEW b \in Nat, NEW p \in Nat, NEW e \in Nat, Ahead(b, p, e)
  PROVE  /\ e = b <=> p = b
         /\ p =< e /\ e =< 2 * p
<1>1. b =< p /\ Cardinality(Escaped(b, p)) \in 0..(p - b)
  BY EscapedFacts DEF Ahead
<1>2. e - p >= 0 /\ e - p =< p - b
  BY <1>1 DEF Ahead
<1> QED
  BY <1>1, <1>2

-----------------------------------------------------------------------------
(* The lexer. *)

\* What does not change with the line.
LEMMA LineStays ==
  ASSUME line' = line
  PROVE  /\ Token' = Token
         /\ \A k \in Nat : CharAt(k)' = CharAt(k)
         /\ \A b, p : Escaped(b, p)' = Escaped(b, p)
         /\ \A b, p, e : Ahead(b, p, e)' <=> Ahead(b, p, e)
         /\ \A t, f : Covers(t, f)' <=> Covers(t, f)
<1>1. \A k : CharAt(k)' = CharAt(k)
  BY DEF CharAt
<1>2. \A b, p : Escaped(b, p)' = Escaped(b, p)
  BY <1>1 DEF Escaped
<1>3. \A b, p, e : Ahead(b, p, e)' <=> Ahead(b, p, e)
  BY <1>2 DEF Ahead
<1>4. Token' = Token
  BY DEF Token
<1>5. \A t, f : Covers(t, f)' <=> Covers(t, f)
  BY <1>1, <1>2 DEF Covers
<1> QED
  BY <1>1, <1>2, <1>3, <1>4, <1>5

\* Each token of the line is covered.
LEMMA CoverMeans ==
  tokens \in Seq(Token) =>
    (TokensCover <=> \A k \in 1..Len(tokens) : Covers(tokens[k], From(k)))
<1> SUFFICES ASSUME tokens \in Seq(Token)
             PROVE  TokensCover <=> \A k \in 1..Len(tokens) : Covers(tokens[k], From(k))
  OBVIOUS
<1>1. \A t : EscapedBlanks(t) = Escaped(t.begin, t.stop)
  BY DEF EscapedBlanks, Escaped
<1>2. DOMAIN tokens = 1..Len(tokens)
  OBVIOUS
<1> QED
  BY <1>1, <1>2 DEF TokensCover, Covers, From

\* So it is after a step.
LEMMA NextCoverMeans ==
  (tokens \in Seq(Token) =>
    (TokensCover <=> \A k \in 1..Len(tokens) : Covers(tokens[k], From(k))))'
BY CoverMeans, PTL


\* A token is added, behind blanks.
LEMMA EmitKeeps ==
  ASSUME LexInv, line' = line, NEW t \in TokenType, NEW e \in Nat, NEW p \in 0..Len(line),
         NEW b \in 0..Len(line), begin' = b, BlankUpTo(b), Ahead(b, p, e),
         t # "eof" => b < p,
         Emit(t, e, p),
         flag' \in Flags, type' \in {"word", "assignment"}, depth' \in Nat,
         toggled' \subseteq 0..(Len(line) - 1)
  PROVE  LexInv'
<1>r. PICK r : r = [type |-> t, begin |-> b, end |-> e, stop |-> p]
  OBVIOUS
<1>1. /\ tokens' = Append(tokens, r) /\ pos' = p /\ end' = e
      /\ pc' = IF t = "eof" THEN "tokenized" ELSE "token"
  BY <1>r DEF Emit
<1>2. r \in Token /\ r.type = t /\ r.begin = b /\ r.end = e /\ r.stop = p
  BY <1>r DEF Token
<1>3. tokens \in Seq(Token) /\ Len(tokens) \in Nat /\ LexTypes /\ TokensCover
  BY DEF LexInv, LexTypes
<1>4. /\ tokens' \in Seq(Token) /\ Len(tokens') = Len(tokens) + 1
      /\ tokens'[Len(tokens) + 1] = r
      /\ \A k \in 1..Len(tokens) : tokens'[k] = tokens[k]
  BY <1>1, <1>2, <1>3, AppendProperties
<1>5. /\ Token' = Token
      /\ \A x, q, f : Ahead(x, q, f)' <=> Ahead(x, q, f)
      /\ \A u, f : Covers(u, f)' <=> Covers(u, f)
  BY LineStays
<1>6. LexTypes'
  BY <1>1, <1>3, <1>4, <1>5 DEF LexTypes
<1>7. Ahead(begin, pos, end)'
  <2>1. Ahead(b, p, e)'
    BY <1>5
  <2> QED
    BY <1>1, <2>1 DEF Ahead
<1>8. LastStop' = p
  <2>1. tokens' # <<>> /\ tokens'[Len(tokens')] = r
    BY <1>3, <1>4
  <2> QED
    BY <1>2, <2>1 DEF LastStop
<1>9. Where'
  BY <1>1, <1>8 DEF Where
<1>10. TokensCover'
  <2>1. ASSUME NEW k \in 1..Len(tokens') PROVE Covers(tokens'[k], From(k)')
    <3>1. CASE k \in 1..Len(tokens)
      <4>1. tokens'[k] = tokens[k] /\ (k # 1 => tokens'[k - 1] = tokens[k - 1])
        BY <1>4, <3>1
      <4>2. From(k)' = From(k)
        BY <4>1 DEF From
      <4>3. Covers(tokens[k], From(k))
        BY <1>3, <3>1, CoverMeans
      <4> QED
        BY <4>1, <4>2, <4>3
    <3>2. CASE k = Len(tokens) + 1
      <4>1. tokens'[k] = r
        BY <1>4, <3>2
      <4>2. From(k)' = LastStop
        <5>1. CASE Len(tokens) = 0
          BY <1>3, <3>2, <5>1 DEF LastStop, From
        <5>2. CASE Len(tokens) # 0
          <6>1. k - 1 = Len(tokens) /\ k # 1 /\ Len(tokens) \in 1..Len(tokens) /\ tokens # <<>>
            BY <1>3, <3>2, <5>2
          <6> QED
            BY <1>4, <6>1 DEF LastStop, From
        <5> QED
          BY <5>1, <5>2
      <4>3. Covers(r, LastStop)
        BY <1>2 DEF Covers, BlankUpTo, Ahead
      <4> QED
        BY <4>1, <4>2, <4>3
    <3> QED
      BY <1>3, <1>4, <2>1, <3>1, <3>2
  <2>2. \A k \in 1..Len(tokens') : Covers(tokens[k], From(k))'
    <3> SUFFICES ASSUME NEW k \in 1..Len(tokens') PROVE Covers(tokens[k], From(k))'
      OBVIOUS
    <3>1. PICK u, f : u = tokens'[k] /\ f = From(k)'
      OBVIOUS
    <3>2. Covers(u, f)'
      BY <1>5, <2>1, <3>1
    <3> QED
      BY <3>1, <3>2 DEF Covers
  <2> QED
    BY <1>4, <1>5, <2>2, NextCoverMeans
<1> QED
  BY <1>6, <1>7, <1>9, <1>10 DEF LexInv

\* The tokens so far stay, and the scan goes on, or is given up.
LEMMA GoOnKeeps ==
  ASSUME LexInv, line' = line, begin' \in 0..Len(line), tokens' = tokens,
         pc' \in {"scan", "sub", "error"}, pos' \in 0..Len(line), end' \in Nat,
         Ahead(begin, pos, end)',
         pc' # "error" => BlankUpTo(begin)',
         pc' = "scan" => pos' < Len(line),
         pc' = "sub" => begin' < pos' /\ depth' > 0,
         flag' \in Flags, type' \in {"word", "assignment"}, depth' \in Nat,
         toggled' \subseteq 0..(Len(line) - 1)
  PROVE  LexInv'
<1>1. LexTypes /\ TokensCover /\ tokens \in Seq(Token)
  BY DEF LexInv, LexTypes
<1>2. Token' = Token /\ \A u, f : Covers(u, f)' <=> Covers(u, f)
  BY LineStays
<1>3. LexTypes'
  BY <1>1, <1>2 DEF LexTypes
<1>4. Where'
  BY DEF Where
<1>5. TokensCover'
  <2>1. \A k \in 1..Len(tokens) : Covers(tokens[k], From(k))
    BY <1>1, CoverMeans
  <2>2. ASSUME NEW k \in 1..Len(tokens) PROVE Covers(tokens[k], From(k))'
    <3>1. PICK u, f : u = tokens[k] /\ f = From(k)
      OBVIOUS
    <3>2. tokens'[k] = u /\ From(k)' = f
      BY <3>1 DEF From
    <3>3. Covers(u, f)'
      BY <1>2, <2>1, <3>1
    <3> QED
      BY <3>2, <3>3 DEF Covers
  <2> QED
    BY <1>1, <1>2, <2>2, NextCoverMeans
<1> QED
  BY <1>3, <1>4, <1>5 DEF LexInv

\* At the end of a turn the token ends, or the next character is one.
LEMMA EndOfTurnKeeps ==
  ASSUME LexInv, pc \in {"scan", "sub"}, line' = line, begin' = begin,
         NEW ch, NEW f \in Flags, NEW t \in {"word", "assignment"}, NEW e \in Nat,
         NEW p \in 0..Len(line),
         EndOfTurn(ch, f, t, e, p), Ahead(begin, p, e), begin < p,
         ch # "end" => p < Len(line),
         depth' \in Nat, toggled' \subseteq 0..(Len(line) - 1)
  PROVE  LexInv'
<1>1. LexTypes /\ BlankUpTo(begin) /\ Ahead(begin, pos, end)
      /\ begin \in 0..Len(line) /\ pos \in 0..Len(line) /\ end \in Nat
  BY DEF LexInv, Where, LexTypes
<1>2. flag' = f /\ type' = t
  BY DEF EndOfTurn
<1>3. \A b, q, g : Ahead(b, q, g)' <=> Ahead(b, q, g)
  BY LineStays
<1>b. PICK b \in 0..Len(line) : b = begin
  BY <1>1
<1>4. tokens' = tokens => BlankUpTo(begin)'
  BY <1>1 DEF BlankUpTo, LastStop, CharAt
<1>5. CASE ~lx_end_of_token(ch, f)
  <2>1. pos' = p /\ end' = e /\ pc' = "scan" /\ tokens' = tokens /\ ch # "end"
    BY <1>5 DEF EndOfTurn, lx_end_of_token, EOI
  <2>2. Ahead(begin, pos, end)'
    <3>1. Ahead(b, p, e)'
      BY <1>3, <1>b
    <3> QED
      BY <1>b, <2>1, <3>1 DEF Ahead
  <2> QED
    BY <1>1, <1>2, <1>4, <2>1, <2>2, GoOnKeeps
<1>6. CASE lx_end_of_token(ch, f) /\ f = "unquoted"
  <2>1. Emit(t, e, p)
    BY <1>6 DEF EndOfTurn
  <2>2. t \in TokenType
    BY DEF TokenType
  <2> QED
    BY <1>1, <1>2, <1>b, <2>1, <2>2, EmitKeeps
<1>7. CASE lx_end_of_token(ch, f) /\ f # "unquoted"
  <2>1. pc' = "error" /\ pos' = pos /\ end' = end /\ tokens' = tokens
    BY <1>7 DEF EndOfTurn, Fail
  <2>2. Ahead(begin, pos, end)'
    <3>1. PICK q, g : q = pos /\ g = end
      OBVIOUS
    <3>2. Ahead(b, q, g)'
      BY <1>1, <1>3, <1>b, <3>1
    <3> QED
      BY <1>b, <2>1, <3>1, <3>2 DEF Ahead
  <2> QED
    BY <1>1, <1>2, <2>1, <2>2, GoOnKeeps
<1> QED
  BY <1>5, <1>6, <1>7

\* The entry of lx_scan keeps the invariant.
LEMMA StartTokenKeeps ==
  ASSUME LexInv, StartToken
  PROVE  LexInv'
<1>1. /\ LexTypes /\ pc = "token" /\ pos = LastStop /\ line' = line /\ depth' = depth
      /\ toggled' = toggled /\ flag' = "unquoted" /\ type' = "word"
      /\ pos \in 0..Len(line) /\ Len(line) \in Nat /\ depth \in Nat
      /\ toggled \subseteq 0..(Len(line) - 1) /\ line \in Seq(Char)
  BY DEF LexInv, Where, StartToken, LexTypes
<1>2. flag' \in Flags /\ type' \in {"word", "assignment"}
  BY <1>1 DEF Flags
<1>3. ASSUME NEW k \in 0..Len(line) PROVE Ahead(k, k, k)
  BY <1>3, EscapedFacts DEF Ahead
<1>4. CASE c = "newline"
  <2>1. pos < Len(line)
    <3>1. CharAt(pos) \in Char
      BY <1>4 DEF c, Char, Space
    <3> QED
      BY <1>1, <3>1, CharFacts
  <2>2. begin' = pos /\ Emit("newline", pos + 1, pos + 1)
    BY <1>4 DEF StartToken
  <2>3. Ahead(pos, pos + 1, pos + 1)
    <3>1. pos \in Nat /\ Ahead(pos, pos, pos) /\ 1 \in Nat
      BY <1>1, <1>3
    <3> QED
      BY <3>1, AheadGoes
  <2>4. BlankUpTo(pos)
    BY <1>1 DEF BlankUpTo
  <2>b. PICK b \in 0..Len(line) : b = pos
    BY <1>1
  <2>5. "newline" \in TokenType /\ pos + 1 \in 0..Len(line) /\ pos + 1 \in Nat /\ b < pos + 1
    BY <1>1, <2>1, <2>b DEF TokenType
  <2> QED
    BY <1>1, <1>2, <2>2, <2>3, <2>4, <2>5, <2>b, EmitKeeps
<1>5. CASE c # "newline"
  <2>1. PICK k \in pos..Len(line) :
          /\ CharAt(k) \notin Space
          /\ \A j \in pos..(k - 1) : CharAt(j) \in Space
          /\ begin' = k
          /\ IF CharAt(k) = "end" THEN Emit("eof", k, k)
             ELSE pos' = k /\ end' = k /\ pc' = "scan" /\ tokens' = tokens
    BY <1>5 DEF StartToken, AfterBlanks, EOI
  <2>2. k \in 0..Len(line) /\ k \in Nat /\ BlankUpTo(k) /\ Ahead(k, k, k)
    BY <1>1, <1>3, <2>1 DEF BlankUpTo
  <2>3. CASE CharAt(k) = "end"
    <3>1. "eof" \in TokenType
      BY DEF TokenType
    <3> QED
      BY <1>1, <1>2, <2>1, <2>2, <2>3, <3>1, EmitKeeps
  <2>4. CASE CharAt(k) # "end"
    <3>1. pos' = k /\ end' = k /\ pc' = "scan" /\ tokens' = tokens /\ begin' = k
      BY <2>1, <2>4
    <3>2. k < Len(line)
      BY <1>1, <2>2, <2>4, CharFacts
    <3>3. Ahead(begin, pos, end)' /\ BlankUpTo(begin)'
      BY <1>1, <2>2, <3>1 DEF Ahead, Escaped, CharAt, BlankUpTo, LastStop
    <3> QED
      BY <1>1, <1>2, <2>2, <3>1, <3>2, <3>3, GoOnKeeps
  <2> QED
    BY <2>3, <2>4
<1> QED
  BY <1>4, <1>5

\* In a token: what every turn finds.
LEMMA InToken ==
  ASSUME LexInv, pc \in {"scan", "sub"}
  PROVE  /\ LexTypes /\ BlankUpTo(begin) /\ Ahead(begin, pos, end)
         /\ line \in Seq(Char) /\ Len(line) \in Nat /\ begin \in 0..Len(line) /\ begin \in Nat
         /\ pos \in 0..Len(line) /\ pos \in Nat /\ end \in Nat /\ begin =< pos
         /\ end = begin <=> pos = begin
         /\ pc = "scan" => pos < Len(line)
         /\ flag \in Flags /\ type \in {"word", "assignment"} /\ depth \in Nat
         /\ toggled \subseteq 0..(Len(line) - 1)
         /\ \A n \in Nat : Ahead(begin, pos + n, end + n)
         /\ c = CharAt(pos) /\ nextc = CharAt(pos + 1)
<1>1. /\ LexTypes /\ BlankUpTo(begin) /\ Ahead(begin, pos, end)
      /\ line \in Seq(Char) /\ Len(line) \in Nat /\ begin \in 0..Len(line) /\ begin \in Nat
      /\ pos \in 0..Len(line) /\ pos \in Nat /\ end \in Nat
      /\ pc = "scan" => pos < Len(line)
      /\ flag \in Flags /\ type \in {"word", "assignment"} /\ depth \in Nat
      /\ toggled \subseteq 0..(Len(line) - 1)
  BY DEF LexInv, LexTypes, Where
<1>2. begin =< pos
  BY <1>1 DEF Ahead
<1>3. end = begin <=> pos = begin
  BY <1>1, AheadAtStart
<1>4. \A n \in Nat : Ahead(begin, pos + n, end + n)
  BY <1>1, AheadGoes
<1> QED
  BY <1>1, <1>2, <1>3, <1>4 DEF c, nextc

\* A word ends before an operator, and an operator behind its characters.
LEMMA OperatorKeeps ==
  ASSUME LexInv, Scan, Operator \/ NumberedOperator
  PROVE  LexInv'
<1>1. pc = "scan" /\ line' = line /\ begin' = begin
  BY DEF Scan
<1>2. flag' = flag /\ type' = type /\ depth' = depth /\ toggled' = toggled
  BY DEF Operator, NumberedOperator
<1>3. \A k : OperatorType(k) \in TokenType \ {"eof"}
  BY DEF OperatorType, TokenType
<1>4. ASSUME NEW k \in Nat, k < Len(line)
      PROVE  OperatorLength(k) \in {1, 2} /\ k + OperatorLength(k) =< Len(line)
  <2>1. CharAt(k) \in {"|", "&", "<", ">"} /\ CharAt(k + 1) = CharAt(k) => k + 1 < Len(line)
    <3>1. \A ch \in {"|", "&", "<", ">"} : ch # "end"
      OBVIOUS
    <3> QED
      BY <1>1, <1>4, <3>1, InToken, CharFacts
  <2>2. OperatorLength(k) \in {1, 2}
    BY DEF OperatorLength
  <2>3. OperatorLength(k) = 2 => k + 1 < Len(line)
    BY <2>1 DEF OperatorLength
  <2>4. k + 1 =< Len(line) /\ Len(line) \in Nat
    BY <1>1, <1>4, InToken
  <2>5. CASE OperatorLength(k) = 1
    BY <2>4, <2>5
  <2>6. CASE OperatorLength(k) = 2
    BY <2>3, <2>4, <2>6
  <2> QED
    BY <2>2, <2>5, <2>6
<1>t. /\ pos \in Nat /\ end \in Nat /\ Len(line) \in Nat /\ pos < Len(line) /\ begin =< pos
      /\ begin \in 0..Len(line) /\ BlankUpTo(begin) /\ Ahead(begin, pos, end)
      /\ \A n \in Nat : Ahead(begin, pos + n, end + n)
      /\ flag \in Flags /\ type \in {"word", "assignment"} /\ depth \in Nat
      /\ toggled \subseteq 0..(Len(line) - 1)
  BY <1>1, InToken
<1>b. PICK b \in 0..Len(line) : b = begin
  BY <1>t
<1>5. CASE Operator /\ AtStart
  <2>1. PICK n : n = OperatorLength(pos)
    OBVIOUS
  <2>2. Emit(OperatorType(pos), end + n, pos + n)
    BY <1>5, <2>1 DEF Operator
  <2>3. n \in {1, 2} /\ pos + n =< Len(line)
    BY <1>4, <1>t, <2>1
  <2>4. Ahead(b, pos + n, end + n)
    BY <1>b, <1>t, <2>3
  <2>5. pos + n \in 0..Len(line) /\ end + n \in Nat /\ b < pos + n
    BY <1>b, <1>t, <2>3
  <2>6. PICK t \in TokenType \ {"eof"} : t = OperatorType(pos)
    BY <1>3
  <2> QED
    BY <1>1, <1>2, <1>b, <1>t, <2>2, <2>4, <2>5, <2>6, EmitKeeps
<1>6. CASE Operator /\ ~AtStart
  <2>1. Emit(type, end, pos) /\ begin < pos
    <3>1. pos # begin
      BY <1>1, <1>6, InToken DEF AtStart
    <3> QED
      BY <1>6, <1>t, <3>1 DEF Operator
  <2>2. type \in TokenType
    BY <1>t DEF TokenType
  <2> QED
    BY <1>1, <1>2, <1>b, <1>t, <2>1, <2>2, EmitKeeps
<1>7. CASE NumberedOperator
  <2>1. PICK m : m = OperatorLength(pos + 1)
    OBVIOUS
  <2>2. Emit("redir", end + 1 + m, pos + 1 + m) /\ nextc \in {"<", ">"}
    BY <1>7, <2>1 DEF NumberedOperator
  <2>3. pos + 1 < Len(line)
    <3>1. nextc # "end" /\ nextc = CharAt(pos + 1) /\ line \in Seq(Char)
      BY <1>1, <2>2, InToken
    <3>2. pos + 1 \in Nat
      BY <1>t
    <3> QED
      BY <3>1, <3>2, CharFacts
  <2>4. m \in {1, 2} /\ pos + 1 + m =< Len(line)
    <3>1. pos + 1 \in Nat
      BY <1>t
    <3> QED
      BY <1>4, <2>1, <2>3, <3>1
  <2>5. PICK n \in Nat : n = 1 + m
    BY <2>4
  <2>6. end + 1 + m = end + n /\ pos + 1 + m = pos + n
    BY <1>t, <2>4, <2>5
  <2>7. Ahead(b, pos + n, end + n)
    BY <1>b, <1>t
  <2>8. pos + n \in 0..Len(line) /\ end + n \in Nat /\ b < pos + n
    BY <1>b, <1>t, <2>4, <2>5
  <2>9. "redir" \in TokenType /\ Emit("redir", end + n, pos + n)
    BY <2>2, <2>6 DEF TokenType
  <2> QED
    BY <1>1, <1>2, <1>b, <1>t, <2>7, <2>8, <2>9, EmitKeeps
<1> QED
  BY <1>5, <1>6, <1>7

\* The step into a substitution.
LEMMA SubstitutionKeeps ==
  ASSUME LexInv, Scan, Substitution
  PROVE  LexInv'
<1>1. /\ pc = "scan" /\ line' = line /\ begin' = begin /\ pc' = "sub" /\ depth' = 1
      /\ flag' = flag /\ type' = type /\ tokens' = tokens /\ toggled' = toggled
  BY DEF Scan, Substitution
<1>2. PICK n : n = IF c = "$" THEN 2 ELSE 1
  OBVIOUS
<1>3. n \in {1, 2} /\ pos' = pos + n /\ end' = end + n
  BY <1>2 DEF Substitution
<1>t. /\ pos \in Nat /\ end \in Nat /\ Len(line) \in Nat /\ pos < Len(line) /\ begin =< pos
      /\ begin \in 0..Len(line) /\ BlankUpTo(begin) /\ line \in Seq(Char)
      /\ \A m \in Nat : Ahead(begin, pos + m, end + m)
      /\ flag \in Flags /\ type \in {"word", "assignment"} /\ nextc = CharAt(pos + 1)
      /\ toggled \subseteq 0..(Len(line) - 1)
  BY <1>1, InToken
<1>4. pos + n =< Len(line)
  <2>1. CASE n = 1
    BY <1>t, <2>1
  <2>2. CASE n = 2
    <3>1. nextc = "("
      <4>1. c # "grave"
        BY <1>2, <2>2
      <4> QED
        BY <4>1 DEF Substitution, OpensSubstitution
    <3>2. CharAt(pos + 1) # "end" /\ pos + 1 \in Nat
      BY <1>t, <3>1
    <3>3. pos + 1 < Len(line)
      BY <1>t, <3>2, CharFacts
    <3> QED
      BY <1>t, <2>2, <3>3
  <2> QED
    BY <1>3, <2>1, <2>2
<1>b. PICK b \in 0..Len(line) : b = begin
  BY <1>t
<1>5. n \in Nat /\ pos + n \in 0..Len(line) /\ end + n \in Nat /\ b < pos + n
  BY <1>3, <1>4, <1>b, <1>t
<1>6. Ahead(begin, pos, end)'
  <2>1. Ahead(b, pos + n, end + n)
    BY <1>b, <1>t, <1>5
  <2> QED
    BY <1>1, <1>3, <1>b, <2>1 DEF Ahead, Escaped, CharAt
<1>7. BlankUpTo(begin)'
  BY <1>1, <1>t DEF BlankUpTo, LastStop, CharAt
<1> QED
  BY <1>1, <1>3, <1>5, <1>6, <1>7, <1>b, <1>t, GoOnKeeps

\* The loop goes on only behind a character, so a turn that passes one character
\* stays in the line.
LEMMA TurnKeeps ==
  ASSUME LexInv, pc \in {"scan", "sub"}, line' = line, begin' = begin, pos < Len(line),
         NEW ch, NEW f \in Flags, NEW t \in {"word", "assignment"}, NEW e \in Nat,
         EndOfTurn(ch, f, t, e, pos + 1), Ahead(begin, pos + 1, e),
         ch # "end" => pos + 1 < Len(line),
         depth' \in Nat, toggled' \subseteq 0..(Len(line) - 1)
  PROVE  LexInv'
<1>1. /\ pos \in Nat /\ Len(line) \in Nat /\ begin \in Nat /\ begin =< pos
  BY InToken
<1>2. PICK p : p = pos + 1
  OBVIOUS
<1>3. p \in 0..Len(line) /\ begin < p
  BY <1>1, <1>2
<1>4. EndOfTurn(ch, f, t, e, p) /\ Ahead(begin, p, e) /\ (ch # "end" => p < Len(line))
  BY <1>2
<1> QED
  BY <1>3, <1>4, EndOfTurnKeeps

\* The step over a backslash and what it escapes.
LEMMA BackslashKeeps ==
  ASSUME LexInv, Scan, Backslash
  PROVE  LexInv'
<1>1. /\ pc = "scan" /\ line' = line /\ begin' = begin /\ depth' = depth /\ toggled' = toggled
      /\ flag = "unquoted" /\ c = "backslash" /\ nextc \in {"n", "blank"} \cup Quotes
  BY DEF Scan, Backslash, Escapes, Unquoted
<1>t. /\ pos \in Nat /\ end \in Nat /\ Len(line) \in Nat /\ pos < Len(line) /\ begin =< pos
      /\ begin \in 0..Len(line) /\ BlankUpTo(begin) /\ line \in Seq(Char)
      /\ Ahead(begin, pos, end) /\ \A m \in Nat : Ahead(begin, pos + m, end + m)
      /\ flag \in Flags /\ type \in {"word", "assignment"} /\ depth \in Nat
      /\ c = CharAt(pos) /\ nextc = CharAt(pos + 1)
      /\ toggled \subseteq 0..(Len(line) - 1)
  BY <1>1, InToken
<1>b. PICK b \in 0..Len(line) : b = begin
  BY <1>t
<1>2. pos + 1 \in 0..Len(line) /\ pos + 1 \in Nat /\ end + 1 \in Nat /\ end + 2 \in Nat
      /\ begin < pos + 1
  BY <1>t
<1>3. Ahead(begin, pos + 1, end + 1)
  BY <1>t
<1>4. pos + 1 < Len(line)
  <2>1. CharAt(pos + 1) # "end"
    BY <1>1, <1>t DEF Quotes
  <2> QED
    BY <1>2, <1>t, <2>1, CharFacts
<1>5. CASE nextc = "n" /\ Emit("newline", end + 1, pos + 1) /\ UNCHANGED <<flag, type>>
  <2>1. "newline" \in TokenType /\ flag' \in Flags /\ type' \in {"word", "assignment"}
    BY <1>5, <1>t DEF TokenType
  <2> QED
    BY <1>1, <1>2, <1>3, <1>5, <1>b, <1>t, <2>1, EmitKeeps
<1>6. CASE nextc \in Quotes /\ EndOfTurn(nextc, flag, type, end + 1, pos + 1)
  BY <1>1, <1>2, <1>3, <1>4, <1>6, <1>t, TurnKeeps
<1>7. CASE nextc = "blank" /\ EndOfTurn(CharAt(pos + 2), flag, type, end + 2, pos + 1)
  <2>1. Ahead(begin, pos + 1, end + 2)
    <3>1. begin \in Nat /\ CharAt(pos) = "backslash" /\ CharAt(pos + 1) = "blank"
      BY <1>1, <1>7, <1>t
    <3> QED
      BY <1>t, <3>1, AheadOfBlank
  <2> QED
    BY <1>1, <1>2, <1>4, <1>7, <1>t, <2>1, TurnKeeps
<1> QED
  BY <1>5, <1>6, <1>7 DEF Backslash

\* The step over any other character.
LEMMA OrdinaryKeeps ==
  ASSUME LexInv, Scan, Ordinary
  PROVE  LexInv'
<1>1. pc = "scan" /\ line' = line /\ begin' = begin /\ depth' = depth
  BY DEF Scan, Ordinary
<1>t. /\ pos \in Nat /\ end \in Nat /\ Len(line) \in Nat /\ pos < Len(line)
      /\ line \in Seq(Char) /\ \A m \in Nat : Ahead(begin, pos + m, end + m)
      /\ flag \in Flags /\ type \in {"word", "assignment"} /\ depth \in Nat
      /\ nextc = CharAt(pos + 1) /\ toggled \subseteq 0..(Len(line) - 1)
  BY <1>1, InToken
<1>2. PICK f \in Flags : f = toggle_flag(c, flag)
  BY <1>t DEF toggle_flag, Flags
<1>3. PICK t \in {"word", "assignment"} : t = IF c = "=" THEN "assignment" ELSE type
  BY <1>t
<1>4. EndOfTurn(nextc, f, t, end + 1, pos + 1)
  BY <1>2, <1>3 DEF Ordinary
<1>5. nextc # "end" => pos + 1 < Len(line)
  <2>1. pos + 1 \in Nat
    BY <1>t
  <2> QED
    BY <1>t, <2>1, CharFacts
<1>6. toggled' \subseteq 0..(Len(line) - 1)
  <2>1. pos \in 0..(Len(line) - 1)
    BY <1>t
  <2> QED
    BY <1>t, <2>1 DEF Ordinary
<1>7. Ahead(begin, pos + 1, end + 1) /\ end + 1 \in Nat
  BY <1>t
<1> QED
  BY <1>1, <1>4, <1>5, <1>6, <1>7, <1>t, TurnKeeps

\* A turn of the loop over a substitution.
LEMMA ScanSubstitutionKeeps ==
  ASSUME LexInv, ScanSubstitution
  PROVE  LexInv'
<1>1. pc = "sub" /\ line' = line /\ begin' = begin /\ toggled' = toggled
  BY DEF ScanSubstitution
<1>t. /\ pos \in 0..Len(line) /\ pos \in Nat /\ end \in Nat /\ Len(line) \in Nat
      /\ begin \in 0..Len(line) /\ begin < pos /\ BlankUpTo(begin) /\ line \in Seq(Char)
      /\ Ahead(begin, pos, end) /\ \A m \in Nat : Ahead(begin, pos + m, end + m)
      /\ flag \in Flags /\ type \in {"word", "assignment"} /\ depth \in Nat /\ depth > 0
      /\ c = CharAt(pos) /\ nextc = CharAt(pos + 1) /\ toggled \subseteq 0..(Len(line) - 1)
  BY <1>1, InToken DEF LexInv, Where
<1>b. PICK b \in 0..Len(line) : b = begin
  BY <1>t
<1>2. depth' \in Nat
  <2>1. \/ depth' = depth - 1
        \/ depth' = depth + 1
        \/ depth' = depth
    BY DEF ScanSubstitution
  <2> QED
    BY <1>t, <2>1
<1>3. BlankUpTo(begin)' \/ tokens' # tokens
  BY <1>1, <1>t DEF BlankUpTo, LastStop, CharAt
<1>4. CASE c = EOI
  <2>1. /\ pc' = "error" /\ pos' = pos /\ end' = end /\ tokens' = tokens
        /\ flag' = flag /\ type' = type
    BY <1>4 DEF ScanSubstitution, Fail
  <2>2. Ahead(begin, pos, end)'
    BY <1>1, <1>t, <2>1 DEF Ahead, Escaped, CharAt
  <2> QED
    BY <1>1, <1>2, <1>t, <2>1, <2>2, GoOnKeeps
<1>5. CASE c # EOI
  <2>1. pos < Len(line) /\ pos + 1 \in Nat
    BY <1>5, <1>t, CharFacts DEF EOI
  <2>2. Ahead(begin, pos + 1, end + 1) /\ end + 1 \in Nat
    BY <1>t
  <2>3. CASE depth' = 0
    <3>1. EndOfTurn(nextc, flag, type, end + 1, pos + 1)
      BY <1>5, <2>3 DEF ScanSubstitution
    <3>2. nextc # "end" => pos + 1 < Len(line)
      BY <1>t, <2>1, CharFacts
    <3> QED
      BY <1>1, <1>2, <1>t, <2>1, <2>2, <3>1, <3>2, TurnKeeps
  <2>4. CASE depth' # 0
    <3>1. /\ pos' = pos + 1 /\ end' = end + 1 /\ pc' = pc /\ tokens' = tokens
          /\ flag' = flag /\ type' = type
      BY <1>5, <2>4 DEF ScanSubstitution
    <3>2. Ahead(begin, pos, end)'
      BY <1>1, <2>2, <3>1 DEF Ahead, Escaped, CharAt
    <3>3. pos' \in 0..Len(line) /\ end' \in Nat /\ begin' < pos' /\ depth' > 0
          /\ begin' \in 0..Len(line)
      BY <1>1, <1>2, <1>t, <2>1, <2>4, <3>1
    <3>4. flag' \in Flags /\ type' \in {"word", "assignment"} /\ BlankUpTo(begin)'
          /\ toggled' \subseteq 0..(Len(line) - 1) /\ pc' = "sub"
      BY <1>1, <1>3, <1>t, <3>1
    <3> QED
      BY <1>1, <1>2, <3>1, <3>2, <3>3, <3>4, GoOnKeeps
  <2> QED
    BY <2>3, <2>4
<1> QED
  BY <1>4, <1>5

\* Every step of the lexer keeps the invariant.
LEMMA LexKeeps ==
  ASSUME LexInv, lx_tokenize
  PROVE  LexInv'
<1>1. CASE Scan
  <2>1. Operator \/ NumberedOperator \/ Substitution \/ Backslash \/ Ordinary
    BY <1>1 DEF Scan
  <2> QED
    BY <1>1, <2>1, OperatorKeeps, SubstitutionKeeps, BackslashKeeps, OrdinaryKeeps
<1> QED
  BY <1>1, StartTokenKeeps, ScanSubstitutionKeeps DEF lx_tokenize

-----------------------------------------------------------------------------
(* The expansion. *)

\* A set of numbers has a least element, which Min gives.
LEMMA MinInSet ==
  ASSUME NEW S \in SUBSET Nat, S # {}
  PROVE  Min(S) \in S /\ \A y \in S : Min(S) =< y
<1>1. PICK x \in S : \A y \in S : ~ (<<y, x>> \in OpToRel(<, Nat))
  BY NatLessThanWellFounded, WFMin, Zenon
<1>2. \A y, z \in Nat : y < z => <<y, z>> \in OpToRel(<, Nat)
  BY Zenon DEF OpToRel
<1>3. \A y \in S : x =< y
  <2> SUFFICES ASSUME NEW y \in S PROVE x =< y
    OBVIOUS
  <2>1. ~ (y < x)
    BY <1>1, <1>2, Zenon
  <2> QED
    BY <2>1
<1> QED
  BY <1>3 DEF Min

\* In a word: it has a character at least, and ends with the line at the latest.
LEMMA InWord ==
  ASSUME LexInv, ExpandInv, epc = "expand"
  PROVE  /\ pc = "tokenized" /\ word \in 1..Len(tokens) /\ IsText(Tok) /\ Len(line) \in Nat
         /\ Tok.begin \in Nat /\ WordEnd \in Nat /\ Tok.begin < WordEnd /\ WordEnd =< Len(line)
         /\ i \in Nat /\ Tok.begin =< i /\ i =< WordEnd
         /\ \A k \in Nat : At(k) = "nul" <=> ~(k < WordEnd)
<1>1. /\ pc = "tokenized" /\ word \in 1..Len(tokens) /\ IsText(Tok)
      /\ i \in Tok.begin..WordEnd /\ line \in Seq(Char) /\ tokens \in Seq(Token)
  BY DEF ExpandInv, LexInv, LexTypes
<1>2. Tok \in Token
  BY <1>1, ElementOfSeq DEF Tok
<1>3. Tok.begin \in Nat /\ Tok.stop \in Nat /\ Tok.end \in Nat /\ Len(line) \in Nat
      /\ Tok.stop =< Len(line) /\ Tok.begin =< Len(line)
  BY <1>1, <1>2 DEF Token
<1>4. Tok.begin < Tok.stop /\ Tok.stop =< Tok.end
  <2>1. Covers(tokens[word], From(word))
    BY <1>1, CoverMeans DEF LexInv
  <2>2. Tok.type # "eof"
    BY <1>1 DEF IsText
  <2>3. Tok.begin < Tok.stop /\ Tok.end - Tok.stop \in 0..Cardinality(Escaped(Tok.begin, Tok.stop))
    BY <2>1, <2>2 DEF Covers, Tok
  <2>4. Tok.end - Tok.stop >= 0
    <3>1. Cardinality(Escaped(Tok.begin, Tok.stop)) \in 0..(Tok.stop - Tok.begin)
      <4>1. Tok.begin =< Tok.stop
        BY <1>3, <2>3
      <4> QED
        BY <1>3, <4>1, EscapedFacts
    <3> QED
      BY <1>3, <2>3, <3>1
  <2> QED
    BY <1>3, <2>3, <2>4
<1>5. WordEnd \in Nat /\ Tok.begin < WordEnd /\ WordEnd =< Len(line)
  BY <1>3, <1>4 DEF WordEnd
<1>6. \A k \in Nat : At(k) = "nul" <=> ~(k < WordEnd)
  <2> SUFFICES ASSUME NEW k \in Nat PROVE At(k) = "nul" <=> ~(k < WordEnd)
    OBVIOUS
  <2>1. "nul" \notin Char
    BY DEF Char, Operators, Digits, Space, Quotes
  <2>2. k < WordEnd => CharAt(k) \in Char
    BY <1>1, <1>3, <1>5, CharFacts
  <2> QED
    BY <2>1, <2>2 DEF At, NUL
<1> QED
  BY <1>1, <1>3, <1>5, <1>6

\* The search for a character stays in the word.
LEMMA FindFacts ==
  ASSUME LexInv, ExpandInv, epc = "expand", NEW k \in Nat, k =< WordEnd, NEW S
  PROVE  Find(k, S) \in k..WordEnd
<1>t. WordEnd \in Nat
  BY InWord
<1> DEFINE T == {e \in k..WordEnd : e = WordEnd \/ At(e) \in S}
<1>1. T \in SUBSET Nat /\ WordEnd \in T
  BY <1>t
<1>2. PICK e : e = Min(T)
  OBVIOUS
<1>3. e \in T /\ \A y \in T : e =< y
  BY <1>1, <1>2, MinInSet
<1>4. \A j \in k..(e - 1) : At(j) \notin S
  <2> SUFFICES ASSUME NEW j \in k..(e - 1), At(j) \in S PROVE FALSE
    OBVIOUS
  <2>1. j \in k..WordEnd /\ ~(e =< j)
    BY <1>t, <1>3
  <2> QED
    BY <1>3, <2>1
<1> QED
  BY <1>3, <1>4 DEF Find

\* The lexer has nothing to do with the expansion.
LEMMA LexerStays ==
  ASSUME LexInv, UNCHANGED lexer
  PROVE  /\ LexInv'
         /\ line' = line /\ pc' = pc /\ tokens' = tokens
         /\ \A k : CharAt(k)' = CharAt(k)
<1>1. /\ line' = line /\ pos' = pos /\ begin' = begin /\ end' = end /\ flag' = flag
      /\ type' = type /\ depth' = depth /\ pc' = pc /\ tokens' = tokens /\ toggled' = toggled
  BY DEF lexer
<1>2. LexTypes'
  BY <1>1 DEF LexInv, LexTypes, Token
<1>3. Ahead(begin, pos, end)'
  BY <1>1 DEF LexInv, Ahead, Escaped, CharAt
<1>4. Where'
  BY <1>1 DEF LexInv, Where, BlankUpTo, LastStop, CharAt
<1>5. \A k : CharAt(k)' = CharAt(k)
  BY <1>1 DEF CharAt
<1>6. TokensCover'
  <2>1. \A t : EscapedBlanks(t)' = EscapedBlanks(t)
    BY <1>5 DEF EscapedBlanks
  <2>2. TokensCover
    BY DEF LexInv
  <2> QED
    BY <1>1, <1>5, <2>1, <2>2 DEF TokensCover
<1> QED
  BY <1>1, <1>2, <1>3, <1>4, <1>5, <1>6 DEF LexInv

\* So nothing of the word changes with a step of its expansion.
LEMMA WordStays ==
  ASSUME IInv, epc = "expand", UNCHANGED <<lexer, word>>
  PROVE  /\ LexInv' /\ line' = line /\ pc' = "tokenized" /\ word' = word
         /\ word' \in 0..(Len(tokens') + 1) /\ word' \in 1..Len(tokens')
         /\ Tok' = Tok /\ WordEnd' = WordEnd /\ IsText(Tok)'
         /\ \A k : At(k)' = At(k)
<1>1. /\ LexInv' /\ line' = line /\ pc' = pc /\ tokens' = tokens /\ word' = word
      /\ \A k : CharAt(k)' = CharAt(k)
  BY LexerStays DEF IInv
<1>2. word \in 1..Len(tokens) /\ IsText(Tok) /\ pc = "tokenized"
  BY InWord DEF IInv
<1>3. Tok' = Tok
  BY <1>1 DEF Tok
<1>4. WordEnd' = WordEnd
  BY <1>1, <1>3 DEF WordEnd
<1>5. \A k : At(k)' = At(k)
  BY <1>1, <1>4 DEF At
<1>6. IsText(Tok)'
  BY <1>2, <1>3 DEF IsText
<1>7. tokens \in Seq(Token)
  BY DEF IInv, LexInv, LexTypes
<1>8. word' \in 0..(Len(tokens') + 1)
  <2>1. Len(tokens) \in Nat
    BY <1>7
  <2> QED
    BY <1>1, <1>2, <2>1
<1> QED
  BY <1>1, <1>2, <1>3, <1>4, <1>5, <1>6, <1>8

\* The loop goes on at a place in the word.
LEMMA GoOnStays ==
  ASSUME IInv, epc = "expand", UNCHANGED <<lexer, word>>, NEW k \in i..WordEnd, GoOn(k),
         eflag' \in Flags, removed' \subseteq 0..(Len(line) - 1)
  PROVE  IInv'
<1>1. /\ LexInv' /\ line' = line /\ pc' = "tokenized" /\ word' \in 0..(Len(tokens') + 1)
      /\ word' \in 1..Len(tokens') /\ Tok' = Tok /\ WordEnd' = WordEnd /\ IsText(Tok)'
  BY WordStays
<1>2. i' = k /\ epc' = "expand"
  BY DEF GoOn
<1>3. /\ Len(line) \in Nat /\ Tok.begin \in Nat /\ WordEnd \in Nat /\ WordEnd =< Len(line)
      /\ i \in Nat /\ Tok.begin =< i
  BY InWord DEF IInv
<1>4. i' \in 0..(Len(line) + 1) /\ i' \in Tok.begin..WordEnd
  BY <1>2, <1>3
<1>5. ExpandInv'
  BY <1>1, <1>2, <1>4 DEF ExpandInv
<1>6. StaysInWord'
  BY <1>2 DEF StaysInWord
<1> QED
  BY <1>1, <1>5, <1>6 DEF IInv

\* Every step of expand_word keeps the invariant.
LEMMA ExpandWordKeeps ==
  ASSUME IInv, expand_word
  PROVE  IInv'
<1>1. epc = "expand" /\ UNCHANGED <<lexer, word>>
  BY DEF expand_word
<1>2. LexInv /\ ExpandInv /\ eflag \in Flags /\ removed \subseteq 0..(Len(line) - 1)
  BY DEF IInv, ExpandInv
<1>t. /\ Len(line) \in Nat /\ Tok.begin \in Nat /\ WordEnd \in Nat /\ Tok.begin < WordEnd
      /\ WordEnd =< Len(line) /\ i \in Nat /\ i =< WordEnd
      /\ \A k \in Nat : At(k) = "nul" <=> ~(k < WordEnd)
  BY <1>1, <1>2, InWord
<1>3. At(i) # "nul" => i < WordEnd /\ i + 1 \in i..WordEnd /\ i \in 0..(Len(line) - 1)
  <2>1. At(i) # "nul" => i < WordEnd
    BY <1>t
  <2> QED
    BY <1>t, <2>1
<1>4. At(i + 1) # "nul" => i + 2 \in i..WordEnd
  <2>1. i + 1 \in Nat
    BY <1>t
  <2>2. At(i + 1) # "nul" => i + 1 < WordEnd
    BY <1>t, <2>1
  <2> QED
    BY <1>t, <2>2
<1>5. ASSUME NEW k \in i..WordEnd, NEW S
      PROVE  /\ Find(k, S) \in i..WordEnd
             /\ At(Find(k, S)) # "nul" => Find(k, S) + 1 \in i..WordEnd
  <2>1. PICK e : e = Find(k, S)
    OBVIOUS
  <2>2. k \in Nat /\ k =< WordEnd
    BY <1>t
  <2>3. e \in k..WordEnd
    BY <1>1, <1>2, <2>1, <2>2, FindFacts
  <2>4. e \in i..WordEnd /\ e \in Nat
    BY <1>t, <2>3
  <2>5. At(e) # "nul" => e < WordEnd
    BY <1>t, <2>4
  <2>6. At(e) # "nul" => e + 1 \in i..WordEnd
    BY <1>t, <2>4, <2>5
  <2> QED
    BY <2>1, <2>4, <2>6
<1>6. CASE Quote
  <2>1. At(i) # "nul" /\ GoOn(i + 1) /\ eflag' = FlagBehind(At(i)) /\ removed' = removed \cup {i}
        /\ At(i) \in Quotes
    BY <1>6 DEF Quote, IsQuote, Quotes
  <2>2. eflag' \in Flags
    BY <1>2, <2>1 DEF FlagBehind, Flags
  <2>3. removed' \subseteq 0..(Len(line) - 1)
    BY <1>2, <1>3, <2>1
  <2> QED
    BY <1>1, <1>3, <2>1, <2>2, <2>3, GoOnStays
<1>7. CASE Escape
  <2>1. eflag' \in Flags /\ removed' \subseteq 0..(Len(line) - 1) /\ At(i) = "backslash"
    BY <1>2, <1>7 DEF Escape, Backslashed
  <2>2. CASE At(i + 1) = "nul"
    <3>1. epc' = "overrun" /\ i' = i + 2
      BY <1>7, <2>2 DEF Escape, NUL
    <3>2. i = WordEnd - 1
      <4>1. i < WordEnd
        BY <1>3, <2>1
      <4>2. ~(i + 1 < WordEnd) /\ i + 1 \in Nat
        BY <1>t, <2>2
      <4> QED
        BY <1>t, <4>1, <4>2
    <3>3. /\ LexInv' /\ line' = line /\ pc' = "tokenized" /\ word' \in 0..(Len(tokens') + 1)
          /\ WordEnd' = WordEnd /\ \A k : At(k)' = At(k)
      BY <1>1, WordStays
    <3>4. i' \in 0..(Len(line) + 1)
      BY <1>t, <3>1, <3>2
    <3>5. ExpandInv'
      BY <2>1, <3>1, <3>3, <3>4 DEF ExpandInv
    <3>6. StaysInWord'
      <4>1. PICK k : k = i
        OBVIOUS
      <4>2. At(k)' = "backslash" /\ (WordEnd - 1)' = k
        BY <2>1, <3>2, <3>3, <4>1
      <4>3. At(WordEnd - 1)' = "backslash"
        BY <4>2 DEF At
      <4> QED
        BY <3>1, <4>3 DEF StaysInWord
    <3> QED
      BY <3>3, <3>5, <3>6 DEF IInv
  <2>3. CASE At(i + 1) # "nul"
    <3>1. GoOn(i + 2)
      BY <1>7, <2>3 DEF Escape, NUL
    <3> QED
      BY <1>1, <1>4, <2>1, <2>3, <3>1, GoOnStays
  <2> QED
    BY <2>2, <2>3
<1>8. CASE expand_cmdsub
  <2>1. eflag' \in Flags /\ removed' \subseteq 0..(Len(line) - 1) /\ At(i + 1) = "("
    BY <1>2, <1>8 DEF expand_cmdsub
  <2>2. PICK close : close = Find(i + 2, {")"})
    OBVIOUS
  <2>3. close \in i..WordEnd /\ (At(close) # "nul" => close + 1 \in i..WordEnd)
    BY <1>4, <1>5, <2>1, <2>2
  <2>4. IF At(close) = ")" THEN GoOn(close + 1) ELSE GoOn(close)
    BY <1>8, <2>2 DEF expand_cmdsub
  <2> QED
    BY <1>1, <2>1, <2>3, <2>4, GoOnStays
<1>9. CASE expand_braced_variable
  <2>1. eflag' \in Flags /\ removed' \subseteq 0..(Len(line) - 1) /\ At(i + 1) = "{"
    BY <1>2, <1>9 DEF expand_braced_variable
  <2>2. PICK close : close = Find(i + 2, {"}"})
    OBVIOUS
  <2>3. close \in i..WordEnd /\ (At(close) # "nul" => close + 1 \in i..WordEnd)
    BY <1>4, <1>5, <2>1, <2>2
  <2>4. GoOn(IF At(close) = "}" THEN close + 1 ELSE close)
    BY <1>9, <2>2 DEF expand_braced_variable
  <2>5. (IF At(close) = "}" THEN close + 1 ELSE close) \in i..WordEnd
    BY <2>3
  <2> QED
    BY <1>1, <2>1, <2>4, <2>5, GoOnStays
<1>10. CASE expand_loose_variable
  <2>1. eflag' \in Flags /\ removed' \subseteq 0..(Len(line) - 1) /\ At(i) # "nul"
    BY <1>2, <1>10 DEF expand_loose_variable, Dollar
  <2>2. PICK e : e = Find(i + 1, {"blank"})
    OBVIOUS
  <2>3. e \in i..WordEnd
    BY <1>3, <1>5, <2>1, <2>2
  <2>4. PICK N : N = Names(i + 1)
    OBVIOUS
  <2>5. GoOn(IF N # {} THEN Min(N) ELSE e)
    BY <1>10, <2>2, <2>4 DEF expand_loose_variable
  <2>6. \A n \in N : n \in Nat /\ n \in i..WordEnd
    <3>1. N \subseteq (i + 2)..e
      <4>1. (i + 1) + 1 = i + 2
        BY <1>t
      <4> QED
        BY <2>2, <2>4, <4>1 DEF Names
    <3> QED
      BY <1>t, <2>3, <3>1
  <2>7. N # {} => Min(N) \in i..WordEnd
    <3>1. N \in SUBSET Nat
      BY <2>6
    <3> QED
      BY <2>6, <3>1, MinInSet
  <2>8. (IF N # {} THEN Min(N) ELSE e) \in i..WordEnd
    BY <2>3, <2>7
  <2> QED
    BY <1>1, <2>1, <2>5, <2>8, GoOnStays
<1>11. CASE Copy
  <2>1. At(i) # "nul" /\ GoOn(i + 1) /\ eflag' = eflag /\ removed' = removed
    BY <1>11 DEF Copy, NUL
  <2> QED
    BY <1>1, <1>2, <1>3, <2>1, GoOnStays
<1>12. CASE WordDone
  <2>1. epc' = "next" /\ i' = i /\ eflag' = eflag /\ removed' = removed /\ At(i) = "nul"
    BY <1>12 DEF WordDone, NUL
  <2>2. i = WordEnd
    <3>1. ~(i < WordEnd)
      BY <1>t, <2>1
    <3> QED
      BY <1>t, <3>1
  <2>3. /\ LexInv' /\ line' = line /\ pc' = "tokenized" /\ word' \in 0..(Len(tokens') + 1)
        /\ WordEnd' = WordEnd
    BY <1>1, WordStays
  <2>4. i' \in 0..(Len(line) + 1)
    BY <1>t, <2>1
  <2>5. ExpandInv'
    BY <1>2, <2>1, <2>3, <2>4 DEF ExpandInv
  <2>6. StaysInWord'
    BY <2>1, <2>2, <2>3 DEF StaysInWord
  <2> QED
    BY <2>3, <2>5, <2>6 DEF IInv
<1> QED
  BY <1>6, <1>7, <1>8, <1>9, <1>10, <1>11, <1>12 DEF expand_word

\* So does the step to the next word.
LEMMA NextWordKeeps ==
  ASSUME IInv, NextWord
  PROVE  IInv'
<1>1. /\ pc = "tokenized" /\ eflag' = "unquoted" /\ removed' = {} /\ UNCHANGED lexer
      /\ epc \in {"lexing", "next"}
  BY DEF NextWord
<1>2. /\ LexInv' /\ line' = line /\ pc' = pc /\ tokens' = tokens
  BY <1>1, LexerStays DEF IInv
<1>3. /\ word \in 0..(Len(tokens) + 1) /\ removed \subseteq 0..(Len(line) - 1)
      /\ i \in 0..(Len(line) + 1) /\ tokens \in Seq(Token) /\ Len(tokens) \in Nat
      /\ line \in Seq(Char) /\ Len(line) \in Nat
  BY DEF IInv, ExpandInv, LexInv, LexTypes
<1>4. PICK w \in (word + 1)..(Len(tokens) + 1) :
        /\ w =< Len(tokens) => IsText(tokens[w])
        /\ word' = w
        /\ IF w =< Len(tokens) THEN epc' = "expand" /\ i' = tokens[w].begin
           ELSE epc' = "done" /\ i' = i
  BY DEF NextWord
<1>5. eflag' \in Flags
  BY <1>1 DEF Flags
<1>6. StaysInWord'
  BY <1>4 DEF StaysInWord
<1>7. word' \in 0..(Len(tokens') + 1)
  BY <1>2, <1>3, <1>4
<1>8. CASE w =< Len(tokens)
  <2>1. w \in 1..Len(tokens) /\ epc' = "expand" /\ i' = tokens[w].begin /\ IsText(tokens[w])
    BY <1>3, <1>4, <1>8
  <2>2. PICK t : t = tokens[w]
    OBVIOUS
  <2>3. t \in Token /\ IsText(t) /\ Tok' = t
    BY <1>2, <1>3, <1>4, <2>1, <2>2, ElementOfSeq DEF Tok
  <2>4. t.begin \in Nat /\ t.end \in Nat /\ t.begin =< Len(line)
    BY <1>3, <2>3 DEF Token
  <2>5. t.begin =< t.end
    <3>1. Covers(tokens[w], From(w))
      BY <1>3, <2>1, CoverMeans DEF IInv, LexInv
    <3>2. t.begin < t.stop /\ t.end - t.stop \in 0..Cardinality(Escaped(t.begin, t.stop))
      BY <2>2, <2>3, <3>1 DEF Covers, IsText
    <3>3. t.stop \in Nat /\ t.begin =< t.stop
      BY <1>3, <2>3, <2>4, <3>2 DEF Token
    <3>4. Cardinality(Escaped(t.begin, t.stop)) \in 0..(t.stop - t.begin)
      BY <2>4, <3>3, EscapedFacts
    <3> QED
      BY <2>4, <3>2, <3>3, <3>4
  <2>6. WordEnd' = IF t.end < Len(line) THEN t.end ELSE Len(line)
    BY <1>2, <2>3 DEF WordEnd
  <2>7. i' \in 0..(Len(line) + 1) /\ i' = t.begin /\ t.begin \in t.begin..WordEnd'
    BY <1>3, <2>1, <2>2, <2>4, <2>5, <2>6
  <2>8. (epc = "expand" => word \in 1..Len(tokens) /\ IsText(Tok) /\ i \in Tok.begin..WordEnd)'
    <3>1. IsText(Tok)'
      BY <2>3 DEF IsText
    <3>2. (Tok.begin)' = t.begin
      BY <2>3
    <3>3. word' \in 1..Len(tokens')
      BY <1>2, <1>4, <2>1
    <3> QED
      BY <2>7, <3>1, <3>2, <3>3
  <2>9. ExpandInv'
    BY <1>1, <1>2, <1>3, <1>5, <1>7, <2>1, <2>7, <2>8 DEF ExpandInv
  <2> QED
    BY <1>2, <1>6, <2>9 DEF IInv
<1>9. CASE ~(w =< Len(tokens))
  <2>1. epc' = "done" /\ i' = i
    BY <1>4, <1>9
  <2>2. ExpandInv'
    BY <1>1, <1>2, <1>3, <1>5, <1>7, <2>1 DEF ExpandInv
  <2> QED
    BY <1>2, <1>6, <2>2 DEF IInv
<1> QED
  BY <1>8, <1>9

\* And the lexer, before the first word.
LEMMA LexStepKeeps ==
  ASSUME IInv, Lex
  PROVE  IInv'
<1>1. lx_tokenize /\ UNCHANGED expand
  BY DEF Lex
<1>2. LexInv'
  BY <1>1, LexKeeps DEF IInv
<1>3. pc \in {"token", "scan", "sub"} /\ line' = line
  BY <1>1 DEF lx_tokenize, StartToken, Scan, ScanSubstitution
<1>4. epc = "lexing" /\ word = 0
  BY <1>3 DEF IInv, ExpandInv
<1>5. /\ word' = word /\ i' = i /\ eflag' = eflag /\ epc' = epc /\ removed' = removed
  BY <1>1 DEF expand
<1>6. word' \in 0..(Len(tokens') + 1)
  <2>1. tokens' \in Seq(Token')
    BY <1>2 DEF LexInv, LexTypes
  <2>2. Len(tokens') \in Nat
    BY <2>1
  <2> QED
    BY <1>4, <1>5, <2>2
<1>7. ExpandInv'
  BY <1>3, <1>4, <1>5, <1>6 DEF IInv, ExpandInv
<1>8. StaysInWord'
  BY <1>4, <1>5 DEF StaysInWord
<1> QED
  BY <1>2, <1>7, <1>8 DEF IInv

\* Before the first token nothing has been scanned.
LEMMA InitKeeps == Init => IInv
<1> SUFFICES ASSUME Init PROVE IInv
  OBVIOUS
<1>1. /\ line \in Seq(Char) /\ pos = 0 /\ begin = 0 /\ end = 0 /\ depth = 0
      /\ flag = "unquoted" /\ type = "word" /\ pc = "token" /\ tokens = <<>> /\ toggled = {}
      /\ word = 0 /\ i = 0 /\ eflag = "unquoted" /\ epc = "lexing" /\ removed = {}
  BY LinesAssumption DEF Init, LexerInit
<1>2. Len(line) \in Nat /\ Len(tokens) = 0
  BY <1>1
<1>3. LexTypes
  BY <1>1, <1>2 DEF LexTypes, Flags
<1>4. Ahead(begin, pos, end)
  <2>1. Ahead(0, 0, 0)
    BY EscapedFacts DEF Ahead
  <2> QED
    BY <1>1, <2>1
<1>5. Where
  BY <1>1 DEF Where, LastStop
<1>6. TokensCover
  BY <1>1, <1>2 DEF TokensCover
<1>7. ExpandInv
  BY <1>1, <1>2 DEF ExpandInv, Flags
<1>8. StaysInWord
  BY <1>1 DEF StaysInWord
<1> QED
  BY <1>3, <1>4, <1>5, <1>6, <1>7, <1>8 DEF IInv, LexInv

\* Every step keeps the invariant.
LEMMA NextKeeps == IInv /\ [Next]_vars => IInv'
<1> SUFFICES ASSUME IInv, [Next]_vars PROVE IInv'
  OBVIOUS
<1>1. CASE UNCHANGED vars
  <2>1. UNCHANGED lexer /\ word' = word /\ i' = i /\ eflag' = eflag /\ epc' = epc
        /\ removed' = removed
    BY <1>1 DEF vars, expand
  <2>2. LexInv' /\ line' = line /\ pc' = pc /\ tokens' = tokens
    BY <2>1, LexerStays DEF IInv
  <2>3. ExpandInv'
    BY <2>1, <2>2 DEF IInv, ExpandInv, Tok, IsText, WordEnd
  <2>4. StaysInWord'
    BY <2>1, <2>2 DEF IInv, StaysInWord, Tok, WordEnd, At, CharAt
  <2> QED
    BY <2>2, <2>3, <2>4 DEF IInv
<1>2. CASE Next
  BY <1>1, <1>2, LexStepKeeps, NextWordKeeps, ExpandWordKeeps DEF Next, Rest
<1> QED
  BY <1>1, <1>2

-----------------------------------------------------------------------------
(* What the lexer takes each character for.  A trace of a token gives, for     *)
(* each offset, the quotes and the depth of the substitution in front of it;   *)
(* between the characters $ and ( that open one, the flag is "dollar".  Only   *)
(* tokens without backslash and backquote are traced.                          *)

Modes == Flags \cup {"dollar"}

NextFlag(k, u, n) ==
    IF n > 0 THEN u
    ELSE IF u = "dollar" THEN "unquoted"
    ELSE IF u = "unquoted" /\ CharAt(k) = "$" /\ CharAt(k + 1) = "(" THEN "dollar"
    ELSE toggle_flag(CharAt(k), u)

NextDepth(k, u, n) ==
    IF n > 0 THEN (IF CharAt(k) = ")" THEN n - 1 ELSE IF CharAt(k) = "(" THEN n + 1 ELSE n)
    ELSE IF u = "dollar" THEN 1 ELSE 0

\* The character at k, among T where the flag is toggled and C where a
\* substitution ends.
Follows(f, d, k, T, C) ==
    /\ f[k + 1] = NextFlag(k, f[k], d[k])
    /\ d[k + 1] = NextDepth(k, f[k], d[k])
    /\ k \in T <=> CharAt(k) \in Quotes /\ f[k + 1] # f[k]
    /\ k \in C <=> d[k] > 0 /\ d[k + 1] = 0

Trace(f, d, b, p, T, C) ==
    /\ f[b] = "unquoted" /\ d[b] = 0
    /\ \A k \in b..(p - 1) : Follows(f, d, k, T, C)

\* A trace from b up to p, which ends with flag u and depth n.
Traced(b, p, u, n, T, C) ==
    \E f \in [Nat -> Modes], d \in [Nat -> Nat] :
        Trace(f, d, b, p, T, C) /\ f[p] = u /\ d[p] = n

Plain(b, p) == \A k \in b..(p - 1) : CharAt(k) \notin {"backslash", "grave"}

TokenTraced(t) ==
    IsText(t) /\ Plain(t.begin, t.stop) =>
        Traced(t.begin, t.stop, "unquoted", 0, toggled, closed)

TokensTraced == \A k \in 1..Len(tokens) : tokens[k].stop =< pos /\ TokenTraced(tokens[k])

ScanTraced ==
    pc \in {"scan", "sub"} /\ Plain(begin, pos) =>
        Traced(begin, pos, flag, IF pc = "sub" THEN depth ELSE 0, toggled, closed)

\* A refused line is not expanded, so nothing is claimed of it.
TraceInv ==
    pc # "error" =>
        /\ TokensTraced
        /\ ScanTraced
        /\ toggled \subseteq 0..(pos - 1)
        /\ closed \subseteq 0..(pos - 1)

\* Nothing changes in front of p.
SameBelow(p, S, S2) == \A k \in Nat : k < p => (k \in S2 <=> k \in S)

\* The modes are modes again.
LEMMA NextMode ==
  ASSUME NEW k, NEW u \in Modes, NEW n \in Nat
  PROVE  NextFlag(k, u, n) \in Modes /\ NextDepth(k, u, n) \in Nat
<1>1. toggle_flag(CharAt(k), u) \in Modes
  BY DEF toggle_flag, Modes, Flags
<1>2. "dollar" \in Modes /\ "unquoted" \in Modes
  BY DEF Modes, Flags
<1> QED
  BY <1>1, <1>2 DEF NextFlag, NextDepth

\* The trace of a token depends on what lies in it.
LEMMA TraceStays ==
  ASSUME NEW b \in Nat, NEW p \in Nat, NEW u, NEW n, NEW T, NEW C, NEW T2, NEW C2,
         Traced(b, p, u, n, T, C), SameBelow(p, T, T2), SameBelow(p, C, C2)
  PROVE  Traced(b, p, u, n, T2, C2)
<1>1. PICK f \in [Nat -> Modes], d \in [Nat -> Nat] :
        Trace(f, d, b, p, T, C) /\ f[p] = u /\ d[p] = n
  BY DEF Traced
<1>2. ASSUME NEW k \in b..(p - 1) PROVE Follows(f, d, k, T2, C2)
  <2>1. Follows(f, d, k, T, C)
    BY <1>1 DEF Trace
  <2>2. k \in Nat /\ k < p
    OBVIOUS
  <2>3. (k \in T2 <=> k \in T) /\ (k \in C2 <=> k \in C)
    BY <2>2 DEF SameBelow
  <2> QED
    BY <2>1, <2>3 DEF Follows
<1>3. Trace(f, d, b, p, T2, C2)
  BY <1>1, <1>2 DEF Trace
<1> QED
  BY <1>1, <1>3 DEF Traced

\* Where a token begins there is no more to it.
LEMMA TraceBegins ==
  ASSUME NEW b \in Nat, NEW T, NEW C
  PROVE  Traced(b, b, "unquoted", 0, T, C)
<1>1. PICK f, d : f = [k \in Nat |-> "unquoted"] /\ d = [k \in Nat |-> 0]
  OBVIOUS
<1>2. f \in [Nat -> Modes] /\ d \in [Nat -> Nat] /\ f[b] = "unquoted" /\ d[b] = 0
  BY <1>1 DEF Modes, Flags
<1>3. Trace(f, d, b, b, T, C)
  BY <1>2 DEF Trace
<1> QED
  BY <1>2, <1>3 DEF Traced

\* A trace is continued with one character.
LEMMA TraceGoesOn ==
  ASSUME NEW b \in Nat, NEW p \in Nat, b =< p, NEW u, NEW n, NEW v, NEW m,
         NEW T, NEW C, NEW T2, NEW C2,
         Traced(b, p, u, n, T, C), SameBelow(p, T, T2), SameBelow(p, C, C2),
         v = NextFlag(p, u, n), m = NextDepth(p, u, n),
         p \in T2 <=> CharAt(p) \in Quotes /\ v # u,
         p \in C2 <=> n > 0 /\ m = 0
  PROVE  Traced(b, p + 1, v, m, T2, C2)
<1>1. Traced(b, p, u, n, T2, C2)
  BY TraceStays
<1>2. PICK f \in [Nat -> Modes], d \in [Nat -> Nat] :
        Trace(f, d, b, p, T2, C2) /\ f[p] = u /\ d[p] = n
  BY <1>1 DEF Traced
<1>3. u \in Modes /\ n \in Nat
  BY <1>2
<1>4. v \in Modes /\ m \in Nat
  BY <1>3, NextMode
<1>5. PICK q \in Nat : q = p + 1
  OBVIOUS
<1>6. PICK g, e : g = [f EXCEPT ![q] = v] /\ e = [d EXCEPT ![q] = m]
  OBVIOUS
<1>7. /\ g \in [Nat -> Modes] /\ e \in [Nat -> Nat] /\ g[q] = v /\ e[q] = m
      /\ \A k \in Nat : k # q => g[k] = f[k] /\ e[k] = d[k]
  BY <1>4, <1>6
<1>8. p # q /\ b # q
  BY <1>5
<1>9. ASSUME NEW k \in b..(q - 1) PROVE Follows(g, e, k, T2, C2)
  <2>1. k \in Nat /\ k # q /\ g[k] = f[k] /\ e[k] = d[k]
    <3>1. k \in Nat /\ k # q
      BY <1>5
    <3> QED
      BY <1>7, <3>1
  <2>2. CASE k = p
    <3>1. g[p + 1] = v /\ e[p + 1] = m /\ g[p] = u /\ e[p] = n
      BY <1>2, <1>5, <1>7, <2>1, <2>2
    <3> QED
      BY <2>2, <3>1 DEF Follows
  <2>3. CASE k # p
    <3>1. k \in b..(p - 1) /\ k + 1 \in Nat /\ k + 1 # q
      BY <1>5, <2>3
    <3>2. Follows(f, d, k, T2, C2)
      BY <1>2, <3>1 DEF Trace
    <3>3. g[k + 1] = f[k + 1] /\ e[k + 1] = d[k + 1]
      BY <1>7, <3>1
    <3> QED
      BY <2>1, <3>2, <3>3 DEF Follows
  <2> QED
    BY <2>2, <2>3
<1>10. g[b] = "unquoted" /\ e[b] = 0
  BY <1>2, <1>7, <1>8 DEF Trace
<1>11. Trace(g, e, b, q, T2, C2)
  BY <1>9, <1>10 DEF Trace
<1> QED
  BY <1>5, <1>7, <1>11 DEF Traced

\* A step that keeps the line keeps what can be said of traces.
LEMMA TraceOfLine ==
  ASSUME line' = line
  PROVE  /\ \A b, p : Plain(b, p)' <=> Plain(b, p)
         /\ \A b, p, u, n, T, C : Traced(b, p, u, n, T, C)' <=> Traced(b, p, u, n, T, C)
<1>1. \A k : CharAt(k)' = CharAt(k)
  BY DEF CharAt
<1>2. \A b, p : Plain(b, p)' <=> Plain(b, p)
  BY <1>1 DEF Plain
<1>3. \A k, u, n : NextFlag(k, u, n)' = NextFlag(k, u, n) /\ NextDepth(k, u, n)' = NextDepth(k, u, n)
  BY <1>1 DEF NextFlag, NextDepth
<1>4. \A f, d, k, T, C : Follows(f, d, k, T, C)' <=> Follows(f, d, k, T, C)
  BY <1>1, <1>3 DEF Follows
<1>5. \A f, d, b, p, T, C : Trace(f, d, b, p, T, C)' <=> Trace(f, d, b, p, T, C)
  BY <1>4 DEF Trace
<1>6. \A b, p, u, n, T, C : Traced(b, p, u, n, T, C)' <=> Traced(b, p, u, n, T, C)
  BY <1>5 DEF Traced
<1> QED
  BY <1>2, <1>6

\* The tokens so far stay traced.
LEMMA OldTokensTraced ==
  ASSUME LexInv, TraceInv, pc # "error", line' = line, pos' \in Nat, pos =< pos',
         SameBelow(pos, toggled, toggled'), SameBelow(pos, closed, closed')
  PROVE  \A k \in 1..Len(tokens) :
            \A t : t = tokens[k] => t.stop =< pos' /\ TokenTraced(t)'
<1> SUFFICES ASSUME NEW k \in 1..Len(tokens), NEW t, t = tokens[k]
             PROVE  t.stop =< pos' /\ TokenTraced(t)'
  OBVIOUS
<1>1. tokens \in Seq(Token) /\ pos \in Nat /\ line \in Seq(Char) /\ Len(line) \in Nat
  BY DEF LexInv, LexTypes
<1>2. t \in Token
  BY <1>1, ElementOfSeq
<1>3. t.begin \in Nat /\ t.stop \in Nat
  BY <1>1, <1>2 DEF Token
<1>4. t.stop =< pos /\ TokenTraced(t)
  BY DEF TraceInv, TokensTraced
<1>5. t.stop =< pos'
  BY <1>1, <1>3, <1>4
<1>6. SameBelow(t.stop, toggled, toggled') /\ SameBelow(t.stop, closed, closed')
  BY <1>1, <1>3, <1>4 DEF SameBelow
<1>7. PICK b, s : b = t.begin /\ s = t.stop
  OBVIOUS
<1>8. IsText(t) /\ Plain(b, s) => Traced(b, s, "unquoted", 0, toggled', closed')
  BY <1>3, <1>4, <1>6, <1>7, TraceStays DEF TokenTraced
<1>9. PICK T, C : T = toggled' /\ C = closed'
  OBVIOUS
<1>10. (Plain(b, s)' <=> Plain(b, s))
       /\ (Traced(b, s, "unquoted", 0, T, C)' <=> Traced(b, s, "unquoted", 0, T, C))
  BY TraceOfLine
<1>11. Traced(b, s, "unquoted", 0, T, C)' => (Traced(b, s, "unquoted", 0, toggled, closed))'
  BY <1>9 DEF Traced, Trace, Follows
<1>12. TokenTraced(t)'
  BY <1>7, <1>8, <1>9, <1>10, <1>11 DEF TokenTraced, IsText
<1> QED
  BY <1>5, <1>12

\* A token that is cut is traced, if the scan was.
LEMMA EmitTraces ==
  ASSUME LexInv, TraceInv, pc # "error", line' = line,
         NEW t \in TokenType, NEW e \in Nat, NEW p \in Nat, pos =< p,
         NEW b \in Nat, begin' = b,
         Emit(t, e, p),
         SameBelow(pos, toggled, toggled'), SameBelow(pos, closed, closed'),
         toggled' \subseteq 0..(p - 1), closed' \subseteq 0..(p - 1),
         t \in {"word", "assignment"} /\ Plain(b, p) => Traced(b, p, "unquoted", 0, toggled', closed')
  PROVE  TraceInv'
<1>r. PICK r : r = [type |-> t, begin |-> b, end |-> e, stop |-> p]
  OBVIOUS
<1>1. /\ tokens' = Append(tokens, r) /\ pos' = p /\ pc' \in {"tokenized", "token"}
  BY <1>r DEF Emit
<1>2. r.type = t /\ r.begin = b /\ r.stop = p
  BY <1>r
<1>3. tokens \in Seq(Token) /\ Len(tokens) \in Nat
  BY DEF LexInv, LexTypes
<1>4. /\ Len(tokens') = Len(tokens) + 1
      /\ tokens'[Len(tokens) + 1] = r
      /\ \A k \in 1..Len(tokens) : tokens'[k] = tokens[k]
  BY <1>1, <1>3
<1>5. TokenTraced(r)'
  <2>1. PICK T, C : T = toggled' /\ C = closed'
    OBVIOUS
  <2>2. (Plain(b, p)' <=> Plain(b, p))
        /\ (Traced(b, p, "unquoted", 0, T, C)' <=> Traced(b, p, "unquoted", 0, T, C))
    BY TraceOfLine
  <2>3. Traced(b, p, "unquoted", 0, T, C)' => (Traced(b, p, "unquoted", 0, toggled, closed))'
    BY <2>1 DEF Traced, Trace, Follows
  <2> QED
    BY <1>2, <2>1, <2>2, <2>3 DEF TokenTraced, IsText
<1>6. TokensTraced'
  <2> SUFFICES ASSUME NEW k \in 1..Len(tokens') PROVE (tokens[k].stop =< pos /\ TokenTraced(tokens[k]))'
    BY DEF TokensTraced
  <2>1. PICK u : u = tokens'[k]
    OBVIOUS
  <2>2. u.stop =< pos' /\ TokenTraced(u)'
    <3>1. CASE k \in 1..Len(tokens)
      <4>1. u = tokens[k]
        BY <1>4, <2>1, <3>1
      <4>2. pos' \in Nat /\ pos =< pos'
        BY <1>1
      <4> QED
        BY <3>1, <4>1, <4>2, OldTokensTraced
    <3>2. CASE k = Len(tokens) + 1
      BY <1>1, <1>2, <1>4, <1>5, <2>1, <3>2
    <3> QED
      BY <1>3, <1>4, <3>1, <3>2
  <2> QED
    BY <2>1, <2>2 DEF TokenTraced, IsText
<1>7. ScanTraced'
  BY <1>1 DEF ScanTraced
<1> QED
  BY <1>1, <1>6, <1>7 DEF TraceInv

\* The same when the scan goes on.
LEMMA GoOnTraces ==
  ASSUME LexInv, TraceInv, pc # "error", line' = line, tokens' = tokens,
         NEW p \in Nat, pos' = p, pos =< p, NEW b \in Nat, begin' = b,
         NEW u, flag' = u, NEW n, n = IF pc' = "sub" THEN depth' ELSE 0,
         SameBelow(pos, toggled, toggled'), SameBelow(pos, closed, closed'),
         toggled' \subseteq 0..(p - 1), closed' \subseteq 0..(p - 1),
         Plain(b, p) => Traced(b, p, u, n, toggled', closed')
  PROVE  TraceInv'
<1>1. TokensTraced'
  <2> SUFFICES ASSUME NEW k \in 1..Len(tokens') PROVE (tokens[k].stop =< pos /\ TokenTraced(tokens[k]))'
    BY DEF TokensTraced
  <2>1. PICK v : v = tokens[k]
    OBVIOUS
  <2>2. v.stop =< pos' /\ TokenTraced(v)'
    BY <2>1, OldTokensTraced
  <2> QED
    BY <2>1, <2>2 DEF TokenTraced, IsText
<1>2. ScanTraced'
  <2>1. PICK T, C : T = toggled' /\ C = closed'
    OBVIOUS
  <2>2. (Plain(b, p)' <=> Plain(b, p)) /\ (Traced(b, p, u, n, T, C)' <=> Traced(b, p, u, n, T, C))
    BY TraceOfLine
  <2>3. (Plain(begin, pos))' <=> Plain(b, p)'
    BY DEF Plain
  <2>4. Traced(b, p, u, n, T, C)'
         => (Traced(begin, pos, flag, IF pc = "sub" THEN depth ELSE 0, toggled, closed))'
    BY <2>1 DEF Traced, Trace, Follows
  <2> QED
    BY <2>1, <2>2, <2>3, <2>4 DEF ScanTraced
<1> QED
  BY <1>1, <1>2 DEF TraceInv

\* What a turn finds of the traces, and what a plain text is before its last
\* character.
LEMMA InTrace ==
  ASSUME LexInv, TraceInv, pc \in {"scan", "sub"}
  PROVE  /\ pos \in Nat /\ begin \in Nat /\ begin =< pos /\ LexTypes
         /\ toggled \subseteq 0..(pos - 1) /\ closed \subseteq 0..(pos - 1)
         /\ pos \notin toggled /\ pos \notin closed
         /\ Plain(begin, pos) => Traced(begin, pos, flag, IF pc = "sub" THEN depth ELSE 0, toggled, closed)
         /\ Plain(begin, pos + 1) => Plain(begin, pos) /\ c \notin {"backslash", "grave"}
         /\ Plain(begin, pos + 2) => Plain(begin, pos + 1)
<1>1. pos \in Nat /\ begin \in Nat /\ begin =< pos /\ LexTypes
  BY InToken
<1>2. toggled \subseteq 0..(pos - 1) /\ closed \subseteq 0..(pos - 1) /\ ScanTraced
  BY DEF TraceInv
<1>3. pos \notin toggled /\ pos \notin closed
  BY <1>1, <1>2
<1>4. Plain(begin, pos + 1) => Plain(begin, pos) /\ CharAt(pos) \notin {"backslash", "grave"}
  <2>1. pos \in begin..((pos + 1) - 1) /\ \A k \in begin..(pos - 1) : k \in begin..((pos + 1) - 1)
    BY <1>1
  <2> QED
    BY <2>1 DEF Plain
<1>5. Plain(begin, pos + 2) => Plain(begin, pos + 1)
  <2>1. \A k \in begin..((pos + 1) - 1) : k \in begin..((pos + 2) - 1)
    BY <1>1
  <2> QED
    BY <2>1 DEF Plain
<1> QED
  BY <1>1, <1>2, <1>3, <1>4, <1>5 DEF ScanTraced, c

\* A turn that passes one character and may end the token.
LEMMA EndOfTurnTraces ==
  ASSUME LexInv, TraceInv, pc \in {"scan", "sub"}, line' = line, begin' = begin,
         NEW ch, NEW f, NEW t \in {"word", "assignment"}, NEW e \in Nat,
         EndOfTurn(ch, f, t, e, pos + 1),
         SameBelow(pos, toggled, toggled'), SameBelow(pos, closed, closed'),
         toggled' \subseteq 0..pos, closed' \subseteq 0..pos,
         Plain(begin, pos + 1) => Traced(begin, pos + 1, f, 0, toggled', closed')
  PROVE  TraceInv'
<1>1. pos \in Nat /\ begin \in Nat
  BY InTrace
<1>2. PICK p \in Nat : p = pos + 1
  BY <1>1
<1>3. PICK b \in Nat : b = begin
  BY <1>1
<1>4. /\ EndOfTurn(ch, f, t, e, p) /\ pos =< p /\ begin' = b
      /\ toggled' \subseteq 0..(p - 1) /\ closed' \subseteq 0..(p - 1)
      /\ Plain(b, p) => Traced(b, p, f, 0, toggled', closed')
  <2>1. 0..(p - 1) = 0..pos
    BY <1>1, <1>2
  <2> QED
    BY <1>1, <1>2, <1>3, <2>1
<1>5. CASE ~lx_end_of_token(ch, f)
  <2>1. pos' = p /\ pc' = "scan" /\ tokens' = tokens /\ flag' = f
    BY <1>4, <1>5 DEF EndOfTurn
  <2> QED
    BY <1>4, <2>1, GoOnTraces
<1>6. CASE lx_end_of_token(ch, f) /\ f = "unquoted"
  <2>1. Emit(t, e, p) /\ t \in TokenType
    BY <1>4, <1>6 DEF EndOfTurn, TokenType
  <2> QED
    BY <1>4, <1>6, <2>1, EmitTraces
<1>7. CASE lx_end_of_token(ch, f) /\ f # "unquoted"
  <2>1. pc' = "error"
    BY <1>4, <1>7 DEF EndOfTurn, Fail
  <2> QED
    BY <2>1 DEF TraceInv
<1> QED
  BY <1>5, <1>6, <1>7

\* The trace of a token begins with it.
LEMMA StartTokenTraces ==
  ASSUME LexInv, TraceInv, StartToken
  PROVE  TraceInv'
<1>1. /\ pc = "token" /\ line' = line /\ toggled' = toggled /\ closed' = closed
      /\ pos \in Nat /\ Len(line) \in Nat /\ flag' = "unquoted"
      /\ toggled \subseteq 0..(pos - 1) /\ closed \subseteq 0..(pos - 1)
  BY DEF LexInv, StartToken, LexTypes, TraceInv
<1>2. SameBelow(pos, toggled, toggled') /\ SameBelow(pos, closed, closed')
  BY <1>1 DEF SameBelow
<1>3. ASSUME NEW p \in Nat, pos =< p
      PROVE  toggled' \subseteq 0..(p - 1) /\ closed' \subseteq 0..(p - 1)
  <2>1. \A k \in 0..(pos - 1) : k \in 0..(p - 1)
    BY <1>1, <1>3
  <2> QED
    BY <1>1, <2>1
<1>4. CASE c = "newline"
  <2>1. begin' = pos /\ Emit("newline", pos + 1, pos + 1)
    BY <1>4 DEF StartToken
  <2>2. "newline" \in TokenType /\ pos + 1 \in Nat /\ pos =< pos + 1
    BY <1>1 DEF TokenType
  <2>3. toggled' \subseteq 0..((pos + 1) - 1) /\ closed' \subseteq 0..((pos + 1) - 1)
    BY <1>3, <2>2
  <2> QED
    BY <1>1, <1>2, <2>1, <2>2, <2>3, EmitTraces
<1>5. CASE c # "newline"
  <2>1. PICK k \in pos..Len(line) :
          /\ begin' = k
          /\ IF CharAt(k) = "end" THEN Emit("eof", k, k)
             ELSE pos' = k /\ end' = k /\ pc' = "scan" /\ tokens' = tokens
    BY <1>5 DEF StartToken, AfterBlanks, EOI
  <2>2. k \in Nat /\ pos =< k
    BY <1>1
  <2>3. toggled' \subseteq 0..(k - 1) /\ closed' \subseteq 0..(k - 1)
    BY <1>3, <2>2
  <2>4. CASE CharAt(k) = "end"
    <3>1. "eof" \in TokenType
      BY DEF TokenType
    <3> QED
      BY <1>1, <1>2, <2>1, <2>2, <2>3, <2>4, <3>1, EmitTraces
  <2>5. CASE CharAt(k) # "end"
    <3>1. Traced(k, k, "unquoted", 0, toggled', closed')
      BY <2>2, TraceBegins
    <3>2. pos' = k /\ pc' = "scan" /\ tokens' = tokens /\ begin' = k
      BY <2>1, <2>5
    <3> QED
      BY <1>1, <1>2, <2>2, <2>3, <3>1, <3>2, GoOnTraces
  <2> QED
    BY <2>4, <2>5
<1> QED
  BY <1>4, <1>5

\* A word that an operator cuts has been traced up to it.
LEMMA OperatorTraces ==
  ASSUME LexInv, TraceInv, Scan, Operator \/ NumberedOperator
  PROVE  TraceInv'
<1>1. pc = "scan" /\ line' = line /\ begin' = begin /\ toggled' = toggled /\ closed' = closed
  BY DEF Scan, Operator, NumberedOperator
<1>2. /\ pos \in Nat /\ begin \in Nat /\ end \in Nat /\ type \in {"word", "assignment"}
      /\ toggled \subseteq 0..(pos - 1) /\ closed \subseteq 0..(pos - 1)
      /\ Plain(begin, pos) => Traced(begin, pos, flag, 0, toggled, closed)
  BY <1>1, InTrace DEF LexTypes
<1>3. SameBelow(pos, toggled, toggled') /\ SameBelow(pos, closed, closed')
  BY <1>1 DEF SameBelow
<1>4. ASSUME NEW p \in Nat, pos =< p
      PROVE  toggled' \subseteq 0..(p - 1) /\ closed' \subseteq 0..(p - 1)
  <2>1. \A k \in 0..(pos - 1) : k \in 0..(p - 1)
    BY <1>2, <1>4
  <2> QED
    BY <1>1, <1>2, <2>1
<1>5. \A k : /\ OperatorType(k) \in TokenType \ {"word", "assignment"}
             /\ OperatorLength(k) \in {1, 2}
  BY DEF OperatorType, OperatorLength, TokenType
<1>b. PICK b \in Nat : b = begin
  BY <1>2
<1>6. CASE Operator /\ AtStart
  <2>1. PICK n : n = OperatorLength(pos)
    OBVIOUS
  <2>2. n \in {1, 2} /\ Emit(OperatorType(pos), end + n, pos + n)
    BY <1>5, <1>6, <2>1 DEF Operator
  <2>3. pos + n \in Nat /\ end + n \in Nat /\ pos =< pos + n
    BY <1>2, <2>2
  <2>4. PICK t \in TokenType \ {"word", "assignment"} : t = OperatorType(pos)
    BY <1>5
  <2>5. toggled' \subseteq 0..((pos + n) - 1) /\ closed' \subseteq 0..((pos + n) - 1)
    BY <1>4, <2>3
  <2> QED
    BY <1>1, <1>3, <1>b, <2>2, <2>3, <2>4, <2>5, EmitTraces
<1>7. CASE Operator /\ ~AtStart
  <2>1. Emit(type, end, pos) /\ type \in TokenType /\ flag = "unquoted"
    BY <1>2, <1>7 DEF Operator, TokenType, Unquoted
  <2>2. Plain(b, pos) => Traced(b, pos, "unquoted", 0, toggled', closed')
    BY <1>1, <1>2, <1>b, <2>1
  <2>3. pos =< pos
    BY <1>2
  <2> QED
    BY <1>1, <1>2, <1>3, <1>b, <2>1, <2>2, <2>3, EmitTraces
<1>8. CASE NumberedOperator
  <2>1. PICK n : n = 1 + OperatorLength(pos + 1)
    OBVIOUS
  <2>2. n \in Nat
    BY <1>5, <2>1
  <2>3. Emit("redir", end + n, pos + n)
    <3>1. OperatorLength(pos + 1) \in Nat
      BY <1>5
    <3>2. end + 1 + OperatorLength(pos + 1) = end + n /\ pos + 1 + OperatorLength(pos + 1) = pos + n
      BY <1>2, <2>1, <3>1
    <3> QED
      BY <1>8, <3>2 DEF NumberedOperator
  <2>4. pos + n \in Nat /\ end + n \in Nat /\ pos =< pos + n /\ "redir" \in TokenType
    BY <1>2, <2>2 DEF TokenType
  <2>5. toggled' \subseteq 0..((pos + n) - 1) /\ closed' \subseteq 0..((pos + n) - 1)
    BY <1>4, <2>4
  <2> QED
    BY <1>1, <1>3, <1>b, <2>3, <2>4, <2>5, EmitTraces
<1> QED
  BY <1>6, <1>7, <1>8

\* The two characters that open a substitution.
LEMMA SubstitutionTraces ==
  ASSUME LexInv, TraceInv, Scan, Substitution
  PROVE  TraceInv'
<1>1. /\ pc = "scan" /\ line' = line /\ begin' = begin /\ toggled' = toggled /\ closed' = closed
      /\ pc' = "sub" /\ depth' = 1 /\ tokens' = tokens /\ flag' = flag /\ flag = "unquoted"
      /\ c = "grave" \/ (c = "$" /\ CharAt(pos + 1) = "(")
      /\ pos' = pos + IF c = "$" THEN 2 ELSE 1
  BY DEF Scan, Substitution, OpensSubstitution, Unquoted, nextc
<1>2. /\ pos \in Nat /\ begin \in Nat /\ begin =< pos
      /\ toggled \subseteq 0..(pos - 1) /\ closed \subseteq 0..(pos - 1)
      /\ Plain(begin, pos) => Traced(begin, pos, "unquoted", 0, toggled, closed)
      /\ Plain(begin, pos + 1) => Plain(begin, pos) /\ c \notin {"backslash", "grave"}
      /\ Plain(begin, pos + 2) => Plain(begin, pos + 1)
  BY <1>1, InTrace
<1>3. SameBelow(pos, toggled, toggled') /\ SameBelow(pos, closed, closed')
  BY <1>1 DEF SameBelow
<1>b. PICK b \in Nat : b = begin
  BY <1>2
<1>p. PICK p \in Nat : p = pos'
  BY <1>1, <1>2
<1>4. pos =< p /\ p \in {pos + 1, pos + 2} /\ (c = "grave" => p = pos + 1) /\ (c = "$" => p = pos + 2)
  BY <1>1, <1>2, <1>p
<1>5. toggled' \subseteq 0..(p - 1) /\ closed' \subseteq 0..(p - 1)
  <2>1. \A k \in 0..(pos - 1) : k \in 0..(p - 1)
    BY <1>2, <1>4
  <2> QED
    BY <1>1, <1>2, <2>1
<1>6. Plain(b, p) => Traced(b, p, "unquoted", 1, toggled', closed')
  <2> SUFFICES ASSUME Plain(b, p) PROVE Traced(b, p, "unquoted", 1, toggled', closed')
    OBVIOUS
  <2>1. c = "$" /\ CharAt(pos + 1) = "(" /\ p = pos + 2 /\ Plain(b, pos)
    BY <1>1, <1>2, <1>4, <1>b
  <2>2. CharAt(pos) = "$" /\ CharAt(pos + 1) = "("
    BY <2>1 DEF c
  <2>3. PICK q : q = pos
    OBVIOUS
  <2>4. q \in Nat /\ b =< q /\ q + 1 \in Nat /\ b =< q + 1 /\ (q + 1) + 1 = p
    BY <1>2, <1>b, <2>1, <2>3
  <2>5. PICK T, C : T = toggled /\ C = closed
    OBVIOUS
  <2>6. q \notin T /\ q \notin C /\ q + 1 \notin T /\ q + 1 \notin C
    BY <1>2, <2>3, <2>5
  <2>7. Traced(b, q, "unquoted", 0, T, C)
    BY <1>2, <1>b, <2>1, <2>3, <2>5
  <2>8. NextFlag(q, "unquoted", 0) = "dollar" /\ NextDepth(q, "unquoted", 0) = 0
    BY <2>2, <2>3 DEF NextFlag, NextDepth
  <2>9. SameBelow(q, T, T) /\ SameBelow(q, C, C) /\ SameBelow(q + 1, T, T) /\ SameBelow(q + 1, C, C)
    BY DEF SameBelow
  <2>10. CharAt(q) \notin Quotes /\ CharAt(q + 1) \notin Quotes
    BY <2>2, <2>3 DEF Quotes
  <2>11. Traced(b, q + 1, "dollar", 0, T, C)
    BY <2>4, <2>6, <2>7, <2>8, <2>9, <2>10, TraceGoesOn
  <2>12. NextFlag(q + 1, "dollar", 0) = "unquoted" /\ NextDepth(q + 1, "dollar", 0) = 1
    BY DEF NextFlag, NextDepth
  <2>13. Traced(b, (q + 1) + 1, "unquoted", 1, T, C)
    BY <2>4, <2>6, <2>9, <2>10, <2>11, <2>12, TraceGoesOn
  <2> QED
    BY <1>1, <2>4, <2>5, <2>13
<1> QED
  BY <1>1, <1>3, <1>4, <1>5, <1>6, <1>b, <1>p, GoOnTraces

\* Behind a backslash nothing is traced.
LEMMA BackslashTraces ==
  ASSUME LexInv, TraceInv, Scan, Backslash
  PROVE  TraceInv'
<1>1. /\ pc = "scan" /\ line' = line /\ begin' = begin /\ toggled' = toggled /\ closed' = closed
      /\ c = "backslash"
  BY DEF Scan, Backslash, Escapes
<1>2. /\ pos \in Nat /\ begin \in Nat /\ end \in Nat /\ type \in {"word", "assignment"}
      /\ toggled \subseteq 0..(pos - 1) /\ closed \subseteq 0..(pos - 1)
      /\ ~Plain(begin, pos + 1)
  BY <1>1, InTrace DEF LexTypes
<1>3. SameBelow(pos, toggled, toggled') /\ SameBelow(pos, closed, closed')
  BY <1>1 DEF SameBelow
<1>4. /\ toggled' \subseteq 0..pos /\ closed' \subseteq 0..pos
      /\ pos + 1 \in Nat /\ end + 1 \in Nat /\ end + 2 \in Nat /\ pos =< pos + 1
      /\ toggled' \subseteq 0..((pos + 1) - 1) /\ closed' \subseteq 0..((pos + 1) - 1)
  BY <1>1, <1>2
<1>5. CASE nextc = "n" /\ Emit("newline", end + 1, pos + 1)
  <2>1. "newline" \in TokenType
    BY DEF TokenType
  <2> QED
    BY <1>1, <1>2, <1>3, <1>4, <1>5, <2>1, EmitTraces
<1>6. CASE EndOfTurn(nextc, flag, type, end + 1, pos + 1)
  BY <1>1, <1>2, <1>3, <1>4, <1>6, EndOfTurnTraces
<1>7. CASE EndOfTurn(CharAt(pos + 2), flag, type, end + 2, pos + 1)
  BY <1>1, <1>2, <1>3, <1>4, <1>7, EndOfTurnTraces
<1> QED
  BY <1>5, <1>6, <1>7 DEF Backslash

\* Any other character toggles the flag, or does not.
LEMMA OrdinaryTraces ==
  ASSUME LexInv, TraceInv, Scan, Ordinary
  PROVE  TraceInv'
<1>1. /\ pc = "scan" /\ line' = line /\ begin' = begin /\ closed' = closed
      /\ ~(flag = "unquoted" /\ c = "$" /\ CharAt(pos + 1) = "(")
      /\ toggled' = IF toggle_flag(c, flag) # flag THEN toggled \cup {pos} ELSE toggled
  BY DEF Scan, Ordinary, OpensSubstitution, Unquoted, nextc
<1>2. /\ pos \in Nat /\ begin \in Nat /\ begin =< pos /\ end \in Nat
      /\ type \in {"word", "assignment"} /\ flag \in Flags
      /\ toggled \subseteq 0..(pos - 1) /\ closed \subseteq 0..(pos - 1)
      /\ pos \notin toggled /\ pos \notin closed
      /\ Plain(begin, pos) => Traced(begin, pos, flag, 0, toggled, closed)
      /\ Plain(begin, pos + 1) => Plain(begin, pos)
  BY <1>1, InTrace DEF LexTypes
<1>3. SameBelow(pos, toggled, toggled') /\ SameBelow(pos, closed, closed')
  BY <1>1, <1>2 DEF SameBelow
<1>4. toggled' \subseteq 0..pos /\ closed' \subseteq 0..pos
  BY <1>1, <1>2
<1>5. PICK f : f = toggle_flag(c, flag)
  OBVIOUS
<1>6. PICK t \in {"word", "assignment"} : t = IF c = "=" THEN "assignment" ELSE type
  BY <1>2
<1>7. EndOfTurn(nextc, f, t, end + 1, pos + 1) /\ end + 1 \in Nat
  BY <1>2, <1>5, <1>6 DEF Ordinary
<1>8. f = NextFlag(pos, flag, 0) /\ 0 = NextDepth(pos, flag, 0)
  <2>1. flag # "dollar"
    BY <1>2 DEF Flags, Quotes
  <2> QED
    BY <1>1, <1>5, <2>1 DEF NextFlag, NextDepth, c
<1>9. pos \in toggled' <=> CharAt(pos) \in Quotes /\ f # flag
  BY <1>1, <1>2, <1>5 DEF toggle_flag, c
<1>10. Plain(begin, pos + 1) => Traced(begin, pos + 1, f, 0, toggled', closed')
  <2> SUFFICES ASSUME Plain(begin, pos + 1) PROVE Traced(begin, pos + 1, f, 0, toggled', closed')
    OBVIOUS
  <2>1. PICK T, C : T = toggled' /\ C = closed'
    OBVIOUS
  <2>2. Traced(begin, pos, flag, 0, toggled, closed)
    BY <1>2
  <2>3. /\ SameBelow(pos, toggled, T) /\ SameBelow(pos, closed, C)
        /\ pos \in T <=> CharAt(pos) \in Quotes /\ f # flag
        /\ pos \in C <=> 0 > 0 /\ 0 = 0
    BY <1>1, <1>2, <1>3, <1>9, <2>1
  <2>4. Traced(begin, pos + 1, f, 0, T, C)
    BY <1>2, <1>8, <2>2, <2>3, TraceGoesOn
  <2> QED
    BY <2>1, <2>4
<1> QED
  BY <1>1, <1>3, <1>4, <1>7, <1>10, EndOfTurnTraces

\* In a substitution the flag stays, and its last character is recorded.
LEMMA ScanSubstitutionTraces ==
  ASSUME LexInv, TraceInv, ScanSubstitution
  PROVE  TraceInv'
<1>1. /\ pc = "sub" /\ line' = line /\ begin' = begin /\ toggled' = toggled
      /\ depth' = CASE c \in {")", "grave"} -> depth - 1 [] c = "(" -> depth + 1 [] OTHER -> depth
      /\ closed' = IF depth' = 0 THEN closed \cup {pos} ELSE closed
  BY DEF ScanSubstitution
<1>2. /\ pos \in Nat /\ begin \in Nat /\ begin =< pos /\ end \in Nat
      /\ type \in {"word", "assignment"} /\ flag \in Flags
      /\ depth \in Nat /\ depth > 0
      /\ toggled \subseteq 0..(pos - 1) /\ closed \subseteq 0..(pos - 1)
      /\ pos \notin toggled /\ pos \notin closed
      /\ Plain(begin, pos) => Traced(begin, pos, flag, depth, toggled, closed)
      /\ Plain(begin, pos + 1) => Plain(begin, pos) /\ c \notin {"backslash", "grave"}
  BY <1>1, InTrace DEF LexInv, Where, LexTypes
<1>3. SameBelow(pos, toggled, toggled') /\ SameBelow(pos, closed, closed')
  BY <1>1, <1>2 DEF SameBelow
<1>4. toggled' \subseteq 0..pos /\ closed' \subseteq 0..pos
  BY <1>1, <1>2
<1>n. PICK n : n = depth'
  OBVIOUS
<1>5. Plain(begin, pos + 1) => Traced(begin, pos + 1, flag, n, toggled', closed')
  <2> SUFFICES ASSUME Plain(begin, pos + 1) PROVE Traced(begin, pos + 1, flag, n, toggled', closed')
    OBVIOUS
  <2>1. PICK T, C : T = toggled' /\ C = closed'
    OBVIOUS
  <2>2. Traced(begin, pos, flag, depth, toggled, closed) /\ c \notin {"backslash", "grave"}
    BY <1>2
  <2>3. n = NextDepth(pos, flag, depth) /\ flag = NextFlag(pos, flag, depth)
    <3>1. CASE c = ")"
      BY <1>1, <1>2, <1>n, <3>1 DEF NextDepth, NextFlag, c
    <3>2. CASE c = "("
      BY <1>1, <1>2, <1>n, <3>2 DEF NextDepth, NextFlag, c
    <3>3. CASE c # ")" /\ c # "("
      BY <1>1, <1>2, <1>n, <2>2, <3>3 DEF NextDepth, NextFlag, c
    <3> QED
      BY <3>1, <3>2, <3>3
  <2>4. /\ SameBelow(pos, toggled, T) /\ SameBelow(pos, closed, C)
        /\ pos \in T <=> CharAt(pos) \in Quotes /\ flag # flag
        /\ pos \in C <=> depth > 0 /\ n = 0
    BY <1>1, <1>2, <1>3, <1>n, <2>1
  <2>5. Traced(begin, pos + 1, flag, n, T, C)
    BY <1>2, <2>2, <2>3, <2>4, TraceGoesOn
  <2> QED
    BY <2>1, <2>5
<1>6. CASE c = EOI
  <2>1. pc' = "error"
    BY <1>6 DEF ScanSubstitution, Fail
  <2> QED
    BY <2>1 DEF TraceInv
<1>7. CASE c # EOI /\ depth' = 0
  <2>1. EndOfTurn(nextc, flag, type, end + 1, pos + 1) /\ end + 1 \in Nat
    BY <1>2, <1>7 DEF ScanSubstitution
  <2>2. Plain(begin, pos + 1) => Traced(begin, pos + 1, flag, 0, toggled', closed')
    BY <1>5, <1>7, <1>n
  <2> QED
    BY <1>1, <1>2, <1>3, <1>4, <2>1, <2>2, EndOfTurnTraces
<1>8. CASE c # EOI /\ depth' # 0
  <2>1. pos' = pos + 1 /\ pc' = "sub" /\ tokens' = tokens /\ flag' = flag
    BY <1>1, <1>8 DEF ScanSubstitution
  <2>2. PICK p \in Nat : p = pos + 1
    BY <1>2
  <2>3. /\ pos =< p /\ toggled' \subseteq 0..(p - 1) /\ closed' \subseteq 0..(p - 1)
    <3>1. 0..(p - 1) = 0..pos
      BY <1>2, <2>2
    <3> QED
      BY <1>2, <1>4, <2>2, <3>1
  <2>4. Plain(begin, p) => Traced(begin, p, flag, n, toggled', closed')
    BY <1>5, <2>2
  <2>5. n = IF pc' = "sub" THEN depth' ELSE 0
    BY <1>n, <2>1
  <2> QED
    BY <1>1, <1>2, <1>3, <2>1, <2>2, <2>3, <2>4, <2>5, GoOnTraces
<1> QED
  BY <1>6, <1>7, <1>8

\* Every step of the lexer keeps the traces.
LEMMA LexTraces ==
  ASSUME LexInv, TraceInv, lx_tokenize
  PROVE  TraceInv'
<1>1. CASE Scan
  <2>1. Operator \/ NumberedOperator \/ Substitution \/ Backslash \/ Ordinary
    BY <1>1 DEF Scan
  <2> QED
    BY <1>1, <2>1, OperatorTraces, SubstitutionTraces, BackslashTraces, OrdinaryTraces
<1> QED
  BY <1>1, StartTokenTraces, ScanSubstitutionTraces DEF lx_tokenize

-----------------------------------------------------------------------------
(* The expansion follows the trace of a regular word. *)

\* At offset m of the word, with flag u, quotes R removed and substitutions
\* ended at B: the trace is outside of substitutions with the same flag, and
\* what the lexer found before m has been found again.
Agreeing(m, u, R, B) ==
    /\ Tok.end = Tok.stop
    /\ \E f \in [Nat -> Modes], d \in [Nat -> Nat] :
         /\ Trace(f, d, Tok.begin, Tok.stop, toggled, closed) /\ f[Tok.stop] = "unquoted"
         /\ f[m] = u /\ d[m] = 0
    /\ \A k \in Tok.begin..(m - 1) : (k \in R <=> k \in toggled) /\ (k \in closed => k \in B)

InAWord == epc \in {"expand", "next"}

AgreeInv ==
    /\ epc = "next" => word \in 1..Len(tokens)
    /\ InAWord => \A k \in removed : k < i
    /\ InAWord /\ Regular(Tok) => Agreeing(i, eflag, removed, bodyEnds)

\* The inductive invariant of the agreement.
AInv == IInv /\ TraceInv /\ AgreeInv

\* The first place where a character is found is the place.
LEMMA FindIs ==
  ASSUME WordEnd \in Nat, NEW k \in Nat, NEW S, NEW e \in k..WordEnd,
         At(e) \in S, \A j \in k..(e - 1) : At(j) \notin S
  PROVE  Find(k, S) = e
<1> DEFINE P(x) == (x = WordEnd \/ At(x) \in S) /\ \A j \in k..(x - 1) : At(j) \notin S
<1>1. P(e)
  OBVIOUS
<1>2. \A x \in k..WordEnd : P(x) => x = e
  <2> SUFFICES ASSUME NEW x \in k..WordEnd, P(x), x # e PROVE FALSE
    OBVIOUS
  <2>1. CASE x < e
    <3>1. x \in k..(e - 1) /\ x # WordEnd
      BY <2>1
    <3> QED
      BY <3>1
  <2>2. CASE e < x
    <3>1. e \in k..(x - 1)
      BY <2>2
    <3> QED
      BY <3>1
  <2> QED
    BY <2>1, <2>2
<1>3. Find(k, S) = CHOOSE x \in k..WordEnd : P(x)
  BY DEF Find
<1>4. (CHOOSE x \in k..WordEnd : P(x)) \in k..WordEnd /\ P(CHOOSE x \in k..WordEnd : P(x))
  BY <1>1
<1> QED
  BY <1>2, <1>3, <1>4

\* A regular word ends where its scan stopped, and all of it is traced.
LEMMA RegularWord ==
  ASSUME LexInv, tokens \in Seq(Token), word \in 1..Len(tokens), IsText(Tok), Regular(Tok)
  PROVE  /\ Tok.begin \in Nat /\ Tok.stop \in Nat /\ Tok.begin < Tok.stop /\ Tok.stop =< Len(line)
         /\ Tok.end = Tok.stop /\ WordEnd = Tok.stop
         /\ Plain(Tok.begin, Tok.stop)
         /\ \A k \in Tok.begin..(Tok.stop - 1) : At(k) = CharAt(k)
<1>1. Tok \in Token
  BY ElementOfSeq DEF Tok
<1>2. Tok.begin \in Nat /\ Tok.stop \in Nat /\ Tok.end \in Nat /\ Tok.stop =< Len(line)
      /\ Len(line) \in Nat
  BY <1>1 DEF Token, LexInv, LexTypes
<1>3. Tok.begin < Tok.stop /\ Tok.end - Tok.stop \in 0..Cardinality(Escaped(Tok.begin, Tok.stop))
  <2>1. Covers(tokens[word], From(word))
    BY CoverMeans DEF LexInv
  <2>2. Tok.type # "eof"
    BY DEF IsText
  <2> QED
    BY <2>1, <2>2 DEF Covers, Tok
<1>4. Tok.stop =< Tok.end
  <2>1. Tok.begin =< Tok.stop
    BY <1>2, <1>3
  <2>2. Cardinality(Escaped(Tok.begin, Tok.stop)) \in 0..(Tok.stop - Tok.begin)
    BY <1>2, <2>1, EscapedFacts
  <2> QED
    BY <1>2, <1>3, <2>2
<1>5. Plain(Tok.begin, Tok.stop)
  <2>1. \A k \in Tok.begin..(Tok.stop - 1) : k \in Tok.begin..(Tok.end - 1)
    BY <1>2, <1>4
  <2> QED
    BY <2>1 DEF Plain, Regular
<1>6. Escaped(Tok.begin, Tok.stop) = {}
  BY <1>5 DEF Plain, Escaped
<1>7. Tok.end = Tok.stop
  <2>1. Cardinality(Escaped(Tok.begin, Tok.stop)) = 0
    BY <1>6, FS_EmptySet
  <2> QED
    BY <1>2, <1>3, <2>1
<1>8. WordEnd = Tok.stop
  BY <1>2, <1>7 DEF WordEnd
<1>9. \A k \in Tok.begin..(Tok.stop - 1) : At(k) = CharAt(k)
  BY <1>2, <1>8 DEF At
<1> QED
  BY <1>2, <1>3, <1>5, <1>7, <1>8, <1>9

\* The agreement is about the word, which stays.
LEMMA AgreeingStays ==
  ASSUME UNCHANGED <<lexer, word>>
  PROVE  /\ Regular(Tok)' <=> Regular(Tok)
         /\ \A m, u, R, B : Agreeing(m, u, R, B)' <=> Agreeing(m, u, R, B)
<1>1. line' = line /\ tokens' = tokens /\ toggled' = toggled /\ closed' = closed /\ word' = word
  BY DEF lexer
<1>2. Tok' = Tok /\ \A k : CharAt(k)' = CharAt(k)
  BY <1>1 DEF Tok, CharAt
<1>3. Regular(Tok)' <=> Regular(Tok)
  BY <1>2 DEF Regular
<1>4. \A k, u, n : NextFlag(k, u, n)' = NextFlag(k, u, n) /\ NextDepth(k, u, n)' = NextDepth(k, u, n)
  BY <1>2 DEF NextFlag, NextDepth
<1>5. \A f, d, k, T, C : Follows(f, d, k, T, C)' <=> Follows(f, d, k, T, C)
  BY <1>2, <1>4 DEF Follows
<1>6. \A f, d : (Trace(f, d, Tok.begin, Tok.stop, toggled, closed))'
                   <=> Trace(f, d, Tok.begin, Tok.stop, toggled, closed)
  BY <1>1, <1>2, <1>5 DEF Trace
<1>7. \A m, u, R, B : Agreeing(m, u, R, B)' <=> Agreeing(m, u, R, B)
  BY <1>1, <1>2, <1>6 DEF Agreeing
<1> QED
  BY <1>3, <1>7

\* A step to offset m of the word.
LEMMA AgreeGoesOn ==
  ASSUME IInv, epc = "expand", UNCHANGED <<lexer, word>>,
         NEW m, i' = m, epc' \in {"expand", "next", "overrun"},
         \A k \in removed' : k < m,
         epc' # "overrun" /\ Regular(Tok) => Agreeing(m, eflag', removed', bodyEnds')
  PROVE  AgreeInv'
<1>1. PICK u, R, B : u = eflag' /\ R = removed' /\ B = bodyEnds'
  OBVIOUS
<1>2. (Regular(Tok)' <=> Regular(Tok)) /\ (Agreeing(m, u, R, B)' <=> Agreeing(m, u, R, B))
  BY AgreeingStays
<1>3. Agreeing(m, u, R, B)' => (Agreeing(i, eflag, removed, bodyEnds))'
  BY <1>1 DEF Agreeing
<1>4. word' \in 1..Len(tokens')
  BY WordStays
<1> QED
  BY <1>1, <1>2, <1>3, <1>4 DEF AgreeInv, InAWord

\* One character that opens no substitution.
LEMMA AgreeingOne ==
  ASSUME Tok.begin \in Nat, Tok.stop \in Nat,
         NEW m \in Nat, NEW u, NEW R, NEW B, Agreeing(m, u, R, B), Tok.begin =< m, m < Tok.stop,
         NEW v, v = NextFlag(m, u, 0), NextDepth(m, u, 0) = 0,
         NEW R2, SameBelow(m, R, R2), m \in R2 <=> CharAt(m) \in Quotes /\ v # u
  PROVE  Agreeing(m + 1, v, R2, B)
<1>1. PICK f \in [Nat -> Modes], d \in [Nat -> Nat] :
         /\ Trace(f, d, Tok.begin, Tok.stop, toggled, closed) /\ f[Tok.stop] = "unquoted"
         /\ f[m] = u /\ d[m] = 0
  BY DEF Agreeing
<1>2. Follows(f, d, m, toggled, closed)
  <2>1. m \in Tok.begin..(Tok.stop - 1)
    OBVIOUS
  <2> QED
    BY <1>1, <2>1 DEF Trace
<1>3. f[m + 1] = v /\ d[m + 1] = 0 /\ (m \in toggled <=> m \in R2) /\ m \notin closed
  BY <1>1, <1>2 DEF Follows
<1>4. ASSUME NEW k \in Tok.begin..((m + 1) - 1)
      PROVE  (k \in R2 <=> k \in toggled) /\ (k \in closed => k \in B)
  <2>1. CASE k = m
    BY <1>3, <2>1
  <2>2. CASE k # m
    <3>1. k \in Tok.begin..(m - 1) /\ k \in Nat /\ k < m
      BY <2>2
    <3> QED
      BY <3>1 DEF Agreeing, SameBelow
  <2> QED
    BY <2>1, <2>2
<1> QED
  BY <1>1, <1>3, <1>4 DEF Agreeing

\* Characters that mean nothing to the trace leave it as it is.
Neutral(j, e) == \A k \in j..(e - 1) : CharAt(k) \notin {"(", ")", "$"} \cup Quotes
Steady(f, d, j, e) == \A k \in j..e : f[k] = f[j] /\ d[k] = d[j]

LEMMA TraceRuns ==
  ASSUME NEW f \in [Nat -> Modes], NEW d \in [Nat -> Nat], NEW b \in Nat, NEW p \in Nat,
         NEW T, NEW C, Trace(f, d, b, p, T, C),
         NEW j \in b..p, NEW e \in j..p, Neutral(j, e),
         f[j] # "dollar"
  PROVE  Steady(f, d, j, e)
<1> DEFINE Same(k) == f[k] = f[j] /\ d[k] = d[j]
           S == {k \in j..e : ~Same(k)}
<1>1. SUFFICES ASSUME S # {} PROVE FALSE
  BY DEF Steady
<1>2. S \in SUBSET Nat
  OBVIOUS
<1>3. PICK x : x = Min(S)
  OBVIOUS
<1>4. x \in S /\ \A y \in S : x =< y
  BY <1>1, <1>2, <1>3, MinInSet
<1>5. x \in j..e /\ ~Same(x) /\ x # j
  BY <1>4
<1>6. PICK k \in Nat : x = k + 1
  <2>1. x - 1 \in Nat /\ x = (x - 1) + 1
    BY <1>5
  <2> QED
    BY <2>1
<1>7. k \in j..(e - 1) /\ k \in j..e /\ k \in b..(p - 1)
  BY <1>5, <1>6
<1>8. Same(k)
  <2>1. k \notin S
    BY <1>4, <1>6
  <2> QED
    BY <1>7, <2>1
<1>9. Follows(f, d, k, T, C)
  BY <1>7 DEF Trace
<1>10. CharAt(k) \notin {"(", ")", "$"} \cup Quotes
  BY <1>7 DEF Neutral
<1>11. f[k + 1] = f[k]
  BY <1>8, <1>9, <1>10 DEF Follows, NextFlag, toggle_flag
<1>12. d[k + 1] = d[k]
  <2>1. d[k] \in Nat
    OBVIOUS
  <2> QED
    BY <1>8, <1>9, <1>10, <2>1 DEF Follows, NextDepth
<1> QED
  BY <1>5, <1>6, <1>8, <1>11, <1>12

\* A substitution without quotes and parentheses inside, up to its end at e.
LEMMA AgreeingSubstitution ==
  ASSUME Tok.begin \in Nat, Tok.stop \in Nat,
         NEW m \in Nat, NEW u \in {"unquoted", "double"}, NEW R, NEW B, Agreeing(m, u, R, B),
         Tok.begin =< m, \A k \in R : k < m,
         CharAt(m) = "$", CharAt(m + 1) = "(",
         NEW e \in (m + 2)..(Tok.stop - 1), CharAt(e) = ")",
         Neutral(m + 2, e)
  PROVE  Agreeing(e + 1, u, R, B \cup {e})
<1>1. PICK f \in [Nat -> Modes], d \in [Nat -> Nat] :
         /\ Trace(f, d, Tok.begin, Tok.stop, toggled, closed) /\ f[Tok.stop] = "unquoted"
         /\ f[m] = u /\ d[m] = 0
  BY DEF Agreeing
<1>2. PICK j \in Nat : j = m + 1
  OBVIOUS
<1>3. PICK h \in Nat : h = m + 2
  OBVIOUS
<1>4. j + 1 = h /\ m + 1 = j /\ e \in Nat /\ h =< e /\ e < Tok.stop
      /\ m \in Tok.begin..(Tok.stop - 1) /\ j \in Tok.begin..(Tok.stop - 1)
      /\ h \in Tok.begin..Tok.stop /\ e \in h..Tok.stop /\ e \in Tok.begin..(Tok.stop - 1)
  BY <1>2, <1>3
<1>5. /\ Follows(f, d, m, toggled, closed) /\ Follows(f, d, j, toggled, closed)
      /\ Follows(f, d, e, toggled, closed)
  BY <1>1, <1>4 DEF Trace
<1>6. f[j] = (IF u = "unquoted" THEN "dollar" ELSE u) /\ d[j] = 0
  BY <1>1, <1>4, <1>5 DEF Follows, NextFlag, NextDepth, toggle_flag, Quotes
<1>7. CharAt(j) = "("
  BY <1>2
<1>8. f[h] = u /\ d[h] = (IF u = "unquoted" THEN 1 ELSE 0)
  <2>1. f[h] = NextFlag(j, f[j], d[j]) /\ d[h] = NextDepth(j, f[j], d[j])
    BY <1>4, <1>5 DEF Follows
  <2> QED
    BY <1>6, <1>7, <2>1 DEF NextFlag, NextDepth, toggle_flag, Quotes
<1>9. \A k \in h..e : f[k] = u /\ d[k] = d[h]
  <2>1. Neutral(h, e)
    BY <1>3
  <2>2. f[h] # "dollar"
    BY <1>8
  <2>3. PICK b \in Nat, p \in Nat : b = Tok.begin /\ p = Tok.stop
    OBVIOUS
  <2>4. PICK T, C : T = toggled /\ C = closed
    OBVIOUS
  <2>5. Trace(f, d, b, p, T, C) /\ h \in b..p /\ e \in h..p
    BY <1>1, <1>4, <2>3, <2>4
  <2>6. Steady(f, d, h, e)
    BY ONLY f \in [Nat -> Modes], d \in [Nat -> Nat], b \in Nat, p \in Nat,
            <2>1, <2>2, <2>5, TraceRuns
  <2> QED
    BY <1>8, <2>6 DEF Steady
<1>10. f[e + 1] = u /\ d[e + 1] = 0
  <2>1. f[e] = u /\ d[e] = d[h]
    BY <1>4, <1>9
  <2>2. f[e + 1] = NextFlag(e, f[e], d[e]) /\ d[e + 1] = NextDepth(e, f[e], d[e])
    BY <1>5 DEF Follows
  <2> QED
    BY <1>8, <2>1, <2>2 DEF NextFlag, NextDepth, toggle_flag, Quotes
<1>11. ASSUME NEW k \in m..e PROVE k \notin toggled /\ (k \in closed => k = e)
  <2>1. k \in Nat /\ k + 1 \in Nat
    OBVIOUS
  <2>2. CASE k = m
    BY <1>1, <1>5, <2>2 DEF Follows, Quotes
  <2>3. CASE k = j
    BY <1>5, <1>6, <1>7, <2>3 DEF Follows, Quotes
  <2>4. CASE k = e
    <3>1. CharAt(e) \notin Quotes
      BY DEF Quotes
    <3> QED
      BY <1>5, <2>4, <3>1 DEF Follows
  <2>5. CASE k \notin {m, j, e}
    <3>1. k \in h..e /\ k + 1 \in h..e /\ k \in Tok.begin..(Tok.stop - 1)
      BY <1>2, <1>3, <1>4, <2>5
    <3>2. Follows(f, d, k, toggled, closed)
      BY <1>1, <3>1 DEF Trace
    <3>3. f[k] = u /\ d[k] = d[h] /\ f[k + 1] = u /\ d[k + 1] = d[h]
      BY <1>9, <3>1
    <3> QED
      BY <1>8, <3>2, <3>3 DEF Follows
  <2> QED
    BY <2>2, <2>3, <2>4, <2>5
<1>12. ASSUME NEW k \in Tok.begin..((e + 1) - 1)
       PROVE  (k \in R <=> k \in toggled) /\ (k \in closed => k \in B \cup {e})
  <2>1. CASE k < m
    <3>1. k \in Tok.begin..(m - 1)
      BY <2>1
    <3> QED
      BY <3>1 DEF Agreeing
  <2>2. CASE ~(k < m)
    <3>1. k \in m..e
      BY <1>4, <2>2
    <3> QED
      BY <1>11, <2>2, <3>1
  <2> QED
    BY <2>1, <2>2
<1> QED
  BY <1>1, <1>10, <1>12 DEF Agreeing

\* Where the expansion of a word begins nothing has been removed yet.
LEMMA WordBegins ==
  LexInv /\ TraceInv /\ pc # "error" /\ word \in 1..Len(tokens) /\ IsText(Tok) /\ Regular(Tok)
    => Agreeing(Tok.begin, "unquoted", {}, {})
<1> SUFFICES ASSUME LexInv, TraceInv, pc # "error", word \in 1..Len(tokens), IsText(Tok), Regular(Tok)
             PROVE  Agreeing(Tok.begin, "unquoted", {}, {})
  OBVIOUS
<1>1. tokens \in Seq(Token)
  BY DEF LexInv, LexTypes
<1>2. Tok.begin \in Nat /\ Tok.end = Tok.stop /\ Plain(Tok.begin, Tok.stop)
  BY <1>1, RegularWord
<1>3. Traced(Tok.begin, Tok.stop, "unquoted", 0, toggled, closed)
  BY <1>2 DEF TraceInv, TokensTraced, TokenTraced, Tok
<1>4. PICK f \in [Nat -> Modes], d \in [Nat -> Nat] :
        Trace(f, d, Tok.begin, Tok.stop, toggled, closed) /\ f[Tok.stop] = "unquoted"
  BY <1>3 DEF Traced
<1>5. f[Tok.begin] = "unquoted" /\ d[Tok.begin] = 0
  BY <1>4 DEF Trace
<1>6. Tok.begin..(Tok.begin - 1) = {}
  <2>1. PICK b \in Nat : b = Tok.begin
    BY <1>2
  <2>2. b..(b - 1) = {}
    OBVIOUS
  <2> QED
    BY <2>1, <2>2
<1> QED
  BY <1>2, <1>4, <1>5, <1>6 DEF Agreeing

\* So it is after a step.
LEMMA NextWordBegins ==
  (LexInv /\ TraceInv /\ pc # "error" /\ word \in 1..Len(tokens) /\ IsText(Tok) /\ Regular(Tok)
     => Agreeing(Tok.begin, "unquoted", {}, {}))'
BY WordBegins, PTL

\* The traces are the lexer's.
LEMMA TraceOfLexer ==
  ASSUME TraceInv, UNCHANGED lexer
  PROVE  TraceInv'
<1>1. /\ line' = line /\ pos' = pos /\ begin' = begin /\ flag' = flag /\ depth' = depth
      /\ pc' = pc /\ tokens' = tokens /\ toggled' = toggled /\ closed' = closed
  BY DEF lexer
<1>2. \A k : CharAt(k)' = CharAt(k)
  BY <1>1 DEF CharAt
<1>3. \A b, p : Plain(b, p)' <=> Plain(b, p)
  BY <1>2 DEF Plain
<1>4. \A b, p, u, n, T, C : Traced(b, p, u, n, T, C)' <=> Traced(b, p, u, n, T, C)
  BY <1>1, TraceOfLine
<1>5. \A t : TokenTraced(t)' <=> TokenTraced(t)
  <2> SUFFICES ASSUME NEW t PROVE TokenTraced(t)' <=> TokenTraced(t)
    OBVIOUS
  <2>1. PICK T, C : T = toggled /\ C = closed
    OBVIOUS
  <2>2. Traced(t.begin, t.stop, "unquoted", 0, T, C)' <=> Traced(t.begin, t.stop, "unquoted", 0, T, C)
    BY <1>4
  <2>3. Traced(t.begin, t.stop, "unquoted", 0, T, C)'
          <=> (Traced(t.begin, t.stop, "unquoted", 0, toggled, closed))'
    BY <1>1, <2>1 DEF Traced, Trace, Follows
  <2> QED
    BY <1>3, <2>1, <2>2, <2>3 DEF TokenTraced, IsText
<1>6. TokensTraced' <=> TokensTraced
  <2>1. \A k : (TokenTraced(tokens[k]))' <=> TokenTraced(tokens[k])
    <3> SUFFICES ASSUME NEW k PROVE (TokenTraced(tokens[k]))' <=> TokenTraced(tokens[k])
      OBVIOUS
    <3>1. PICK t : t = tokens[k]
      OBVIOUS
    <3>2. (TokenTraced(tokens[k]))' <=> TokenTraced(t)'
      BY <1>1, <3>1 DEF TokenTraced, IsText
    <3> QED
      BY <1>5, <3>1, <3>2
  <2> QED
    BY <1>1, <2>1 DEF TokensTraced
<1>7. ScanTraced' <=> ScanTraced
  <2>1. PICK b, p, u, n, T, C : b = begin /\ p = pos /\ u = flag
                                /\ n = (IF pc = "sub" THEN depth ELSE 0) /\ T = toggled /\ C = closed
    OBVIOUS
  <2>2. Traced(b, p, u, n, T, C)'
          <=> (Traced(begin, pos, flag, IF pc = "sub" THEN depth ELSE 0, toggled, closed))'
    BY <1>1, <2>1 DEF Traced, Trace, Follows
  <2>3. Plain(b, p)' <=> (Plain(begin, pos))'
    BY <1>1, <2>1 DEF Plain
  <2> QED
    BY <1>1, <1>3, <1>4, <2>1, <2>2, <2>3 DEF ScanTraced
<1> QED
  BY <1>1, <1>6, <1>7 DEF TraceInv

\* The step to the next word begins its expansion.
LEMMA NextWordAgrees ==
  ASSUME AInv, NextWord
  PROVE  AgreeInv'
<1>1. /\ pc = "tokenized" /\ UNCHANGED lexer
      /\ eflag' = "unquoted" /\ removed' = {} /\ bodyEnds' = {}
  BY DEF NextWord
<1>2. LexInv' /\ pc' = pc /\ tokens' = tokens /\ TraceInv'
  BY <1>1, LexerStays, TraceOfLexer DEF AInv, IInv
<1>3. PICK w \in (word + 1)..(Len(tokens) + 1) :
        /\ w =< Len(tokens) => IsText(tokens[w])
        /\ word' = w
        /\ IF w =< Len(tokens) THEN epc' = "expand" /\ i' = tokens[w].begin
           ELSE epc' = "done" /\ i' = i
  BY DEF NextWord
<1>4. word \in Nat /\ Len(tokens) \in Nat
  BY DEF AInv, IInv, LexInv, LexTypes, ExpandInv
<1>5. CASE w =< Len(tokens)
  <2>1. w \in 1..Len(tokens) /\ epc' = "expand" /\ i' = tokens[w].begin /\ IsText(tokens[w])
    BY <1>3, <1>4, <1>5
  <2>2. Tok' = tokens[w]
    BY <1>2, <1>3 DEF Tok
  <2>3. IsText(Tok)' /\ i' = (Tok.begin)' /\ word' \in 1..Len(tokens')
    BY <1>2, <1>3, <2>1, <2>2 DEF IsText
  <2>4. Regular(Tok)' => (Agreeing(Tok.begin, "unquoted", {}, {}))'
    BY <1>1, <1>2, <2>3, NextWordBegins
  <2>5. (Agreeing(Tok.begin, "unquoted", {}, {}))' => (Agreeing(i, eflag, removed, bodyEnds))'
    BY <1>1, <2>3 DEF Agreeing
  <2> QED
    BY <1>1, <2>1, <2>4, <2>5 DEF AgreeInv, InAWord
<1>6. CASE ~(w =< Len(tokens))
  BY <1>3, <1>6 DEF AgreeInv, InAWord
<1> QED
  BY <1>5, <1>6

\* A step of the expansion keeps to the trace.
LEMMA ExpandWordAgrees ==
  ASSUME AInv, expand_word
  PROVE  AgreeInv'
<1>1. epc = "expand" /\ UNCHANGED <<lexer, word>>
  BY DEF expand_word
<1>2. /\ IInv /\ LexInv /\ ExpandInv /\ eflag \in Flags
      /\ \A k \in removed : k \in Nat /\ k < i
      /\ Regular(Tok) => Agreeing(i, eflag, removed, bodyEnds)
  BY <1>1 DEF AInv, IInv, ExpandInv, AgreeInv, InAWord
<1>t. /\ Tok.begin \in Nat /\ WordEnd \in Nat /\ i \in Nat /\ i =< WordEnd /\ Tok.begin =< i
      /\ word \in 1..Len(tokens) /\ IsText(Tok) /\ tokens \in Seq(Token)
      /\ \A k \in Nat : At(k) = "nul" <=> ~(k < WordEnd)
  BY <1>1, <1>2, InWord DEF LexInv, LexTypes
<1>3. At(i) # "nul" => i < WordEnd
  BY <1>t
<1>4. ASSUME NEW m \in Nat, i =< m PROVE \A k \in removed : k < m
  BY <1>2, <1>t, <1>4
<1>r. Regular(Tok) =>
        /\ Tok.stop \in Nat /\ Tok.end = Tok.stop /\ WordEnd = Tok.stop
        /\ \A k \in Tok.begin..(Tok.stop - 1) : At(k) = CharAt(k)
  BY <1>2, <1>t, RegularWord
<1>5. Regular(Tok) /\ At(i) # "nul" =>
        /\ i < Tok.stop /\ At(i) = CharAt(i)
        /\ CharAt(i) \notin {"backslash", "grave"}
        /\ CharAt(i) = "$" =>
             /\ CharAt(i + 1) = "(" /\ At(i + 1) = "("
             /\ \E e \in (i + 2)..(Tok.stop - 1) :
                  /\ CharAt(e) = ")"
                  /\ \A j \in (i + 2)..(e - 1) : CharAt(j) \notin {"(", ")", "$"} \cup Quotes
  <2> SUFFICES ASSUME Regular(Tok), At(i) # "nul"
               PROVE  /\ i < Tok.stop /\ At(i) = CharAt(i)
                      /\ CharAt(i) \notin {"backslash", "grave"}
                      /\ CharAt(i) = "$" =>
                           /\ CharAt(i + 1) = "(" /\ At(i + 1) = "("
                           /\ \E e \in (i + 2)..(Tok.stop - 1) :
                                /\ CharAt(e) = ")"
                                /\ \A j \in (i + 2)..(e - 1) :
                                     CharAt(j) \notin {"(", ")", "$"} \cup Quotes
    OBVIOUS
  <2>1. i < Tok.stop /\ i \in Tok.begin..(Tok.stop - 1) /\ i \in Tok.begin..(Tok.end - 1)
    BY <1>3, <1>r, <1>t
  <2>2. At(i) = CharAt(i)
    BY <1>r, <2>1
  <2>3. /\ CharAt(i) \notin {"backslash", "grave"}
        /\ CharAt(i) = "$" =>
             /\ CharAt(i + 1) = "("
             /\ \E e \in (i + 2)..(Tok.end - 1) :
                  /\ CharAt(e) = ")"
                  /\ \A j \in (i + 2)..(e - 1) : CharAt(j) \notin {"(", ")", "$"} \cup Quotes
    BY <2>1 DEF Regular
  <2>4. ASSUME NEW e \in (i + 2)..(Tok.end - 1) PROVE At(i + 1) = CharAt(i + 1)
    <3>1. i + 1 \in Tok.begin..(Tok.stop - 1)
      BY <1>r, <1>t, <2>4
    <3> QED
      BY <1>r, <3>1
  <2> QED
    BY <1>r, <2>1, <2>2, <2>3, <2>4
<1>6. CASE Quote
  <2>1. /\ At(i) \in Quotes /\ FlagBehind(At(i)) # eflag /\ eflag' = FlagBehind(At(i))
        /\ removed' = removed \cup {i} /\ i' = i + 1 /\ bodyEnds' = bodyEnds /\ epc' = "expand"
        /\ At(i) # "nul"
    BY <1>1, <1>6 DEF Quote, IsQuote, GoOn, Quotes
  <2>2. \A k \in removed' : k < i + 1
    BY <1>2, <1>t, <2>1
  <2>3. Regular(Tok) => Agreeing(i + 1, eflag', removed', bodyEnds')
    <3> SUFFICES ASSUME Regular(Tok) PROVE Agreeing(i + 1, eflag', removed', bodyEnds')
      OBVIOUS
    <3>1. i < Tok.stop /\ CharAt(i) = At(i) /\ Tok.stop \in Nat
      BY <1>5, <1>r, <2>1
    <3>2. PICK v, R2 : v = eflag' /\ R2 = removed'
      OBVIOUS
    <3>3. v = NextFlag(i, eflag, 0) /\ NextDepth(i, eflag, 0) = 0
      <4>1. eflag # "dollar" /\ CharAt(i) # "$" /\ CharAt(i) \in Quotes
        BY <1>2, <2>1, <3>1 DEF Flags, Quotes
      <4>2. v = toggle_flag(CharAt(i), eflag)
        BY <2>1, <3>1, <3>2, <4>1 DEF toggle_flag, FlagBehind
      <4> QED
        BY <4>1, <4>2 DEF NextFlag, NextDepth
    <3>4. SameBelow(i, removed, R2) /\ (i \in R2 <=> CharAt(i) \in Quotes /\ v # eflag)
      BY <2>1, <3>1, <3>2 DEF SameBelow
    <3>5. Agreeing(i + 1, v, R2, bodyEnds)
      BY <1>2, <1>t, <3>1, <3>3, <3>4, AgreeingOne
    <3> QED
      BY <2>1, <3>2, <3>5
  <2>4. PICK m : m = i + 1
    OBVIOUS
  <2> QED
    BY <1>1, <1>2, <2>1, <2>2, <2>3, <2>4, AgreeGoesOn
<1>7. CASE Escape
  <2>1. At(i) = "backslash" /\ removed' = removed /\ epc' \in {"expand", "overrun"} /\ i' = i + 2
    BY <1>1, <1>7 DEF Escape, Backslashed, GoOn
  <2>2. ~Regular(Tok)
    BY <1>5, <2>1
  <2>3. PICK m \in Nat : m = i + 2
    BY <1>t
  <2>4. \A k \in removed' : k < m
    BY <1>4, <1>t, <2>1, <2>3
  <2> QED
    BY <1>1, <1>2, <2>1, <2>2, <2>3, <2>4, AgreeGoesOn
<1>8. CASE expand_cmdsub
  <2>1. /\ At(i) = "$" /\ eflag # "single" /\ At(i + 1) = "(" /\ At(i) # "nul"
        /\ eflag' = eflag /\ removed' = removed /\ epc' = "expand"
    BY <1>1, <1>8 DEF expand_cmdsub, Dollar, GoOn
  <2>2. PICK close : close = Find(i + 2, {")"})
    OBVIOUS
  <2>3. close \in (i + 2)..WordEnd
    <3>1. i + 1 \in Nat /\ i + 2 \in Nat
      BY <1>t
    <3>2. i + 2 =< WordEnd
      <4>1. At(i + 1) # "nul"
        BY <2>1
      <4>2. i + 1 < WordEnd
        BY <1>t, <3>1, <4>1
      <4> QED
        BY <1>t, <4>2
    <3> QED
      BY <1>1, <1>2, <2>2, <3>1, <3>2, FindFacts
  <2>4. IF At(close) = ")" THEN i' = close + 1 /\ bodyEnds' = bodyEnds \cup {close} ELSE i' = close
    BY <1>8, <2>2 DEF expand_cmdsub, GoOn
  <2>5. PICK m \in Nat : m = i'
    BY <1>t, <2>3, <2>4
  <2>6. i =< m
    BY <1>t, <2>3, <2>4, <2>5
  <2>7. \A k \in removed' : k < m
    BY <1>4, <2>1, <2>5, <2>6
  <2>8. Regular(Tok) => Agreeing(m, eflag', removed', bodyEnds')
    <3> SUFFICES ASSUME Regular(Tok) PROVE Agreeing(m, eflag', removed', bodyEnds')
      OBVIOUS
    <3>1. CharAt(i) = "$" /\ CharAt(i + 1) = "(" /\ Tok.stop \in Nat /\ WordEnd = Tok.stop
      BY <1>5, <1>r, <2>1
    <3>2. PICK e \in (i + 2)..(Tok.stop - 1) :
            /\ CharAt(e) = ")"
            /\ \A j \in (i + 2)..(e - 1) : CharAt(j) \notin {"(", ")", "$"} \cup Quotes
      BY <1>5, <2>1, <3>1
    <3>3. Neutral(i + 2, e)
      BY <3>2 DEF Neutral
    <3>4. At(e) = ")" /\ \A j \in (i + 2)..(e - 1) : At(j) \notin {")"}
      <4>1. e \in Tok.begin..(Tok.stop - 1)
        BY <1>t, <3>1
      <4>2. ASSUME NEW j \in (i + 2)..(e - 1) PROVE At(j) # ")"
        <5>1. j \in Tok.begin..(Tok.stop - 1)
          BY <1>t, <3>1
        <5>2. At(j) = CharAt(j)
          BY <1>r, <5>1
        <5> QED
          BY <3>2, <5>2
      <4> QED
        BY <1>r, <3>2, <4>1, <4>2
    <3>5. close = e
      <4>1. i + 2 \in Nat /\ e \in (i + 2)..WordEnd /\ At(e) \in {")"}
        BY <1>t, <3>1, <3>4
      <4> QED
        BY <1>t, <2>2, <3>4, <4>1, FindIs
    <3>6. m = e + 1 /\ bodyEnds' = bodyEnds \cup {e}
      BY <2>4, <2>5, <3>4, <3>5
    <3>7. eflag \in {"unquoted", "double"}
      BY <1>2, <2>1 DEF Flags, Quotes
    <3>8. Agreeing(e + 1, eflag, removed, bodyEnds \cup {e})
      BY <1>2, <1>t, <3>1, <3>2, <3>3, <3>7, AgreeingSubstitution
    <3> QED
      BY <2>1, <3>6, <3>8
  <2> QED
    BY <1>1, <1>2, <2>1, <2>5, <2>7, <2>8, AgreeGoesOn
<1>9. CASE expand_braced_variable
  <2>1. At(i) = "$" /\ At(i + 1) = "{" /\ removed' = removed /\ epc' = "expand" /\ At(i) # "nul"
    BY <1>1, <1>9 DEF expand_braced_variable, Dollar, GoOn
  <2>2. ~Regular(Tok)
    BY <1>5, <2>1
  <2>3. PICK close : close = Find(i + 2, {"}"})
    OBVIOUS
  <2>4. close \in (i + 2)..WordEnd
    <3>1. i + 1 \in Nat /\ i + 2 \in Nat
      BY <1>t
    <3>2. i + 2 =< WordEnd
      <4>1. At(i + 1) # "nul"
        BY <2>1
      <4>2. i + 1 < WordEnd
        BY <1>t, <3>1, <4>1
      <4> QED
        BY <1>t, <4>2
    <3> QED
      BY <1>1, <1>2, <2>3, <3>1, <3>2, FindFacts
  <2>5. i' = close \/ i' = close + 1
    BY <1>9, <2>3 DEF expand_braced_variable, GoOn
  <2>6. PICK m \in Nat : m = i'
    BY <1>t, <2>4, <2>5
  <2>7. i =< m
    BY <1>t, <2>4, <2>5, <2>6
  <2>8. \A k \in removed' : k < m
    BY <1>4, <2>1, <2>6, <2>7
  <2> QED
    BY <1>1, <1>2, <2>1, <2>2, <2>6, <2>8, AgreeGoesOn
<1>10. CASE expand_loose_variable
  <2>1. At(i) = "$" /\ At(i + 1) # "(" /\ removed' = removed /\ epc' = "expand" /\ At(i) # "nul"
    BY <1>1, <1>10 DEF expand_loose_variable, Dollar, GoOn
  <2>2. ~Regular(Tok)
    BY <1>5, <2>1
  <2>3. PICK e : e = Find(i + 1, {"blank"})
    OBVIOUS
  <2>4. e \in (i + 1)..WordEnd
    <3>1. i + 1 \in Nat /\ i + 1 =< WordEnd
      BY <1>3, <1>t, <2>1
    <3> QED
      BY <1>1, <1>2, <2>3, <3>1, FindFacts
  <2>5. PICK N : N = Names(i + 1)
    OBVIOUS
  <2>6. i' = IF N # {} THEN Min(N) ELSE e
    BY <1>10, <2>3, <2>5 DEF expand_loose_variable, GoOn
  <2>7. N \in SUBSET Nat /\ \A n \in N : i =< n
    <3>1. N \subseteq (i + 1 + 1)..e
      BY <2>3, <2>5 DEF Names
    <3> QED
      BY <1>t, <2>4, <3>1
  <2>8. N # {} => Min(N) \in N
    BY <2>7, MinInSet
  <2>9. i' \in Nat /\ i =< i'
    <3>1. CASE N # {}
      BY <2>6, <2>7, <2>8, <3>1
    <3>2. CASE N = {}
      BY <1>t, <2>4, <2>6, <3>2
    <3> QED
      BY <3>1, <3>2
  <2>10. PICK m \in Nat : m = i'
    BY <2>9
  <2>11. \A k \in removed' : k < m
    BY <1>4, <2>1, <2>9, <2>10
  <2> QED
    BY <1>1, <1>2, <2>1, <2>2, <2>10, <2>11, AgreeGoesOn
<1>11. CASE Copy
  <2>1. /\ At(i) # "nul" /\ ~IsQuote /\ ~Dollar /\ i' = i + 1 /\ epc' = "expand"
        /\ eflag' = eflag /\ removed' = removed /\ bodyEnds' = bodyEnds
    BY <1>1, <1>11 DEF Copy, NUL, GoOn
  <2>2. PICK m \in Nat : m = i + 1
    BY <1>t
  <2>3. \A k \in removed' : k < m
    BY <1>4, <1>t, <2>1, <2>2
  <2>4. Regular(Tok) => Agreeing(m, eflag', removed', bodyEnds')
    <3> SUFFICES ASSUME Regular(Tok) PROVE Agreeing(m, eflag', removed', bodyEnds')
      OBVIOUS
    <3>1. i < Tok.stop /\ CharAt(i) = At(i) /\ Tok.stop \in Nat
      BY <1>5, <1>r, <2>1
    <3>2. eflag = NextFlag(i, eflag, 0) /\ NextDepth(i, eflag, 0) = 0
      <4>1. eflag # "dollar"
        BY <1>2 DEF Flags, Quotes
      <4>2. ~(eflag = "unquoted" /\ CharAt(i) = "$")
        BY <2>1, <3>1 DEF Dollar
      <4>3. toggle_flag(CharAt(i), eflag) = eflag
        BY <2>1, <3>1 DEF IsQuote, FlagBehind, toggle_flag
      <4> QED
        BY <4>1, <4>2, <4>3 DEF NextFlag, NextDepth
    <3>3. SameBelow(i, removed, removed) /\ i \notin removed
      BY <1>2, <1>t DEF SameBelow
    <3>4. Agreeing(i + 1, eflag, removed, bodyEnds)
      BY <1>2, <1>t, <3>1, <3>2, <3>3, AgreeingOne
    <3> QED
      BY <2>1, <2>2, <3>4
  <2> QED
    BY <1>1, <1>2, <2>1, <2>2, <2>3, <2>4, AgreeGoesOn
<1>12. CASE WordDone
  <2>1. epc' = "next" /\ i' = i /\ eflag' = eflag /\ removed' = removed /\ bodyEnds' = bodyEnds
    BY <1>12 DEF WordDone
  <2>2. PICK m : m = i
    OBVIOUS
  <2> QED
    BY <1>1, <1>2, <2>1, <2>2, AgreeGoesOn
<1> QED
  BY <1>6, <1>7, <1>8, <1>9, <1>10, <1>11, <1>12 DEF expand_word

\* Every step keeps the agreement.
LEMMA AgreementKeeps == AInv /\ [Next]_vars => AInv'
<1> SUFFICES ASSUME AInv, [Next]_vars PROVE AInv'
  OBVIOUS
<1>1. IInv' /\ IInv /\ LexInv /\ TraceInv /\ AgreeInv
  BY NextKeeps DEF AInv, IInv
<1>2. CASE Lex
  <2>1. TraceInv'
    BY <1>1, <1>2, LexTraces DEF Lex
  <2>2. pc # "tokenized" /\ epc' = epc
    BY <1>2 DEF Lex, expand, lx_tokenize, StartToken, Scan, ScanSubstitution
  <2>3. epc' = "lexing"
    BY <1>1, <2>2 DEF IInv, ExpandInv
  <2>4. AgreeInv'
    BY <2>3 DEF AgreeInv, InAWord
  <2> QED
    BY <1>1, <2>1, <2>4 DEF AInv
<1>3. CASE NextWord
  <2>1. UNCHANGED lexer
    BY <1>3 DEF NextWord
  <2> QED
    BY <1>1, <1>3, <2>1, TraceOfLexer, NextWordAgrees DEF AInv
<1>4. CASE expand_word
  <2>1. UNCHANGED lexer
    BY <1>4 DEF expand_word
  <2> QED
    BY <1>1, <1>4, <2>1, TraceOfLexer, ExpandWordAgrees DEF AInv
<1>5. CASE UNCHANGED vars
  <2>1. /\ UNCHANGED lexer /\ UNCHANGED <<lexer, word>> /\ word' = word /\ i' = i /\ eflag' = eflag
        /\ epc' = epc /\ removed' = removed /\ bodyEnds' = bodyEnds /\ tokens' = tokens
    BY <1>5 DEF vars, expand, lexer
  <2>2. PICK m, u, R, B : m = i /\ u = eflag /\ R = removed /\ B = bodyEnds
    OBVIOUS
  <2>3. (Regular(Tok)' <=> Regular(Tok)) /\ (Agreeing(m, u, R, B)' <=> Agreeing(m, u, R, B))
    BY <2>1, AgreeingStays
  <2>4. Agreeing(m, u, R, B)' => (Agreeing(i, eflag, removed, bodyEnds))'
    BY <2>1, <2>2 DEF Agreeing
  <2>5. AgreeInv'
    BY <1>1, <2>1, <2>2, <2>3, <2>4 DEF AgreeInv, InAWord
  <2> QED
    BY <1>1, <2>1, <2>5, TraceOfLexer DEF AInv
<1> QED
  BY <1>2, <1>3, <1>4, <1>5 DEF Next, Rest

\* Before the first token there is nothing to agree on.
LEMMA AgreementBegins == Init => AInv
<1> SUFFICES ASSUME Init PROVE AInv
  OBVIOUS
<1>1. /\ tokens = <<>> /\ pc = "token" /\ toggled = {} /\ closed = {} /\ epc = "lexing"
  BY DEF Init, LexerInit
<1>2. TraceInv
  BY <1>1 DEF TraceInv, TokensTraced, ScanTraced
<1>3. AgreeInv
  BY <1>1 DEF AgreeInv, InAWord
<1> QED
  BY <1>2, <1>3, InitKeeps DEF AInv

-----------------------------------------------------------------------------
(* The turns run out. *)

\* The turns still to come, at most: the scan of a word may end in front of an
\* operator without passing anything, and so may the entry of the next one.
LexLeft == 4 * (Len(line) - pos) + CASE pc = "token" -> 2
                                     [] pc \in {"scan", "sub"} -> IF AtStart THEN 1 ELSE 3
                                     [] OTHER -> 0
WordLeft == 2 * (Len(line) + 1 - i) + IF epc = "expand" THEN 1 ELSE 0

\* No loop of the two scanners goes round for ever, on a line of any length:
\* each turn, an operator, a substitution, a digit, a name that is not known,
\* leaves fewer turns to come than before it, and never less than none.
TurnsRunOut ==
    [][\/ LexLeft' \in 0..(LexLeft - 1) /\ UNCHANGED expand
       \/ /\ UNCHANGED lexer
          /\ \/ word' \in (word + 1)..(Len(tokens) + 1)
             \/ word' = word /\ WordLeft' \in 0..(WordLeft - 1)]_vars

\* What a place in the code adds to the characters that are left.
Rank == CASE pc = "token" -> 2
          [] pc \in {"scan", "sub"} -> IF AtStart THEN 1 ELSE 3
          [] OTHER -> 0

LEMMA RankFacts ==
  /\ LexLeft = 4 * (Len(line) - pos) + Rank
  /\ Rank \in 0..3
  /\ pc \in {"token", "scan", "sub"} => Rank > 0
BY DEF LexLeft, Rank

\* So it is after a step.
LEMMA NextRankFacts ==
  (/\ LexLeft = 4 * (Len(line) - pos) + Rank
   /\ Rank \in 0..3
   /\ pc \in {"token", "scan", "sub"} => Rank > 0)'
BY RankFacts, PTL

\* A character that is passed counts for more than any place; without one, the
\* place has to.
LEMMA LessLeft ==
  ASSUME LexInv, line' = line, pos' \in Nat,
         \/ pos < pos' /\ pc \in {"token", "scan", "sub"}
         \/ pos' = pos /\ Rank' < Rank
  PROVE  LexLeft' < LexLeft
<1>1. pos \in Nat /\ Len(line) \in Nat
  BY DEF LexInv, LexTypes
<1>2. PICK r, s : r = Rank /\ s = Rank'
  OBVIOUS
<1>3. LexLeft = 4 * (Len(line) - pos) + r /\ LexLeft' = 4 * (Len(line) - pos') + s
      /\ r \in 0..3 /\ s \in 0..3
  BY <1>2, RankFacts, NextRankFacts
<1>4. CASE pos < pos' /\ pc \in {"token", "scan", "sub"}
  <2>1. r > 0
    BY <1>2, <1>4, RankFacts
  <2> QED
    BY <1>1, <1>3, <1>4, <2>1
<1>5. CASE pos' = pos /\ Rank' < Rank
  BY <1>1, <1>2, <1>3, <1>5
<1> QED
  BY <1>4, <1>5

\* A turn that passes a character, or gives the line up.
LEMMA TurnRunsOut ==
  ASSUME LexInv, pc \in {"scan", "sub"}, line' = line,
         NEW ch, NEW f, NEW t, NEW e, EndOfTurn(ch, f, t, e, pos + 1)
  PROVE  LexLeft' < LexLeft
<1>1. pos \in Nat
  BY InToken
<1>2. \/ pos' = pos + 1
      \/ pos' = pos /\ pc' = "error"
  BY DEF EndOfTurn, Emit, Fail
<1>3. CASE pos' = pos + 1
  BY <1>1, <1>3, LessLeft
<1>4. CASE pos' = pos /\ pc' = "error"
  <2>1. Rank' = 0 /\ Rank \in {1, 3}
    BY <1>4 DEF Rank
  <2> QED
    BY <1>1, <1>4, <2>1, LessLeft
<1> QED
  BY <1>2, <1>3, <1>4

\* Every step of the lexer leaves less to do.
LEMMA LexRunsOut ==
  ASSUME LexInv, lx_tokenize
  PROVE  LexLeft' < LexLeft
<1>1. line' = line /\ pos \in Nat /\ Len(line) \in Nat /\ pc \in {"token", "scan", "sub"}
  BY DEF lx_tokenize, StartToken, Scan, ScanSubstitution, LexInv, LexTypes
<1>2. \A k : OperatorLength(k) \in {1, 2}
  BY DEF OperatorLength
<1>3. CASE StartToken
  <2>1. pc = "token"
    BY <1>3 DEF StartToken
  <2>2. CASE c = "newline"
    <3>1. pos' = pos + 1
      BY <1>3, <2>2 DEF StartToken, Emit
    <3> QED
      BY <1>1, <3>1, LessLeft
  <2>3. CASE c # "newline"
    <3>1. PICK k \in pos..Len(line) :
            IF CharAt(k) = "end" THEN pos' = k /\ pc' = "tokenized"
            ELSE pos' = k /\ pc' = "scan" /\ end' = begin'
      BY <1>3, <2>3 DEF StartToken, Emit, EOI
    <3>2. Rank' \in {0, 1} /\ Rank = 2
      BY <2>1, <3>1 DEF Rank, AtStart
    <3>3. pos' = k /\ k \in Nat /\ (pos < k \/ k = pos)
      BY <1>1, <3>1
    <3> QED
      BY <1>1, <3>2, <3>3, LessLeft
  <2> QED
    BY <2>2, <2>3
<1>4. CASE Scan
  <2>1. pc = "scan" /\ begin' = begin
    BY <1>4 DEF Scan
  <2>2. CASE Operator /\ AtStart
    <3>1. PICK n : n = OperatorLength(pos)
      OBVIOUS
    <3>2. pos' = pos + n /\ n \in {1, 2}
      BY <1>2, <2>2, <3>1 DEF Operator, Emit
    <3> QED
      BY <1>1, <3>2, LessLeft
  <2>3. CASE Operator /\ ~AtStart
    <3>1. pos' = pos /\ pc' \in {"token", "tokenized"}
      BY <2>3 DEF Operator, Emit
    <3>2. Rank = 3 /\ Rank' \in {0, 2}
      BY <2>1, <2>3, <3>1 DEF Rank
    <3> QED
      BY <1>1, <3>1, <3>2, LessLeft
  <2>4. CASE NumberedOperator
    <3>1. PICK n : n = OperatorLength(pos + 1)
      OBVIOUS
    <3>2. pos' = pos + 1 + n /\ n \in {1, 2}
      BY <1>2, <2>4, <3>1 DEF NumberedOperator, Emit
    <3> QED
      BY <1>1, <3>2, LessLeft
  <2>5. CASE Substitution
    <3>1. PICK n : n = IF c = "$" THEN 2 ELSE 1
      OBVIOUS
    <3>2. pos' = pos + n /\ n \in {1, 2}
      BY <2>5, <3>1 DEF Substitution
    <3> QED
      BY <1>1, <3>2, LessLeft
  <2>6. CASE Backslash
    <3>1. \/ pos' = pos + 1
          \/ EndOfTurn(nextc, flag, type, end + 1, pos + 1)
          \/ EndOfTurn(CharAt(pos + 2), flag, type, end + 2, pos + 1)
      BY <2>6 DEF Backslash, Emit
    <3> QED
      BY <1>1, <2>1, <3>1, LessLeft, TurnRunsOut
  <2>7. CASE Ordinary
    <3>1. PICK f, t : EndOfTurn(nextc, f, t, end + 1, pos + 1)
      BY <2>7 DEF Ordinary
    <3> QED
      BY <1>1, <2>1, <3>1, TurnRunsOut
  <2> QED
    BY <1>4, <2>2, <2>3, <2>4, <2>5, <2>6, <2>7 DEF Scan
<1>5. CASE ScanSubstitution
  <2>1. pc = "sub"
    BY <1>5 DEF ScanSubstitution
  <2>2. CASE c = EOI
    <3>1. pos' = pos /\ pc' = "error"
      BY <1>5, <2>2 DEF ScanSubstitution, Fail
    <3>2. Rank' = 0 /\ Rank \in {1, 3}
      BY <2>1, <3>1 DEF Rank
    <3> QED
      BY <1>1, <3>1, <3>2, LessLeft
  <2>3. CASE c # EOI /\ depth' = 0
    <3>1. EndOfTurn(nextc, flag, type, end + 1, pos + 1)
      BY <1>5, <2>3 DEF ScanSubstitution
    <3> QED
      BY <1>1, <2>1, <3>1, TurnRunsOut
  <2>4. CASE c # EOI /\ depth' # 0
    <3>1. pos' = pos + 1
      BY <1>5, <2>4 DEF ScanSubstitution
    <3> QED
      BY <1>1, <3>1, LessLeft
  <2> QED
    BY <2>2, <2>3, <2>4
<1> QED
  BY <1>3, <1>4, <1>5 DEF lx_tokenize

\* Every step of the expansion passes something of its word, or ends it.
LEMMA WordRunsOut ==
  ASSUME IInv, expand_word
  PROVE  WordLeft' < WordLeft
<1>1. epc = "expand" /\ UNCHANGED <<lexer, word>> /\ LexInv /\ ExpandInv
  BY DEF expand_word, IInv
<1>t. /\ Len(line) \in Nat /\ WordEnd \in Nat /\ i \in Nat /\ i =< WordEnd /\ line' = line
      /\ \A k \in Nat : At(k) = "nul" <=> ~(k < WordEnd)
  BY <1>1, InWord DEF lexer
<1>2. At(i) # "nul" => i + 1 \in Nat /\ i + 1 =< WordEnd
  BY <1>t
<1>3. At(i + 1) # "nul" => i + 2 \in Nat /\ i + 2 =< WordEnd
  <2>1. i + 1 \in Nat
    BY <1>t
  <2>2. At(i + 1) # "nul" => i + 1 < WordEnd
    BY <1>t, <2>1
  <2> QED
    BY <1>t, <2>2
<1>4. SUFFICES /\ i' \in Nat
               /\ i < i' \/ (i' = i /\ epc' = "next")
  <2>1. CASE i' \in Nat /\ i < i'
    BY <1>1, <1>t, <2>1 DEF WordLeft
  <2>2. CASE i' = i /\ epc' = "next"
    BY <1>1, <1>t, <2>2 DEF WordLeft
  <2> QED
    BY <1>4, <2>1, <2>2
<1>5. CASE Quote \/ Copy
  BY <1>5, <1>t DEF Quote, Copy, GoOn
<1>6. CASE Escape
  BY <1>6, <1>t DEF Escape, GoOn
<1>7. CASE expand_cmdsub
  <2>1. At(i + 1) # "nul"
    BY <1>7 DEF expand_cmdsub
  <2>2. PICK close : close = Find(i + 2, {")"})
    OBVIOUS
  <2>3. close \in (i + 2)..WordEnd
    BY <1>1, <1>3, <2>1, <2>2, FindFacts
  <2>4. i' = close \/ i' = close + 1
    BY <1>7, <2>2 DEF expand_cmdsub, GoOn
  <2> QED
    BY <1>t, <2>3, <2>4
<1>8. CASE expand_braced_variable
  <2>1. At(i + 1) # "nul"
    BY <1>8 DEF expand_braced_variable
  <2>2. PICK close : close = Find(i + 2, {"}"})
    OBVIOUS
  <2>3. close \in (i + 2)..WordEnd
    BY <1>1, <1>3, <2>1, <2>2, FindFacts
  <2>4. i' = close \/ i' = close + 1
    BY <1>8, <2>2 DEF expand_braced_variable, GoOn
  <2> QED
    BY <1>t, <2>3, <2>4
<1>9. CASE expand_loose_variable
  <2>1. At(i) # "nul"
    BY <1>9 DEF expand_loose_variable, Dollar
  <2>2. PICK e, N : e = Find(i + 1, {"blank"}) /\ N = Names(i + 1)
    OBVIOUS
  <2>3. e \in (i + 1)..WordEnd
    BY <1>1, <1>2, <2>1, <2>2, FindFacts
  <2>4. i' = IF N # {} THEN Min(N) ELSE e
    BY <1>9, <2>2 DEF expand_loose_variable, GoOn
  <2>5. N \in SUBSET Nat /\ \A n \in N : i < n
    <3>1. N \subseteq (i + 1 + 1)..e
      BY <2>2 DEF Names
    <3> QED
      BY <1>t, <2>3, <3>1
  <2>6. N # {} => Min(N) \in N
    BY <2>5, MinInSet
  <2>7. CASE N # {}
    BY <2>4, <2>5, <2>6, <2>7
  <2>8. CASE N = {}
    BY <1>t, <2>3, <2>4, <2>8
  <2> QED
    BY <2>7, <2>8
<1>10. CASE WordDone
  BY <1>10, <1>t DEF WordDone
<1> QED
  BY <1>5, <1>6, <1>7, <1>8, <1>9, <1>10 DEF expand_word

\* Both counts have an end: the stream stays in the line, and the expansion
\* within one character of it.
LEMMA LeftIsNatural ==
  LexInv /\ ExpandInv => LexLeft \in Nat /\ WordLeft \in Nat
<1> SUFFICES ASSUME LexInv, ExpandInv
             PROVE  LexLeft \in Nat /\ WordLeft \in Nat
  OBVIOUS
<1>1. Len(line) \in Nat /\ pos \in 0..Len(line) /\ i \in 0..(Len(line) + 1)
  BY DEF LexInv, LexTypes, ExpandInv
<1>2. LexLeft \in Nat
  BY <1>1, RankFacts
<1>3. WordLeft \in Nat
  BY <1>1 DEF WordLeft
<1> QED
  BY <1>2, <1>3

\* So it is after a step.
LEMMA NextLeftIsNatural ==
  (LexInv /\ ExpandInv => LexLeft \in Nat /\ WordLeft \in Nat)'
BY LeftIsNatural, PTL

-----------------------------------------------------------------------------
(* What is proved of every line, and of every set of known names. *)

\* The inductive invariant: where the two ends of a token are, and where the
\* expansion of a word is.
THEOREM ExpandInvariant == Spec => []IInv
BY InitKeeps, NextKeeps, PTL DEF Spec

\* Every pointer of the two scanners is in the line, and the end of a token at
\* most as far behind it as blanks can be escaped.
THEOREM TypeCorrect == Spec => []TypeOK
<1>1. IInv => TypeOK
  <2> SUFFICES ASSUME IInv PROVE TypeOK
    OBVIOUS
  <2>1. LexTypes /\ ExpandInv /\ Ahead(begin, pos, end)
    BY DEF IInv, LexInv
  <2>2. line \in Seq(Char) /\ Len(line) \in Nat /\ pos \in 0..Len(line) /\ begin \in 0..Len(line)
        /\ end \in Nat /\ flag \in Flags /\ eflag \in Flags
    BY <2>1 DEF LexTypes, ExpandInv
  <2>3. end \in begin..(2 * Len(line))
    <3>1. begin \in Nat /\ pos \in Nat /\ pos =< Len(line)
      BY <2>2
    <3>2. begin =< pos /\ pos =< end /\ end =< 2 * pos
      BY <2>1, <2>2, <3>1, AheadAtStart DEF Ahead
    <3> QED
      BY <2>2, <3>1, <3>2
  <2>4. {flag, eflag} \subseteq {"unquoted"} \cup Quotes
    BY <2>2 DEF Flags
  <2> QED
    BY <2>1, <2>2, <2>3, <2>4 DEF LexTypes, ExpandInv, TypeOK
<1> QED
  BY <1>1, ExpandInvariant, PTL

\* lx_tokenize loses no character of the line, and a token reaches past the
\* place where its scan stopped by the blanks escaped in it, at most.
THEOREM LineIsCovered == Spec => []TokensCover
<1>1. IInv => TokensCover
  BY DEF IInv, LexInv
<1> QED
  BY <1>1, ExpandInvariant, PTL

\* expand_word leaves a word at its end, or over a last backslash.
THEOREM EndsWithTheWord == Spec => []StaysInWord
<1>1. IInv => StaysInWord
  BY DEF IInv
<1> QED
  BY <1>1, ExpandInvariant, PTL

\* The inductive invariant behind the agreement: what the lexer took each
\* character of a word for, and that the expansion is taking it for the same.
THEOREM AgreementInvariant == Spec => []AInv
BY AgreementBegins, AgreementKeeps, PTL DEF Spec

\* In a word without backslash and backquote, with $ only in front of a plain
\* substitution, expand_word drops the quotes and ends the substitutions that
\* lx_scan found, in words and lines of any length.
THEOREM ScannersDoAgree == Spec => []ScannersAgree
<1>1. AInv => ScannersAgree
  <2> SUFFICES ASSUME AInv, epc = "next", Regular(Tok) PROVE ScannersAgree
    BY DEF ScannersAgree
  <2>1. /\ i = WordEnd /\ Agreeing(i, eflag, removed, bodyEnds) /\ Tok.end = Tok.stop
    BY DEF AInv, IInv, StaysInWord, AgreeInv, InAWord, Agreeing
  <2>2. /\ Tok \in Token /\ line \in Seq(Char) /\ Len(line) \in Nat
    <3>1. tokens \in Seq(Token) /\ word \in 1..Len(tokens) /\ line \in Seq(Char)
      BY DEF AInv, AgreeInv, IInv, LexInv, LexTypes
    <3> QED
      BY <3>1, ElementOfSeq DEF Tok
  <2>3. i = Tok.stop /\ Tok.end = i
    BY <2>1, <2>2 DEF Token, WordEnd
  <2>4. eflag = "unquoted"
    BY <2>1, <2>3 DEF Agreeing
  <2>5. \A k \in Tok.begin..(Tok.end - 1) : (k \in removed <=> k \in toggled) /\ (k \in closed => k \in bodyEnds)
    BY <2>1, <2>3 DEF Agreeing
  <2> QED
    BY <2>4, <2>5 DEF ScannersAgree
<1> QED
  BY <1>1, AgreementInvariant, PTL

\* Each turn of the loops of lx_scan and expand_word brings the end nearer, so
\* that no line, however long, keeps the shell in them for ever.
THEOREM TurnsDoRunOut == Spec => TurnsRunOut
<1>1. ASSUME IInv, [Next]_vars
      PROVE  [\/ LexLeft' \in 0..(LexLeft - 1) /\ UNCHANGED expand
              \/ /\ UNCHANGED lexer
                 /\ \/ word' \in (word + 1)..(Len(tokens) + 1)
                    \/ word' = word /\ WordLeft' \in 0..(WordLeft - 1)]_vars
  <2>1. LexInv /\ LexInv' /\ ExpandInv /\ ExpandInv'
    BY <1>1, NextKeeps DEF IInv
  <2>2. CASE Lex
    <3>1. LexLeft' < LexLeft
      BY <2>1, <2>2, LexRunsOut DEF Lex
    <3>2. LexLeft \in Nat /\ LexLeft' \in Nat
      BY <2>1, LeftIsNatural, NextLeftIsNatural
    <3>3. LexLeft' \in 0..(LexLeft - 1)
      BY <3>1, <3>2
    <3> QED
      BY <2>2, <3>3 DEF Lex
  <2>3. CASE NextWord
    BY <2>3 DEF NextWord
  <2>4. CASE expand_word
    <3>1. WordLeft' < WordLeft /\ UNCHANGED lexer /\ word' = word
      BY <1>1, <2>4, WordRunsOut DEF expand_word
    <3>2. WordLeft \in Nat /\ WordLeft' \in Nat
      BY <2>1, LeftIsNatural, NextLeftIsNatural
    <3>3. WordLeft' \in 0..(WordLeft - 1)
      BY <3>1, <3>2
    <3> QED
      BY <3>1, <3>3
  <2> QED
    BY <1>1, <2>2, <2>3, <2>4 DEF Next, Rest
<1> QED
  BY <1>1, ExpandInvariant, PTL DEF Spec, TurnsRunOut
=============================================================================
