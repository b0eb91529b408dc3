-------------------------------- MODULE Lexer --------------------------------
(***************************************************************************)
(* lx_tokenize of lexer.c: the tokens of a line.  A step is one turn of    *)
(* the loop in lx_scan, of the loop over a command substitution in it, or  *)
(* the entry of lx_scan.                                                   *)
(*                                                                         *)
(* Offsets into the line count from 0, as in the code.  The pointers begin *)
(* and end of lx_scan are offsets too; end is advanced beside the stream's *)
(* position, and need not agree with it.  The file descriptor of a         *)
(* redirection is left out.                                                *)
(***************************************************************************)
EXTENDS Integers, SequencesExt

CONSTANT Lines  \* the lines that may be entered

Operators == {"|", "&", ";", "(", ")", "{", "}", "<", ">"}
Digits    == {"1", "2"}
Space     == {"blank", "newline"}
Quotes    == {"single", "double"}
Char      == Operators \cup Digits \cup Space \cup Quotes
             \cup {"a", "n", "=", "$", "grave", "backslash"}

ASSUME LinesAssumption == Lines \subseteq Seq(Char)

VARIABLES
    line,
    pos,        \* stream->pos
    begin, end, \* the token under scan
    flag,       \* the quotes it is in
    type,       \* predicted_type
    depth,      \* of the command substitution under scan
    pc,
    tokens,     \* the tokens so far; stop is the position after each (history)
    toggled,    \* history: where the flag was toggled
    closed      \* history: where a command substitution ended

lexer == <<line, pos, begin, end, flag, type, depth, pc, tokens, toggled, closed>>

LexerInit ==
    /\ line \in Lines
    /\ pos = 0 /\ begin = 0 /\ end = 0 /\ depth = 0
    /\ flag = "unquoted" /\ type = "word"
    /\ pc = "token"
    /\ tokens = <<>> /\ toggled = {} /\ closed = {}

EOI == "end"
CharAt(k) == IF k < Len(line) THEN line[k + 1] ELSE EOI

c     == CharAt(pos)
nextc == CharAt(pos + 1)

\* A quote opens what it closes; the other quote inside is a character.
toggle_flag(ch, f) ==
    IF ch \notin Quotes THEN f
    ELSE IF f = "unquoted" THEN ch
    ELSE IF f = ch THEN "unquoted"
    ELSE f

lx_end_of_token(ch, f) == ch = EOI \/ (f = "unquoted" /\ ch \in Space)

\* lx_scan returns a token of type t that ends at e, with the stream at p.
Emit(t, e, p) ==
    /\ tokens' = Append(tokens, [type |-> t, begin |-> begin', end |-> e, stop |-> p])
    /\ pos' = p /\ end' = e
    /\ pc' = IF t = "eof" THEN "tokenized" ELSE "token"

Fail ==
    /\ pc' = "error"
    /\ UNCHANGED <<pos, end, tokens>>

\* The condition at the end of the loop, for the character ch that follows.
EndOfTurn(ch, f, t, e, p) ==
    /\ flag' = f /\ type' = t
    /\ IF ~lx_end_of_token(ch, f)
       THEN pos' = p /\ end' = e /\ pc' = "scan" /\ tokens' = tokens
       ELSE IF f = "unquoted" THEN Emit(t, e, p) ELSE Fail

-----------------------------------------------------------------------------
(* The entry of lx_scan: a newline, or blanks and the first character. *)

\* Mutant: blanks move the stream but not begin and end.
KeepBlanks(k) == pos

\* Where begin and end are when consume_ws has left the stream at k.
AfterBlanks(k) == k

StartToken ==
    /\ pc = "token"
    /\ flag' = "unquoted" /\ type' = "word"
    /\ IF c = "newline"
       THEN begin' = pos /\ Emit("newline", pos + 1, pos + 1)
       ELSE \E k \in pos..Len(line) :
              /\ CharAt(k) \notin Space
              /\ \A j \in pos..(k-1) : CharAt(j) \in Space
              /\ begin' = AfterBlanks(k)
              /\ IF CharAt(k) = EOI THEN Emit("eof", k, k)
                 ELSE pos' = k /\ end' = begin' /\ pc' = "scan" /\ tokens' = tokens
    /\ UNCHANGED <<line, depth, toggled, closed>>

-----------------------------------------------------------------------------
(* One turn of the loop. *)

Unquoted == flag = "unquoted"
AtStart  == end = begin

\* lx_scan_operator, for an operator at offset k.
OperatorType(k) ==
    LET twice == CharAt(k) \in {"|", "&", "<", ">"} /\ CharAt(k + 1) = CharAt(k)
    IN CASE CharAt(k) = "|" -> IF twice THEN "or" ELSE "pipe"
         [] CharAt(k) = "&" -> IF twice THEN "and" ELSE "amp"
         [] CharAt(k) = ";" -> "semi"
         [] CharAt(k) \in {"<", ">"} -> "redir"
         [] OTHER -> "paren"

OperatorLength(k) ==
    IF CharAt(k) \in {"|", "&", "<", ">"} /\ CharAt(k + 1) = CharAt(k) THEN 2 ELSE 1

\* An operator, alone or behind the digit of a descriptor; or the end of the
\* word in front of one.
Operator ==
    /\ Unquoted /\ c \in Operators
    /\ IF AtStart THEN Emit(OperatorType(pos), end + OperatorLength(pos), pos + OperatorLength(pos))
       ELSE Emit(type, end, pos)
    /\ UNCHANGED <<flag, type, depth, toggled>>

NumberedOperator ==
    /\ Unquoted /\ c \in Digits /\ AtStart /\ nextc \in {"<", ">"}
    /\ Emit("redir", end + 1 + OperatorLength(pos + 1), pos + 1 + OperatorLength(pos + 1))
    /\ UNCHANGED <<flag, type, depth, toggled>>

OpensSubstitution == Unquoted /\ (c = "grave" \/ (c = "$" /\ nextc = "("))

Substitution ==
    /\ OpensSubstitution
    /\ LET length == IF c = "$" THEN 2 ELSE 1
       IN pos' = pos + length /\ end' = end + length
    /\ depth' = 1
    /\ pc' = "sub"
    /\ UNCHANGED <<flag, type, tokens, toggled>>

\* A backslash before n ends the word, which becomes a newline; before a quote
\* the backslash alone is passed, and the quote is met in the next turn; before
\* a blank end moves by two and the stream by one.
Escapes == Unquoted /\ c = "backslash" /\ nextc \in {"n", "blank"} \cup Quotes

Backslash ==
    /\ Escapes
    /\ \/ nextc = "n" /\ Emit("newline", end + 1, pos + 1) /\ UNCHANGED <<flag, type>>
       \/ nextc \in Quotes /\ EndOfTurn(nextc, flag, type, end + 1, pos + 1)
       \/ nextc = "blank" /\ EndOfTurn(CharAt(pos + 2), flag, type, end + 2, pos + 1)
    /\ UNCHANGED <<depth, toggled>>

\* Any other character, among them the quotes: = makes the word an assignment,
\* in quotes too.  The loop never meets the end of the line.
Ordinary ==
    /\ Unquoted => /\ c \notin Operators
                   /\ ~(c \in Digits /\ AtStart /\ nextc \in {"<", ">"})
    /\ ~OpensSubstitution /\ ~Escapes
    /\ EndOfTurn(nextc, toggle_flag(c, flag), IF c = "=" THEN "assignment" ELSE type,
                 end + 1, pos + 1)
    /\ toggled' = IF toggle_flag(c, flag) # flag THEN toggled \cup {pos} ELSE toggled
    /\ depth' = depth

Scan ==
    /\ pc = "scan"
    /\ UNCHANGED <<line, begin, closed>>
    /\ Operator \/ NumberedOperator \/ Substitution \/ Backslash \/ Ordinary

\* Mutant: the end of the line is not looked for.
NoEndCheck ==
    /\ pc = "sub"
    /\ UNCHANGED <<line, begin, toggled>>
    /\ depth' = CASE c \in {")", "grave"} -> depth - 1 [] c = "(" -> depth + 1 [] OTHER -> depth
    /\ closed' = IF depth' = 0 THEN closed \cup {pos} ELSE closed
    /\ IF depth' = 0 THEN EndOfTurn(nextc, flag, type, end + 1, pos + 1)
       ELSE /\ pos' = pos + 1 /\ end' = end + 1
            /\ UNCHANGED <<flag, type, pc, tokens>>

\* The loop over a command substitution counts both kinds of ends alike.
ScanSubstitution ==
    /\ pc = "sub"
    /\ UNCHANGED <<line, begin, toggled>>
    /\ depth' = CASE c \in {")", "grave"} -> depth - 1 [] c = "(" -> depth + 1 [] OTHER -> depth
    /\ closed' = IF depth' = 0 THEN closed \cup {pos} ELSE closed
    /\ IF c = EOI THEN Fail /\ UNCHANGED <<flag, type>>
       ELSE IF depth' = 0 THEN EndOfTurn(nextc, flag, type, end + 1, pos + 1)
       ELSE /\ pos' = pos + 1 /\ end' = end + 1
            /\ UNCHANGED <<flag, type, pc, tokens>>

lx_tokenize == StartToken \/ Scan \/ ScanSubstitution
=============================================================================
