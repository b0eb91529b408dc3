------------------------------- MODULE Expand --------------------------------
(***************************************************************************)
(* expand_word of expand.c over the words that Lexer finds: a second       *)
(* scanner with the same quote flag, which has to take every quote and     *)
(* every command substitution for what the first one took it for.          *)
(*                                                                         *)
(* A step is one turn of the loop of expand_word.  What it writes is left  *)
(* out, and with it the difference between ~ and any other character; a    *)
(* command substitution runs a list of its own, whose text is another line *)
(* of this model.  The words behind a token at which the parser stops are  *)
(* expanded too; in the code they are dropped.                             *)
(***************************************************************************)
EXTENDS Lexer

CONSTANT Known  \* the names for which var_lookupn finds a value

ASSUME KnownAssumption == Known \subseteq Seq(Char)

VARIABLES
    word,       \* the token under expansion
    i,          \* the pointer into it, as an offset into the line
    eflag,      \* the flag of expand_word
    epc,        \* "lexing", "next", "expand", "done" or "overrun"
    removed,    \* history: the quotes of the word that are not copied
    bodyEnds    \* history: where the command substitutions it ran ended

expand == <<word, i, eflag, epc, removed, bodyEnds>>
vars   == <<lexer, expand>>

Init ==
    /\ LexerInit
    /\ word = 0 /\ i = 0
    /\ eflag = "unquoted" /\ epc = "lexing"
    /\ removed = {} /\ bodyEnds = {}

Lex == lx_tokenize /\ UNCHANGED expand

\* The text of a token ends with the line, wherever its end is.
Tok     == tokens[word]
WordEnd == IF Tok.end < Len(line) THEN Tok.end ELSE Len(line)
NUL     == "nul"
At(k)   == IF k < WordEnd THEN CharAt(k) ELSE NUL

IsText(t) == t.type \in {"word", "assignment"}

\* The words of the line, one after the other; a line with an error has none.
NextWord ==
    /\ pc = "tokenized"
    /\ epc \in {"lexing", "next"}
    /\ \E w \in (word + 1)..(Len(tokens) + 1) :
         /\ \A v \in (word + 1)..(w - 1) : ~IsText(tokens[v])
         /\ w <= Len(tokens) => IsText(tokens[w])
         /\ word' = w
         /\ IF w <= Len(tokens)
            THEN epc' = "expand" /\ i' = tokens[w].begin
            ELSE epc' = "done" /\ i' = i
    /\ eflag' = "unquoted" /\ removed' = {} /\ bodyEnds' = {}
    /\ UNCHANGED lexer

\* The loop goes on at offset k, behind at least one character.
GoOn(k) == i' = k /\ epc' = epc

\* Mutant: a quote of either kind ends the other one.
EndsBoth(ch) == IF eflag = "unquoted" THEN ch ELSE "unquoted"

\* The flag behind a quote: the case labels of expand_word.
FlagBehind(ch) ==
    IF eflag = "unquoted" THEN ch
    ELSE IF ch = eflag THEN "unquoted"
    ELSE eflag

\* Quotes are dropped; a quote inside the others is copied.
IsQuote == At(i) \in Quotes /\ FlagBehind(At(i)) # eflag

Quote ==
    /\ IsQuote
    /\ eflag' = FlagBehind(At(i))
    /\ removed' = removed \cup {i}
    /\ GoOn(i + 1)
    /\ bodyEnds' = bodyEnds

Backslashed == At(i) = "backslash" /\ eflag # "single"
Dollar      == At(i) = "$" /\ eflag # "single"

\* Mutant: a last backslash is noticed, but not passed.
LastBackslashStays ==
    /\ Backslashed
    /\ IF At(i + 1) = NUL THEN GoOn(i) ELSE GoOn(i + 2)
    /\ UNCHANGED <<eflag, removed, bodyEnds>>

\* The character behind a backslash is copied whatever it is; behind the last
\* backslash that is the terminating null, and the loop goes on behind it.
Escape ==
    /\ Backslashed
    /\ IF At(i + 1) = NUL THEN epc' = "overrun" /\ i' = i + 2 ELSE GoOn(i + 2)
    /\ UNCHANGED <<eflag, removed, bodyEnds>>

\* The first offset from k on with a character of S, or the end of the word.
Find(k, S) == CHOOSE e \in k..WordEnd :
                 /\ e = WordEnd \/ At(e) \in S
                 /\ \A j \in k..(e - 1) : At(j) \notin S

\* Mutant: the ) is skipped without looking.
SkipBlindly ==
    /\ Dollar /\ At(i + 1) = "("
    /\ LET close == Find(i + 2, {")"})
       IN GoOn(close + 1) /\ bodyEnds' = bodyEnds \cup {close}
    /\ UNCHANGED <<eflag, removed>>

\* The text up to the first ) is run, and the ) skipped; without one nothing is
\* run.
expand_cmdsub ==
    /\ Dollar /\ At(i + 1) = "("
    /\ LET close == Find(i + 2, {")"})
       IN IF At(close) = ")" THEN GoOn(close + 1) /\ bodyEnds' = bodyEnds \cup {close}
          ELSE GoOn(close) /\ bodyEnds' = bodyEnds
    /\ UNCHANGED <<eflag, removed>>

expand_braced_variable ==
    /\ Dollar /\ At(i + 1) = "{"
    /\ LET close == Find(i + 2, {"}"})
       IN GoOn(IF At(close) = "}" THEN close + 1 ELSE close)
    /\ UNCHANGED <<eflag, removed, bodyEnds>>

\* expand_loose_variable: the shortest prefix that is a variable; if none is,
\* everything up to the next blank is skipped, quotes included.
Names(k) == {e \in (k + 1)..Find(k, {"blank"}) : SubSeq(line, k + 1, e) \in Known}

expand_loose_variable ==
    /\ Dollar /\ At(i + 1) \notin {"(", "{"}
    /\ GoOn(IF Names(i + 1) # {} THEN Min(Names(i + 1)) ELSE Find(i + 1, {"blank"}))
    /\ UNCHANGED <<eflag, removed, bodyEnds>>

\* Any other character is copied; so is ~ that does not begin the word.
Copy ==
    /\ At(i) # NUL
    /\ ~IsQuote /\ ~Backslashed /\ ~Dollar
    /\ GoOn(i + 1)
    /\ UNCHANGED <<eflag, removed, bodyEnds>>

WordDone ==
    /\ At(i) = NUL
    /\ epc' = "next"
    /\ UNCHANGED <<i, eflag, removed, bodyEnds>>

expand_word ==
    /\ epc = "expand"
    /\ Quote \/ Escape \/ expand_cmdsub \/ expand_braced_variable
       \/ expand_loose_variable \/ Copy \/ WordDone
    /\ UNCHANGED <<lexer, word>>

Over == pc = "error" \/ epc \in {"done", "overrun"}
Rest == Over /\ UNCHANGED vars

Next == Lex \/ NextWord \/ expand_word \/ Rest

Spec == Init /\ [][Next]_vars

\* Nothing but the shell's own thread takes part.
FairSpec == Spec /\ WF_vars(Lex \/ NextWord \/ expand_word)

-----------------------------------------------------------------------------
(* Properties. *)

TypeOK ==
    /\ line \in Seq(Char)
    /\ pos \in 0..Len(line) /\ begin \in 0..Len(line)
    /\ end \in begin..(2 * Len(line))
    /\ {flag, eflag} \subseteq {"unquoted"} \cup Quotes
    /\ type \in {"word", "assignment"}
    /\ depth \in Nat
    /\ pc \in {"token", "scan", "sub", "tokenized", "error"}
    /\ toggled \subseteq 0..(Len(line) - 1) /\ removed \subseteq 0..(Len(line) - 1)
    /\ word \in 0..(Len(tokens) + 1)
    /\ i \in 0..(Len(line) + 1)
    /\ epc \in {"lexing", "next", "expand", "done", "overrun"}

\* Offsets of escaped blanks in a token.
EscapedBlanks(t) == {k \in t.begin..(t.stop - 1) :
                        CharAt(k) = "backslash" /\ CharAt(k + 1) = "blank"}

\* The tokens cover the line: between the place where one scan stopped and the
\* beginning of the next token there are only blanks and newlines, and a token
\* ends where its scan stopped, except that each escaped blank takes one
\* character more into it, one that the next token has too.
TokensCover ==
    \A k \in DOMAIN tokens :
        LET t == tokens[k]
            from == IF k = 1 THEN 0 ELSE tokens[k - 1].stop
        IN /\ from =< t.begin
           /\ \A j \in from..(t.begin - 1) : CharAt(j) \in Space
           /\ t.type # "eof" => t.begin < t.stop
           /\ t.end - t.stop \in 0..Cardinality(EscapedBlanks(t))

\* Words in which a character means the same to both scanners: no backslash
\* and no backquote, and $ only before a substitution without quotes, dollars
\* and parentheses inside.
Regular(t) ==
    \A k \in t.begin..(t.end - 1) :
        /\ CharAt(k) \notin {"backslash", "grave"}
        /\ CharAt(k) = "$" =>
             /\ CharAt(k + 1) = "("
             /\ \E e \in (k + 2)..(t.end - 1) :
                  /\ CharAt(e) = ")"
                  /\ \A j \in (k + 2)..(e - 1) :
                       CharAt(j) \notin {"(", ")", "$"} \cup Quotes

\* In a regular word the expansion removes exactly the quotes that the lexer
\* matched, ends the substitutions where the lexer did, and is outside of quotes
\* again at the end of the word.
ScannersAgree ==
    epc = "next" /\ Regular(Tok) =>
        LET offsets == Tok.begin..(Tok.end - 1)
        IN /\ removed \cap offsets = toggled \cap offsets
           /\ closed \cap offsets \subseteq bodyEnds
           /\ eflag = "unquoted"

\* The expansion of a word reads up to its end and not beyond, unless its last
\* character is a backslash: the lexer ends a word behind a backslash that
\* stands before an operator.
StaysInWord ==
    /\ epc = "overrun" => At(WordEnd - 1) = "backslash"
    /\ epc = "next" => i = WordEnd

\* A line is scanned and expanded to its end, or refused.
LineIsExpanded == pc = "token" ~> Over
=============================================================================
