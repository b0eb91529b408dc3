------------------------------ MODULE MC_Expand ------------------------------
(* Every line of up to three characters, every line of four over those     *)
(* that nest, every line of five over some of these, variables in braces,  *)
(* which are one word in double quotes only, and a line whose first word   *)
(* reaches into the second.                                                *)
EXTENDS Expand

Nesting == {"a", "n", "$", "(", ")", "single", "double", "backslash", "blank"}

\* Four escaped blanks make the first word four characters too long. It ends
\* in the second one, behind a double quote that the expansion of the first word
\* removes and the lexer, inside single quotes there, passes.
EscapedBlank == <<"backslash", "blank">>
Overlapping  == FlattenSeq(<<EscapedBlank, EscapedBlank, EscapedBlank, EscapedBlank>>)
                \o <<"backslash", "single", "a", "single", "blank">>
                \o <<"single", "a", "double", "a", "double", "single">>

MCLines == UNION {[1..m -> Char] : m \in 0..3} \cup [1..4 -> Nesting]
           \cup [1..5 -> Nesting \ {"n", "single"}]
           \cup {<<"double", "$", "{">> \o name \o <<"double">> :
                   name \in UNION {[1..m -> {"a", "}", "double", "blank"}] : m \in 0..2}}
           \cup {Overlapping}

\* a is a variable, n is not.
MCKnown == {<<"a">>}
=============================================================================
