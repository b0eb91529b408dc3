------------------------------ MODULE MC_Eval -------------------------------
(* Every line of up to three tokens, and every line of four or five tokens *)
(* made of words and the operators between commands; and pipelines with a  *)
(* rest of the line behind them, for the copies that come back to it, and  *)
(* a line of as many elements as tokens.                                   *)
EXTENDS Eval

Operators == {"word", "and", "or", "semi", "amp"}

Piped == <<"word", "pipe", "word">>
WithRest == {Piped \o <<op, "word">> : op \in Operators \ {"word"}}
            \cup {Piped \o <<"semi">> \o rest : rest \in {Piped, <<"word", "amp">>}}

MCLines == UNION {[1..m -> TokenType \ {"eof"}] : m \in 0..3}
           \cup UNION {[1..m -> Operators] : m \in 4..5}
           \cup WithRest \cup [1..MaxElements -> {"semi"}]
=============================================================================
