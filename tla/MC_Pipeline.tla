---------------------------- MODULE MC_Pipeline -----------------------------
(* Every command alone, with up to two redirections; every pipeline of two *)
(* commands; and three in a row, of which the first writes or ends at once *)
(* and the last reads, one of them with a command that cannot be executed. *)
EXTENDS Pipeline

MCLines ==
    {<<a>> : a \in Kind} \cup
    {<<a, b>> : a \in Kind, b \in Kind} \cup
    {<<a, b, c>> : a \in {"echo", "yes", "unknown"}, b \in {"echo", "cat", "builtin"},
                   c \in {"cat", "head"}} \cup
    {<<"echo", "noexec", "cat">>}

Redir(m, d, ok) == [mode |-> m, fd |-> d, opens |-> ok]

\* Both ends, with numbers of the mode and others, and files that cannot be
\* opened.
MCRedirect ==
    {Redir("out", 1, TRUE), Redir("append", 1, TRUE), Redir("out", 2, TRUE),
     Redir("out", 1, FALSE), Redir("append", 3, TRUE), Redir("in", 0, TRUE),
     Redir("in", 0, FALSE), Redir("in", 1, TRUE), Redir("heredoc", 0, TRUE)}

MCRedirs ==
    {<<>>} \cup {<<r>> : r \in MCRedirect}
           \cup {<<r, s>> : r \in MCRedirect, s \in MCRedirect}

\* Harmless numbers, the child's own stdout, its own stdin and stdout.
MCJunk == {<<9, 9>>, <<9, 1>>, <<0, 1>>}
=============================================================================
