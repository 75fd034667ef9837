------------------------------ MODULE MCShell ------------------------------
(* An instance of Shell for TLC: every line of up to four tokens, for the   *)
(* parser, and pipelines of up to five commands.                            *)
EXTENDS Shell

MCWords == {"cat", "|", "<", ">"}

MCLines ==
    UNION {[1..n -> MCWords] : n \in 1..4}
    \cup {<<"echo">>, <<"echo", "|", "cat">>, <<"cat", "|", "echo">>,
          <<"echo", "|", "cat", "|", "cat">>,
          <<"cat", "<", "f", "|", "cat">>, <<"cat", "|", "cat", "<", "f">>,
          <<"cat", ">", "f", "|", "cat">>,
          <<"echo", "a", "|", "cat", ">>", "f">>,
          <<"echo", "a", "|", "echo", "a">>,
          <<"cat", "f", "|", "cat", ">", "f">>, <<"none", "|", "cat", "|", "echo">>,
          <<"echo", "|", "cat", "|", "cat", "|", "cat">>,
          <<"cat", "|", "cat", "|", "cat", "|", "cat", "|", "cat">>,
          <<"exit">>, <<"cd", "f">>, <<>>}
=============================================================================
