---------------------------- MODULE CommandLine ----------------------------
(***************************************************************************)
(* The command line of the shell, src/user/src/bin/sh.rs: parse_job and    *)
(* parse_command on the tokens that splitting a line at blanks gives, and  *)
(* the grammar they are meant to accept.  A token is a nonempty string, so *)
(* "" stands for a redirection that is absent; an Option is a sequence of  *)
(* at most one element.                                                    *)
(***************************************************************************)
EXTENDS Integers, Sequences, FiniteSets

None == <<>>
Some(x) == <<x>>

Signs == {"<", ">", ">>"}

\* The tokens at the positions in P, in order.
at_positions(tokens, P) ==
    [n \in 1..Cardinality(P) |->
        tokens[CHOOSE k \in P : Cardinality({j \in P : j <= k}) = n]]

\* The positions where the loop of parse_command meets a redirection sign: the
\* token after a sign is its path, whatever it is, and is skipped.
signs(tokens) ==
    LET met[k \in 0..Len(tokens)] == k > 0 /\ tokens[k] \in Signs /\ ~met[k - 1]
    IN  {k \in DOMAIN tokens : met[k]}

\* The path after the sign of R in a command with at most one, or "".
path(tokens, R) == IF R = {} THEN "" ELSE tokens[1 + CHOOSE k \in R : TRUE]

\* The command with its signs at the positions in O.
command(tokens, O) ==
    LET into == {k \in O : tokens[k] # "<"}
    IN  [argv   |-> at_positions(tokens, {k \in DOMAIN tokens : k \notin O /\ k - 1 \notin O}),
         input  |-> path(tokens, O \ into),
         output |-> path(tokens, into),
         append |-> \E k \in into : tokens[k] = ">>"]

parse_command(tokens) ==
    LET O == signs(tokens)
        into == {k \in O : tokens[k] # "<"}
    IN  IF Len(tokens) \in O \/ Cardinality(into) > 1 \/ Cardinality(O \ into) > 1
        THEN None ELSE Some(command(tokens, O))

\* The slices of parse_job: what stands between the bars.
slices(tokens) ==
    LET bars == {i \in DOMAIN tokens : tokens[i] = "|"}
        cut(i) == CHOOSE k \in bars : Cardinality({j \in bars : j <= k}) = i
        first(i) == IF i = 1 THEN 1 ELSE cut(i - 1) + 1
        last(i) == IF i = Cardinality(bars) + 1 THEN Len(tokens) ELSE cut(i) - 1
    IN  [i \in 1..Cardinality(bars) + 1 |-> SubSeq(tokens, first(i), last(i))]

\* Wrong: a redirection is accepted at any stage of a pipeline.
ends_only_free(cmds) == TRUE

\* Only the first command may redirect its input and only the last its output.
ends_only(cmds) ==
    \A i \in DOMAIN cmds : /\ i # 1 => cmds[i].input = ""
                           /\ i # Len(cmds) => cmds[i].output = ""

\* An empty slice, and a command without arguments, is an error.
parse_slices(S) ==
    LET cmds == [i \in DOMAIN S |-> parse_command(S[i])[1]]
    IN  IF \A i \in DOMAIN S : parse_command(S[i]) # None /\ cmds[i].argv # <<>>
        THEN IF ends_only(cmds) THEN Some(cmds) ELSE None
        ELSE None

parse_job(tokens) == parse_slices(slices(tokens))
-----------------------------------------------------------------------------
(* The grammar (docs/decisions.md D0051), without parsing: a line is some    *)
(* stages joined by bars; in a stage every position is an argument, a sign   *)
(* or the path after a sign.                                                 *)

Joined(S) ==
    LET upto[i \in DOMAIN S] == IF i = 1 THEN S[1] ELSE upto[i - 1] \o <<"|">> \o S[i]
    IN  upto[Len(S)]

\* The positions in O can be those of the signs of seg.
Args(seg, O) == {k \in DOMAIN seg : k \notin O /\ k - 1 \notin O}
Layout(seg, O) ==
    /\ \A k \in O : seg[k] \in Signs /\ k + 1 \in DOMAIN seg /\ k + 1 \notin O
    /\ \A k \in Args(seg, O) : seg[k] \notin Signs \cup {"|"}
    /\ Args(seg, O) # {}

\* The signs of O that are one of T, and the paths after them.
Used(seg, O, T) == {k \in O : seg[k] \in T}
Given(seg, O, T) == {seg[k + 1] : k \in Used(seg, O, T)}

\* Stage i of n stages may have its signs at the positions in O.
IsStage(seg, O, i, n) ==
    /\ Layout(seg, O)
    /\ Cardinality(Used(seg, O, {"<"})) <= (IF i = 1 THEN 1 ELSE 0)
    /\ Cardinality(Used(seg, O, {">", ">>"})) <= (IF i = n THEN 1 ELSE 0)

\* The command that seg writes is cmd.
Writes(seg, O, cmd) ==
    /\ Cardinality(Args(seg, O)) = Len(cmd.argv)
    /\ \A k \in Args(seg, O) : cmd.argv[Cardinality({j \in Args(seg, O) : j <= k})] = seg[k]
    /\ Given(seg, O, {"<"}) = {cmd.input} \ {""}
    /\ Given(seg, O, {">", ">>"}) = {cmd.output} \ {""}
    /\ cmd.append <=> Used(seg, O, {">>"}) # {}

\* The stages S form a job at all; and the job that they write is cmds.
HasJob(S) == \A i \in DOMAIN S : \E O \in SUBSET DOMAIN S[i] : IsStage(S[i], O, i, Len(S))

IsJob(S, cmds) ==
    /\ Len(cmds) = Len(S)
    /\ \A i \in DOMAIN S :
        \E O \in SUBSET DOMAIN S[i] : IsStage(S[i], O, i, Len(S)) /\ Writes(S[i], O, cmds[i])
=============================================================================
