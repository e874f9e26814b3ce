----------------------------- MODULE MCStreams -----------------------------
(***************************************************************************)
(* The lines Streams is checked on.                                        *)
(***************************************************************************)
EXTENDS Streams

Redirections == {"none", "in", "out", "err", "outerr"}

Joined(kinds, join, amount) ==
    [j \in DOMAIN kinds |-> [kind |-> kinds[j], join |-> IF j = 1 THEN "none" ELSE join,
                             amount |-> amount]]

MCLine(cmds, redirect) == [cmds |-> cmds, redirect |-> redirect, background |-> FALSE]

\* Pipelines that end in a program, of all the kinds that can stand before one, and
\* longer ones of programs alone.
ToProgram ==
    UNION {{k \o <<"filter">> : k \in [1..n -> {"program", "filter", "builtin", "echo"}]} : n \in 0..2}
    \union {[j \in 1..n |-> "filter"] : n \in 4..6}

PipeLines == {MCLine(Joined(k, "pipe", 1), r) : k \in ToProgram, r \in Redirections}

\* Three or more commands of which the last is a builtin, or a builtin alone.
ToBuiltin ==
    {<<"program", "filter", b>> : b \in {"builtin", "echo", "printer"}}
    \union {<<"program", "filter", "filter", "echo">>, <<"builtin">>, <<"printer">>}

BuiltinLines == {MCLine(Joined(k, "pipe", 1), r) : k \in ToBuiltin, r \in {"none", "err"}}

\* A builtin that writes after one "|": the shell exits.
ExitLine == MCLine(Joined(<<"program", "builtin">>, "pipe", 1), "none")

\* Lists of &&.  The long one stands for the commands a loop runs: a line has at most
\* 128 tokens (LEXER_TOKENS_LIMIT), so that only a loop makes command_position wrap.
AndLines ==
    {MCLine(Joined([j \in 1..n |-> k], "and", 1), r) :
        n \in {2, Positions + 1}, k \in {"program", "filter"}, r \in Redirections}

BackgroundLine == [MCLine(Joined(<<"program">>, "none", 1), "none") EXCEPT !.background = TRUE]

GoodLines == PipeLines \union BuiltinLines \union AndLines \union {ExitLine, BackgroundLine}

\* They have the shapes that the theorems of StreamsProofs ask for.
ASSUME GoodShapes ==
    Roomy /\ \A l \in GoodLines : Uniform(l) /\ PrintersFit(l) /\ BuiltinsFit(l)

\* A redirected builtin, and a pipeline.
RedirectedBuiltins ==
    {MCLine(Joined(k, "pipe", 1), r) : k \in {<<"builtin">>, <<"program", "filter">>},
                                       r \in {"none", "out"}}

\* One command too many for a pipe.
LargeLines == {MCLine(Joined(k, "pipe", 2), "none") : k \in ToProgram}

\* "a && b | c".
MixedLines ==
    {MCLine(<<[kind |-> "program", join |-> "none", amount |-> 1],
              [kind |-> "program", join |-> "and", amount |-> 1],
              [kind |-> "filter", join |-> "pipe", amount |-> 1]>>, "none")}
=============================================================================
