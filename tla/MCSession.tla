----------------------------- MODULE MCSession -----------------------------
(* Two variables, one alias besides one of .ncshrc, lines of each kind.    *)
EXTENDS Session

MCValue == "0" :> 0 @@ "1" :> 1 @@ "2" :> 2 @@ "3" :> 3 @@ "4" :> 4 @@ "5" :> 5 @@ "6" :> 6 @@ "7" :> 7 @@ "8" :> 8

MCNumerals == DOMAIN MCValue

MCRcAliases == <<[alias |-> <<"say">>, command |-> <<"echo">>]>>

MCFiles == <<<<"fa">>, <<"fb">>>>

MCHome == <<"/", "home">>

W(text) == [kind |-> "word", text |-> <<text>>]
Quote(text) == [kind |-> "quote", text |-> text]
Var(n) == [kind |-> "var", text |-> <<n>>]
Name(n) == [kind |-> "name", text |-> <<n>>]
Num(d) == [kind |-> "number", text |-> <<d>>]
Op(text) == [kind |-> "op", text |-> text]
HomeWord == [kind |-> "home", text |-> <<"~">>]
Glob == [kind |-> "glob", text |-> <<"f", "*">>]

Command(words) == [op |-> "run", name |-> "", words |-> words]
SetTo(n, word) == [op |-> "set", name |-> n, words |-> <<word>>]
WorkOut(n, words) == [op |-> "work out", name |-> n, words |-> words]
Compute(words) == [op |-> "print", name |-> "", words |-> words]

Line(all) == [cmds |-> all, comment |-> <<>>]

MCLines == {
    Line(<<Command(<<W("echo"), Var("x"), Quote(<<"a">>), HomeWord>>)>>),
    Line(<<Command(<<W("echo"), Quote(<<"a", " ", "b">>), W("c")>>)>>),
    Line(<<Command(<<W("say"), W("a"), Glob, Var("y")>>)>>),
    Line(<<Command(<<W("ll"), [kind |-> "word", text |-> <<"-", "n">>], Var("x"), W("b")>>)>>),
    Line(<<Command(<<W("alias"), W("add"), W("ll"), W("echo")>>), Command(<<W("ll"), W("c")>>)>>),
    Line(<<Command(<<W("alias"), W("delete")>>)>>),
    Line(<<SetTo("x", Num("3")), SetTo("y", Var("x"))>>),
    Line(<<SetTo("x", W("a"))>>),
    Line(<<SetTo("y", Quote(<<"a", " ", "b">>))>>),
    Line(<<SetTo("x", Num("0")), Command(<<W("echo"), Var("y")>>)>>),
    Line(<<WorkOut("y", <<Name("x"), Op(<<"+">>), Num("2"), Op(<<"*">>), Num("2")>>), Command(<<W("echo"), Var("y")>>)>>),
    Line(<<Compute(<<Num("2"), Op(<<"*", "*">>), Num("3"), Op(<<"-">>), Num("3")>>)>>),
    Line(<<Compute(<<Num("6"), Op(<<"/">>), Name("x")>>), SetTo("x", Num("0"))>>),
    Line(<<Command(<<W("ls")>>), SetTo("y", Num("1"))>>),
    [cmds |-> <<Command(<<W("echo"), W("b")>>)>>, comment |-> <<"a", " ", "b">>]
}

MCShortLines == {Line(<<Command(<<W("echo"), W("b")>>)>>)}
=============================================================================
