---------------------------- MODULE LineLanguage ----------------------------
(***************************************************************************)
(* What a line of simple commands means, and how it is written.  Session,  *)
(* which reads the characters, is shown to implement it.                   *)
(*                                                                         *)
(* A line is [cmds, comment]: commands joined by "&&", and the words of a  *)
(* comment.  A command runs words, sets a name to a word, or works out an  *)
(* expression of at most two operators, to print it or to set a name.  A   *)
(* text is a sequence of atoms: a run of plain characters or a symbol.     *)
(***************************************************************************)
EXTENDS Integers, Sequences, FiniteSets, SequencesExt

CONSTANTS
    Names,      \* the variables the lines use
    Shorthands, \* the words that are aliases at some time
    Lines,      \* what the user types
    Home,       \* the text "~" stands for
    Files,      \* the files "f*" matches, in order
    Value,      \* numerals to numbers
    Configured  \* the aliases there from the start

VARIABLES
    store,      \* the text of each variable, <<>> where there is none
    alias,      \* the command each alias stands for, <<>> where there is none
    todo,       \* the commands of the line still to run
    again,      \* the command that failed is to run a second time
    runs,       \* commands of the line run so far, a second run counted too
    shown       \* what the last command that printed wrote

vars == <<store, alias, todo, again, runs, shown>>

Numeral(n) == CHOOSE d \in DOMAIN Value : Value[d] = n

Spell(n) == IF n < 0 THEN <<"-", Numeral(-n)>> ELSE <<Numeral(n)>>

IsNumber(text) ==
    \/ Len(text) = 1 /\ text[1] \in DOMAIN Value
    \/ Len(text) = 2 /\ text[1] = "-" /\ text[2] \in DOMAIN Value

Number(text) == IF Len(text) = 2 THEN -Value[text[2]] ELSE Value[text[1]]

Joined(between, texts) == FlattenSeq([i \in DOMAIN texts |-> IF i = 1 THEN texts[i] ELSE between \o texts[i]])

Spaced(texts) == Joined(<<" ">>, texts)

-----------------------------------------------------------------------------
(* How it is written. *)

Written(word) ==
    CASE word.kind = "quote" -> <<"\"">> \o word.text \o <<"\"">>
      [] word.kind = "var" -> <<"$">> \o word.text
      [] OTHER -> word.text

WrittenAll(words) == Spaced([i \in DOMAIN words |-> Written(words[i])])

WrittenCommand(cmd) ==
    CASE cmd.op = "run" -> WrittenAll(cmd.words)
      [] cmd.op = "set" -> <<cmd.name, "=">> \o Written(cmd.words[1])
      [] cmd.op = "print" -> <<"$", "(">> \o WrittenAll(cmd.words) \o <<")">>
      [] cmd.op = "work out" -> <<cmd.name, "=", "$", "(">> \o WrittenAll(cmd.words) \o <<")">>

WrittenLine(line) ==
    Joined(<<" ", "&", "&", " ">>, [i \in DOMAIN line.cmds |-> WrittenCommand(line.cmds[i])])
    \o IF line.comment = <<>> THEN <<>> ELSE <<" ", "#", " ">> \o line.comment

-----------------------------------------------------------------------------
(* What it means. *)

Meaning(word) ==
    CASE word.kind = "var" -> IF store[word.text[1]] = <<>> THEN word.text ELSE store[word.text[1]]
      [] word.kind = "home" -> Home
      [] OTHER -> word.text

\* The words of a command, a pattern standing for the files it matches.
Words(words) ==
    FlattenSeq([i \in DOMAIN words |->
        IF words[i].kind = "glob" THEN Files ELSE <<Meaning(words[i])>>])

Binds(op) == CASE op = "**" -> 3 [] op \in {"*", "/", "%"} -> 2 [] OTHER -> 1

Quotient(a, b) == IF (a < 0) = (b < 0) THEN a \div b ELSE -((-a) \div b)

Apply(op, a, b) ==
    CASE op = "**" -> a ^ b
      [] op = "*" -> a * b
      [] op = "/" -> Quotient(a, b)
      [] op = "%" -> a - b * Quotient(a, b)
      [] op = "+" -> a + b
      [] op = "-" -> a - b

\* In an expression a name stands for its value without "$".
Operand(word) == IF word.kind = "name" THEN store[word.text[1]] ELSE word.text

Computable(words) ==
    /\ \A i \in DOMAIN words : words[i].kind # "op" => IsNumber(Operand(words[i]))
    /\ \A i \in DOMAIN words : words[i].text \in {<<"/">>, <<"%">>} => Number(Operand(words[i + 1])) # 0

Result(words) ==
    LET n(i) == Number(Operand(words[i]))
        op(i) == FoldLeft(LAMBDA a, b : a \o b, "", words[i].text)
    IN  CASE Len(words) = 1 -> n(1)
          [] Len(words) = 3 -> Apply(op(2), n(1), n(3))
          [] Binds(op(2)) >= Binds(op(4)) -> Apply(op(4), Apply(op(2), n(1), n(3)), n(5))
          [] OTHER -> Apply(op(2), n(1), Apply(op(4), n(3), n(5)))

-----------------------------------------------------------------------------
Init ==
    /\ store = [n \in Names |-> <<>>]
    /\ alias = Configured
    /\ todo = <<>> /\ again = FALSE /\ runs = 0
    /\ shown = <<>>

Enter ==
    /\ todo = <<>> /\ ~again
    /\ \E line \in Lines : todo' = line.cmds
    /\ runs' = 0
    /\ UNCHANGED <<store, alias, again, shown>>

Succeed ==
    /\ todo' = Tail(todo)
    /\ again' = FALSE

\* A command that fails ends the line, for every other is joined to it by "&&".
\* Before one of those it runs a second time (vm.c:732; RunsOnce of Vm says it
\* should not).
Fail ==
    /\ todo' = <<>>
    /\ again' = (Len(todo) > 1)

Program(words) ==
    IF Len(words[1]) = 1 /\ words[1][1] \in Shorthands /\ alias[words[1][1]] # <<>>
    THEN alias[words[1][1]]
    ELSE words[1]

Show(text) ==
    /\ shown' = text
    /\ UNCHANGED <<store, alias>>

Alias(words) ==
    /\ alias' = CASE words[2] = <<"add">> -> [alias EXCEPT ![words[3][1]] = words[4]]
                  [] words[2] = <<"rm">> -> [alias EXCEPT ![words[3][1]] = <<>>]
                  [] words[2] = <<"delete">> -> [a \in Shorthands |-> <<>>]
    /\ UNCHANGED <<store, shown>>

RunWords(words) ==
    CASE Program(words) = <<"echo">> ->
            Show(Spaced(IF Len(words) > 1 /\ words[2] = <<"-", "n">> THEN Tail(Tail(words)) ELSE Tail(words)))
            /\ Succeed
      [] Program(words) = <<"alias">> -> Alias(words) /\ Succeed
      [] OTHER -> Show(<<"?">> \o Program(words)) /\ Fail

Set(name, text) ==
    /\ store' = [store EXCEPT ![name] = text]
    /\ UNCHANGED <<alias, shown>>
    /\ Succeed

Run ==
    /\ todo # <<>>
    /\ runs' = runs + 1
    /\ LET cmd == Head(todo)
       IN  CASE cmd.op = "run" -> \E words \in {Words(cmd.words)} : RunWords(words)
             [] cmd.op = "set" -> Set(cmd.name, Meaning(cmd.words[1]))
             [] ~Computable(cmd.words) -> Fail /\ UNCHANGED <<store, alias, shown>>
             [] cmd.op = "print" -> Show(Spell(Result(cmd.words))) /\ Succeed
             [] cmd.op = "work out" -> Set(cmd.name, Spell(Result(cmd.words)))

\* It fails as it did: nothing changes but that it ran.
Again ==
    /\ again
    /\ again' = FALSE
    /\ runs' = runs + 1
    /\ UNCHANGED <<store, alias, todo, shown>>

Next == Enter \/ Run \/ Again

\* Every command of a line that was entered is run, or the line fails.
LineEnds == (todo # <<>> \/ again) ~> (todo = <<>> /\ ~again)

Spec == Init /\ [][Next]_vars /\ LineEnds
=============================================================================
