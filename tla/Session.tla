------------------------------ MODULE Session ------------------------------
(***************************************************************************)
(* The main loop of an interactive shell (main.c) over the tables that     *)
(* live as long as it does: a line is read, turned into commands (Lexer,   *)
(* LineParser), and each is expanded (expand.c) and run, from and into the *)
(* variables (vars.c), the aliases (alias.c) and the environment (env.c).  *)
(* LineLanguage says what the line means; Session is to implement it.      *)
(*                                                                         *)
(* Memory is two arenas (arena.c), counted in strings.  What the scratch   *)
(* arena holds for a line is given back after it, the prompt is not        *)
(* (prompt_get takes the arena itself, interpreter_run a copy).  A key     *)
(* that a lookup puts into the variables points into the scratch arena:    *)
(* after the line its bytes are another line's, and its slot is Lost.      *)
(***************************************************************************)
EXTENDS LineParser, FiniteSets

CONSTANTS
    Names, Shorthands, Lines, Home, Files, Value,   \* as in LineLanguage
    RcAliases,      \* the aliases of .ncshrc, in order
    Environment,    \* the names in envp
    TableSize,      \* slots of the variables and of the environment
    AliasLimit,     \* NCSH_MAX_ALIASES, as far as doubling reaches it
    ArenaSize, ScratchSize,
    PromptStrings,  \* strings of the scratch arena a prompt takes
    MaxLines,       \* how many lines the user enters
    Careful         \* the user enters only lines that are Clear

ASSUME TablesFit == TableSize \in Nat \ {0} /\ AliasLimit \in Nat \ {0}

\* conf.c:47 joins what the lookup of the home directory finds.
ASSUME HomeIsSet == Environment \cap {"XDG_CONFIG_HOME", "HOME"} # {}

VARIABLES
    phase,      \* where the main loop is, or how the shell ended
    typed,      \* the line being handled, as the user means it
    ran,        \* how many of its commands are done
    turns,      \* turns of the loop of vm_run (vm.command_position)
    end,        \* vm.end, set with a command still to run
    cmds,       \* the commands left of it, as parsed
    slots,      \* vars: [key, kept, val] in the order of the table
    aliases,    \* [alias, command] in the order they were added
    shown,      \* what the last command that printed wrote
    arena, scratch, \* strings in each arena
    lines       \* lines entered

vars == <<phase, typed, ran, turns, end, cmds, slots, aliases, shown, arena, scratch, lines>>

\* What starting looks up in the environment, and so puts in: the home directory
\* by one name and, where there is none, the other; PATH for the configuration;
\* USER for the prompt.
Inserted ==
    {"XDG_CONFIG_HOME", "PATH", "USER"}
    \union IF "XDG_CONFIG_HOME" \in Environment THEN {} ELSE {"HOME"}

\* alias_check: the first that was added, <<>> if none was.
CommandOf(list, text) ==
    LET of(e) == e.alias = text
        found == SelectSeq(list, of)
    IN  IF found = <<>> THEN <<>> ELSE found[1].command

Language == INSTANCE LineLanguage WITH
    store <- [n \in Names |->
                LET of(s) == s.key = <<n>> IN
                IF \E i \in DOMAIN slots : of(slots[i]) THEN SelectSeq(slots, of)[1].val.text ELSE <<>>],
    alias <- [a \in Shorthands |-> CommandOf(IF phase \in {"start", "failed"} THEN RcAliases ELSE aliases, <<a>>)],
    Configured <- [a \in Shorthands |-> CommandOf(RcAliases, <<a>>)],
    todo <- SubSeq(typed, ran + 1, Len(typed)),
    again <- end,
    runs <- turns,
    shown <- shown

-----------------------------------------------------------------------------
(* The variables: an open table whose hash is the same for every key, so   *)
(* that a search goes through the slots in the order they were taken.      *)

Lost == <<>>

Unset == [type |-> "EMPTY", text |-> <<>>]

Found(table, key) == {i \in DOMAIN table : table[i].key = key}

\* Mutant of AddOrGet: the keys are not compared.
AddAlways(table, key, kept) == Append(table, [key |-> key, kept |-> kept, val |-> Unset])

\* vars_add_or_get: a slot is taken on the first lookup.  kept: the caller made
\* a copy of the key in the lasting arena.
AddOrGet(table, key, kept) ==
    IF Found(table, key) # {} THEN table ELSE Append(table, [key |-> key, kept |-> kept, val |-> Unset])

\* With every slot taken a search for another name never ends.
Overflows(table) == Len(table) > TableSize

Get(table, key) == table[Max(Found(table, key))].val

Assign(table, key, val) ==
    LET t == AddOrGet(table, key, TRUE)
    IN  [t EXCEPT ![Max(Found(t, key))].val = val]

\* After the line: the keys that are in the scratch arena are written over.
Forget(table) ==
    [i \in DOMAIN table |-> IF table[i].kept THEN table[i] ELSE [table[i] EXCEPT !.key = Lost]]

-----------------------------------------------------------------------------
(* Expansion.  e: the words of a command, the table, and whether the       *)
(* search for a name ends.                                                 *)

\* Only a command of one word takes the place of its alias.
ExpandAlias(words) ==
    IF words # <<>> /\ words[1].op = "CONST" /\ CommandOf(aliases, words[1].text) # <<>>
       /\ ~Contains(CommandOf(aliases, words[1].text), " ")
    THEN [words EXCEPT ![1].text = CommandOf(aliases, @)]
    ELSE words

\* The key a text was found by is kept, so that a second expansion of the same
\* command finds the same variable.
ExpandVariable(e, i) ==
    LET word == e.words[i]
        key == IF word.key # <<>> THEN word.key ELSE word.text
        known == Found(e.table, key) # {} /\ Get(e.table, key) # Unset
    IN  [e EXCEPT !.table = AddOrGet(@, key, FALSE),
                  !.words[i] = IF known THEN [@ EXCEPT !.text = Get(e.table, key).text, !.key = key] ELSE @]

\* The words after the pattern are moved one by one from the left: with more
\* of them than the distance they move, the first ones overwrite the rest.
ExpandGlob(e, i) ==
    LET n == Len(Files)
        word(j) == CASE j < i -> e.words[j]
                     [] j < i + n -> Word("CONST", Files[j - i + 1])
                     [] n = 1 -> e.words[j]
                     [] OTHER -> e.words[i + 1 + ((j - i - 1) % (n - 1))]
    IN  IF n = 0 THEN e ELSE [e EXCEPT !.words = [j \in 1..(Len(e.words) + n - 1) |-> word(j)]]

\* In an expression every operand is looked up, numbers too, and what is found
\* takes its place.
ExpandOperand(e, i) ==
    IF e.words[i].op \notin {"NUM", "CONST", "VARIABLE"} THEN e
    ELSE LET tag(f) == IF f.words[i].key = <<>> THEN f
                       ELSE [f EXCEPT !.words[i].op = IF IsNum(f.words[i].text) THEN "NUM" ELSE "VARIABLE"]
         IN  Once(tag, ExpandVariable(e, i))

\* From word p to where the expression ends.
ExpandExpr(e, p) ==
    LET ends == {j \in p..Len(e.words) : e.words[j].op = "MATH_EXPR_END"}
    IN  Scan(LAMBDA f, j : IF j < p THEN f ELSE ExpandOperand(f, j), e, Min(ends \union {Len(e.words) + 1}) - 1)

ExpandWord(e, i) ==
    IF i > Len(e.words) THEN e
    ELSE CASE e.words[i].op = "HOME_EXPANSION" ->
                [e EXCEPT !.words[i] = Word("CONST", Home \o Tail(@.text))]
           [] e.words[i].op = "VARIABLE" -> ExpandVariable(e, i)
           [] e.words[i].op = "GLOB_EXPANSION" -> ExpandGlob(e, i)
           [] e.words[i].op = "MATH_EXPR_START" -> ExpandExpr(e, i)
           [] OTHER -> e

\* One pattern on a line, so that it grows by Len(Files) at most.
Expand(words, table) ==
    LET e == [words |-> ExpandAlias(words), table |-> table]
    IN  Scan(ExpandWord, e, Len(words) + Len(Files))

-----------------------------------------------------------------------------
(* Expressions: all operators of one kind, from the left, then the next.   *)

Quotient(a, b) == IF (a < 0) = (b < 0) THEN a \div b ELSE -((-a) \div b)

Power(a, b) == IF b > 0 THEN a ^ b ELSE 1

Apply(op, a, b) ==
    CASE op = "EXP" -> Power(a, b)
      [] op = "MUL" -> a * b
      [] op = "DIV" -> Quotient(a, b)
      [] op = "ADD" -> a + b
      [] op = "SUB" -> a - b

\* x: operands and operators in turn, [op, n]; empty once a division failed.
Reduce(x, op) ==
    LET at == {i \in 2..(Len(x) - 1) : x[i].op = op}
        i == Min(at)
    IN  IF at = {} THEN x
        ELSE IF op = "DIV" /\ x[i + 1].n = 0 THEN <<>>
        ELSE SubSeq(x, 1, i - 2) \o <<[op |-> "NUM", n |-> Apply(op, x[i - 1].n, x[i + 1].n)]>>
             \o SubSeq(x, i + 2, Len(x))

Pass(x, op) == Scan(LAMBDA y, i : Reduce(y, op), x, Len(x))

Number(text) == IF Len(text) = 2 THEN -Value[text[2]] ELSE Value[text[1]]

IsExpr(words) == Len(words) > 1 /\ words[1].op = "MATH_EXPR_START" /\ words[2].op = "NUM"

Evaluate(words) ==
    LET inner == SubSeq(words, 2, Len(words) - 1)
        x == [i \in DOMAIN inner |->
                [op |-> inner[i].op, n |-> IF inner[i].op = "NUM" THEN Number(inner[i].text) ELSE 0]]
        passes == <<"EXP", "MUL", "DIV", "ADD", "SUB">>
        result == Scan(LAMBDA y, i : Pass(y, passes[i]), SubSeq(x, 1, Len(x)), Len(passes))
    IN  Once(LAMBDA y : IF y = <<>> THEN <<>> ELSE Language!Spell(y[1].n), result)

\* vm_math_expr: the text of the result, empty if there is none.  Where this
\* command does not start with a number, the expression after it is taken; what
\* is no number further on counts as zero.
MathExpr(words, next) ==
    CASE IsExpr(words) -> Evaluate(words)
      [] next # <<>> /\ IsExpr(next[1].words) -> Evaluate(next[1].words)
      [] OTHER -> <<>>

-----------------------------------------------------------------------------
(* One command.  r: the tables after it, what it printed, whether it       *)
(* succeeded, the commands it used, strings it keeps, how it ends.         *)

Answer(table) == [table |-> table, aliases |-> aliases, shown |-> shown,
                  ok |-> TRUE, used |-> 1, keeps |-> 0, fate |-> "on"]

TextOf(words) == [i \in DOMAIN words |-> words[i].text]

\* A number is kept as one, any other text as a copy.
Assigned(words) == [type |-> IF words[3].op = "NUM" THEN "NUM" ELSE "STR", text |-> words[3].text]

\* expand_assignment
RunAssignment(words, table) ==
    [Answer(Assign(table, words[1].text, Assigned(words))) EXCEPT
        !.keeps = IF words[3].op = "NUM" THEN 1 ELSE 2]

\* name=$(...): the expression is the next command; an empty result is read as
\* a number at address zero.
RunMathAssignment(words, table, next) ==
    LET of(e) ==
            LET text == MathExpr(words, <<[words |-> e.words]>>)
            IN  IF text = <<>> THEN [Answer(e.table) EXCEPT !.fate = "crashed", !.used = 2]
                ELSE [RunAssignment(SubSeq(words, 1, 2) \o <<Word("NUM", text)>>, e.table)
                        EXCEPT !.used = 2]
    IN  Once(of, ExpandExpr([words |-> next[1].words, table |-> table], 2))

RunMath(words, table, next) ==
    LET text == MathExpr(words, next)
    IN  IF text = <<>> THEN [Answer(table) EXCEPT !.ok = FALSE]
        ELSE [Answer(table) EXCEPT !.shown = text]

\* The words after the first "-n", or all of them.
RunEcho(texts, table) ==
    [Answer(table) EXCEPT !.shown =
        JoinBuilder(SubSeq(texts, Max({2} \union {SelectInSeq(texts, LAMBDA t : t = <<"-", "n">>) + 1}), Len(texts)))]

\* alias_add_new: dropped without a word when the array is at its limit.
AliasAdd(list, alias, command) ==
    IF Len(list) = AliasLimit THEN list
    ELSE Append(list, [alias |-> alias, command |-> command])

\* alias_remove: what it is given is compared with the commands.
AliasRemove(list, text) ==
    LET of(e) == e.command = text
    IN  IF SelectInSeq(list, of) = 0 THEN list ELSE RemoveAt(list, SelectInSeq(list, of))

RunAlias(texts, table) ==
    CASE texts[2] = <<"add">> ->
            [Answer(table) EXCEPT !.aliases = AliasAdd(@, texts[3], texts[4]), !.keeps = 2]
      [] texts[2] = <<"rm">> -> [Answer(table) EXCEPT !.aliases = AliasRemove(@, texts[3])]
      [] texts[2] = <<"delete">> -> [Answer(table) EXCEPT !.aliases = <<>>]

\* vm_run, one turn: a builtin, or a program (none of the others here exists).
RunCommand(c, e, next) ==
    LET texts == TextOf(e.words)
        r == CASE c.op = "ASSIGNMENT" /\ next # <<>> /\ next[1].words[1].op = "MATH_EXPR_START" ->
                    RunMathAssignment(e.words, e.table, next)
               [] c.op = "ASSIGNMENT" -> RunAssignment(e.words, e.table)
               [] e.words[1].op = "MATH_EXPR_START" -> RunMath(e.words, e.table, next)
               [] texts[1] = <<"echo">> -> RunEcho(texts, e.table)
               [] texts[1] = <<"alias">> -> RunAlias(texts, e.table)
               [] OTHER -> [Answer(e.table) EXCEPT !.ok = FALSE, !.shown = <<"?">> \o texts[1]]
    IN  IF Overflows(r.table) THEN [r EXCEPT !.fate = "hung"] ELSE r

-----------------------------------------------------------------------------
(* What is done with a line is what it says as long as it is Clear.        *)

Special == DOMAIN Symbols \union {"#", "*", "?", "~"}

\* "~" and patterns are written with them.
Plain(word) == word.kind \in {"word", "quote"} => word.text # <<>> /\ Range(word.text) \cap Special = {}

Reads(cmd) == {w.text : w \in {v \in Range(cmd.words) : v.kind \in {"var", "name"}}}

Sets(cmd) == IF cmd.op \in {"set", "work out"} THEN {<<cmd.name>>} ELSE {}

Defined(name) == \E i \in Found(slots, name) : slots[i].val # Unset

Operators(cmd) == [i \in 1..(Len(cmd.words) \div 2) |-> cmd.words[2 * i].text]

Texts(cmd) == [i \in DOMAIN cmd.words |-> cmd.words[i].text]

IsAlias(cmd) == cmd.op = "run" /\ Texts(cmd)[1] = <<"alias">>

PlainWords(cmd) ==
    \* str.h:283: an empty quote ends the shell; lex.c: a symbol in a quote gets
    \* blanks around it, "#" is dropped; parse.c:864: "a=b" is an assignment
    /\ \A w \in Range(cmd.words) : Plain(w)
    \* builtins.c:465: "-n" anywhere drops the words before it
    /\ \A i \in DOMAIN cmd.words : Texts(cmd)[i] = <<"-", "n">> => i = 2
    /\ \A i \in DOMAIN cmd.words : cmd.words[i].kind = "glob" =>
        \* lex.c:257: "*" before a blank is an operator
        /\ i = Len(cmd.words) \/ cmd.words[i].text # <<"*">>
        \* expand.c:58: words after a pattern overwrite each other
        /\ Len(cmd.words) - i < Len(Files)
    \* alias.c:34: the first definition stays; expand.c:175: one of several words
    \* does nothing; alias.c:106: removed by the command
    /\ IsAlias(cmd) => Texts(cmd)[2] # <<"rm">>
    /\ IsAlias(cmd) /\ Texts(cmd)[2] = <<"add">> =>
        /\ CommandOf(aliases, Texts(cmd)[3]) = <<>>
        /\ ~Contains(Texts(cmd)[4], " ")
        \* a failed command that runs again is expanded again, its alias too
        /\ CommandOf(aliases, Texts(cmd)[4]) = <<>>
        /\ \A e \in Range(aliases) : e.command # Texts(cmd)[3]

PlainExpression(cmd) ==
    \* vm_math.c: each operator in turn over the whole expression; "%" is none
    /\ Operators(cmd) \notin {<<<<"/">>, <<"*">>>>, <<<<"-">>, <<"+">>>>}
    /\ ~Contains(Operators(cmd), <<"%">>)
    \* vm_math.c:113: what is no number is zero, or the next expression is taken
    /\ \A n \in Reads(cmd) : \E i \in Found(slots, n) : IsNum(slots[i].val.text)
    \* vm.c:957: without a result the assignment ends the shell
    /\ cmd.op = "work out" => ~Contains(Operators(cmd), <<"/">>)

\* str.h:272: a quote of several words is longer than its memory.  Nothing is
\* allocated behind it if it is in the last command and nothing is expanded.
OneQuote(line) ==
    LET Several(word) == word.kind = "quote" /\ Contains(word.text, " ")
        quoted == {i \in DOMAIN line.cmds : \E w \in Range(line.cmds[i].words) : Several(w)}
    IN  quoted # {} =>
        /\ quoted = {Len(line.cmds)}
        /\ Cardinality({j \in DOMAIN Last(line.cmds).words : Several(Last(line.cmds).words[j])}) = 1
        /\ \A cmd \in Range(line.cmds) :
            /\ cmd.op \in {"run", "set"}
            /\ \A w \in Range(cmd.words) : w.kind \in {"word", "number", "quote"}
            /\ cmd.op = "run" => CommandOf(aliases, Texts(cmd)[1]) = <<>>

Clear(line) ==
    /\ OneQuote(line)
    \* lex.c: a symbol in a comment, and the letters before it, are tokens
    /\ Range(line.comment) \cap Special = {}
    /\ \A cmd \in Range(line.cmds) :
        IF cmd.op \in {"run", "set"} THEN PlainWords(cmd) ELSE PlainExpression(cmd)
    /\ \A i, j \in DOMAIN line.cmds : i < j =>
        \* expand.c:112: a name the line reads before it sets it is lost with the line
        /\ \A n \in Reads(line.cmds[i]) \cap Sets(line.cmds[j]) : Defined(n)
        \* parse.c: an operator of an expression takes the place of "&&"
        /\ line.cmds[j].op = "print" => Operators(line.cmds[j]) = <<>>

-----------------------------------------------------------------------------
Init ==
    /\ phase = "start"
    /\ typed = <<>> /\ ran = 0 /\ turns = 0 /\ end = FALSE /\ cmds = <<>>
    /\ slots = <<>>
    /\ aliases = <<>>
    /\ shown = <<>>
    /\ arena = 0 /\ scratch = 0
    /\ lines = 0

\* arena_malloc
Fits(used, size) == used <= size

\* conf_process: the alias lines of the configuration, in order.
Configuration == FoldLeft(LAMBDA list, a : AliasAdd(list, a.alias, a.command), <<>>, RcAliases)

\* init: the environment and then the configuration go into tables; the search
\* for a place in a full one does not end.
StartUp ==
    /\ phase = "start"
    /\ phase' = IF Cardinality(Environment \union Inserted) > TableSize THEN "hung" ELSE "prompt"
    /\ aliases' = Configuration
    /\ arena' = 2 * Len(RcAliases)
    /\ UNCHANGED <<typed, ran, turns, end, cmds, slots, shown, scratch, lines>>

\* No memory, no configuration, no database: init gives NULL and main returns.
StartFails ==
    /\ phase = "start"
    /\ phase' = "failed"
    /\ UNCHANGED <<typed, ran, turns, end, cmds, slots, aliases, shown, arena, scratch, lines>>

\* prompt_get: its strings stay in the scratch arena.
PromptGet ==
    /\ phase = "prompt"
    /\ phase' = IF Fits(scratch + PromptStrings, ScratchSize) THEN "reading" ELSE "aborted"
    /\ scratch' = IF Fits(scratch + PromptStrings, ScratchSize) THEN scratch + PromptStrings ELSE scratch
    /\ UNCHANGED <<typed, ran, turns, end, cmds, slots, aliases, shown, arena, lines>>

\* The working directory is gone: the prompt that is to show it is NULL, which
\* ends the main loop.
NoDirectory ==
    /\ phase = "prompt"
    /\ phase' = "ended"
    /\ UNCHANGED <<typed, ran, turns, end, cmds, slots, aliases, shown, arena, scratch, lines>>

\* bestline returns NULL with EINTR.
Interrupt ==
    /\ phase = "reading"
    /\ lines < MaxLines
    /\ phase' = "prompt"
    /\ lines' = lines + 1
    /\ UNCHANGED <<typed, ran, turns, end, cmds, slots, aliases, shown, arena, scratch>>

EndOfInput ==
    /\ phase = "reading"
    /\ phase' = "ended"
    /\ UNCHANGED <<typed, ran, turns, end, cmds, slots, aliases, shown, arena, scratch, lines>>

\* lex and parse, and the tokens they keep.
Parsed ==
    [line \in Lines |->
        LET tokens == Lex(Language!WrittenLine(line))
            parsed == Parse(tokens)
        IN  [error |-> parsed.error, cmds |-> parsed.cmds, size |-> Len(tokens) + 1]]

\* interpreter_run on a copy of the scratch arena: lex, parse, vm_execute.
Enter(line) ==
    LET parsed == Parsed[line] IN
    /\ phase = "reading"
    /\ lines < MaxLines
    /\ Careful => Clear(line)
    /\ lines' = lines + 1
    /\ typed' = line.cmds /\ ran' = 0 /\ turns' = 0
    /\ cmds' = IF parsed.error = "none" THEN parsed.cmds ELSE <<>>
    /\ phase' = CASE ~Fits(scratch + parsed.size, ScratchSize) -> "aborted"
                  [] parsed.error = "crash" -> "crashed"
                  [] parsed.error = "none" -> "running"
                  [] OTHER -> "recording"
    /\ UNCHANGED <<end, slots, aliases, shown, arena, scratch>>

\* One turn of the loop of vm_run.  Before a command joined by "&&" to one that
\* failed vm_next_normal gives up with the command that failed still in place: it
\* is run once more (Vm's GiveUp), expanded as it is by then.
VmRun ==
    /\ phase = "running"
    /\ \E e \in {Expand(Head(cmds).words, slots)} :
       \E r \in {RunCommand(Head(cmds), e, Tail(cmds))} :
        LET left == SubSeq(cmds, r.used + 1, Len(cmds))
            stops == end \/ left = <<>> \/ left[1].words = <<>>
            givesUp == ~stops /\ ~r.ok /\ left[1].prev = "AND"
        IN
        /\ phase' = CASE r.fate # "on" -> r.fate
                      [] ~Fits(arena + r.keeps, ArenaSize) -> "aborted"
                      [] stops -> "recording"
                      [] OTHER -> "running"
        /\ IF phase' \in {"running", "recording"}
           THEN /\ slots' = r.table
                /\ aliases' = r.aliases
                /\ shown' = r.shown
                /\ arena' = arena + r.keeps
                /\ turns' = turns + 1
                /\ end' = givesUp
                /\ ran' = IF stops \/ givesUp THEN Len(typed) ELSE ran + 1
                /\ cmds' = CASE stops -> <<>>
                             [] givesUp -> <<[Head(cmds) EXCEPT !.words = e.words]>> \o Tail(cmds)
                             [] OTHER -> left
           ELSE UNCHANGED <<slots, aliases, shown, arena, ran, turns, end, cmds>>
    /\ UNCHANGED <<typed, scratch, lines>>

\* bestlineHistoryAdd and ac_add; the next line reuses the scratch arena.
Record ==
    /\ phase = "recording"
    /\ phase' = IF Fits(arena + 1, ArenaSize) THEN "prompt" ELSE "aborted"
    /\ arena' = IF Fits(arena + 1, ArenaSize) THEN arena + 1 ELSE arena
    /\ slots' = Forget(slots)
    /\ typed' = <<>> /\ ran' = 0
    /\ UNCHANGED <<turns, end, cmds, aliases, shown, scratch, lines>>

Shell == StartUp \/ PromptGet \/ VmRun \/ Record

Next == Shell \/ StartFails \/ NoDirectory \/ Interrupt \/ EndOfInput \/ \E line \in Lines : Enter(line)

\* The shell runs; the user need not type.
Spec == Init /\ [][Next]_vars /\ WF_vars(Shell)

-----------------------------------------------------------------------------
(* Properties. *)

\* The tables keep to their sizes, and a name that can still be found has one
\* slot.
TypeOK ==
    /\ phase \in {"start", "failed", "prompt", "reading", "running", "recording",
                  "ended", "hung", "aborted", "crashed"}
    /\ ran \in 0..Len(typed) /\ end \in BOOLEAN
    /\ turns \in Nat /\ (typed # <<>> => turns <= Len(typed) + 1)
    /\ Len(slots) <= TableSize /\ Len(aliases) <= AliasLimit
    /\ \A i, j \in DOMAIN slots : i # j => slots[i].key # slots[j].key \/ slots[i].key = Lost
    /\ arena \in 0..ArenaSize /\ scratch \in 0..ScratchSize
    /\ lines \in 0..MaxLines

\* The shell does with a line what the line says: through the lexer, the parser,
\* expansion and the tables, each command is run once, in order, on the values
\* the names have - but one that fails before a "&&" is run a second time, with
\* the same outcome - nothing but an assignment changes a variable, nothing but
\* the alias builtin an alias, and every line is handled.
LineIsDone == Language!Spec

\* A session that only reads lines goes on for as long as the user does.  (Not a
\* property of the code: each prompt leaves its strings in the scratch arena, so
\* that after some thousands of lines the shell aborts.  See MCSessionMemory.)
MemoryLasts == phase # "aborted"
=============================================================================
