----------------------------- MODULE LineParser -----------------------------
(***************************************************************************)
(* parse.c, parse_token: the tokens of a line of simple commands into      *)
(* commands.  A command is [op, prev, words]: what the VM does with it     *)
(* (an assignment or not), how it is joined to the one before it, and its  *)
(* words [op, text, key] (cmds->ops, strs and keys; the key is what a      *)
(* lookup found the text by).                                              *)
(*                                                                         *)
(* Structures (if, while, for, "[") are in Vm, pipes, "||", redirections   *)
(* and "&" at the end in Vm and Streams; "++", and "--" in an expression,  *)
(* which make a command that changes a variable (parse.c:1034, 1051), are  *)
(* in no module.  Their tokens are not given to this one outside quotes.   *)
(***************************************************************************)
EXTENDS Lexer

NewCommand == [op |-> "NONE", prev |-> "NONE", words |-> <<>>]

\* p: the commands done, the current one, the quotes open, the string builder,
\* IN_MATH_EXPR, the tokens to pass over, and the error met.
ParserStart == [done |-> <<>>, cur |-> NewCommand, open |-> {}, sb |-> <<>>,
                math |-> FALSE, skip |-> 0, error |-> "none"]

Word(op, text) == [op |-> op, text |-> text, key |-> <<>>]

Put(p, op, text) == [p EXCEPT !.cur.words = Append(@, Word(op, text))]

\* An operator of an expression is also noted where "&&" was (prev_op).
PutOperator(p, op, text) == [Put(p, op, text) EXCEPT !.cur.prev = op]

\* Mutant of CmdNext: the connective is noted on the command it ends.
CmdNextNotesBefore(p, prev) ==
    [p EXCEPT !.done = Append(@, [p.cur EXCEPT !.prev = prev]), !.cur = NewCommand]

CmdNext(p, prev) ==
    [p EXCEPT !.done = Append(@, p.cur), !.cur = [NewCommand EXCEPT !.prev = prev]]

Quotes == {"QUOTE", "D_QUOTE", "BACKTICK"}

\* sb_to_joined_str.  It reserves no room for the blanks: what is allocated in
\* the arena next may lie over the end of the text.  The text is given here as
\* it was written; see OneQuote in Session.
JoinBuilder(sb) == FlattenSeq([i \in DOMAIN sb |-> IF i = 1 THEN sb[i] ELSE <<" ">> \o sb[i]])

\* A quote of a kind that is not open opens, within another kind too.  At the
\* closing one the tokens since are joined by one blank each; with none the
\* builder is read before its start (str.h:283).
HandleQuote(p, quote) ==
    CASE quote \notin p.open -> [p EXCEPT !.open = @ \union {quote}]
      [] p.sb = <<>> -> [p EXCEPT !.error = "crash"]
      [] OTHER -> [Put(p, "CONST", JoinBuilder(p.sb)) EXCEPT !.open = @ \ {quote}, !.sb = <<>>]

\* "&&", neither first nor last.
ParseAmp(p, tokens, i) ==
    IF i = 1 \/ i + 1 >= Len(tokens) THEN [p EXCEPT !.error = "syntax"]
    ELSE [CmdNext(p, "AND") EXCEPT !.skip = 1]

\* "=" between a word and what can be a value makes an assignment of the command.
ParseEq(p, before, after) ==
    IF before = "CONST" /\ after \in {"CONST", "NUM", "DOLLAR"} \union Quotes
    THEN [Put(p, "ASSIGNMENT", <<"=">>) EXCEPT !.cur.op = "ASSIGNMENT"]
    ELSE Put(p, "CONST", <<"=">>)

\* "$name", and "$(" which starts a command of its own.
ParseDollar(p, tokens, i, after) ==
    CASE after = "CONST" -> [Put(p, "VARIABLE", tokens[i + 1].text) EXCEPT !.skip = 1]
      [] after = "O_PARAN" ->
            LET q == IF p.cur.words = <<>> THEN p ELSE CmdNext(p, "NONE")
            IN  [Put(q, "MATH_EXPR_START", <<"$", "(">>) EXCEPT !.skip = 1, !.math = TRUE]
      [] OTHER -> Put(p, "CONST", <<"$">>)

ParseStar(p, after) ==
    IF after = "STAR" THEN [PutOperator(p, "EXP", <<"*", "*">>) EXCEPT !.skip = 1]
    ELSE PutOperator(p, "MUL", <<"*">>)

ParseToken(p, tokens, i) ==
    LET tok == tokens[i].tok
        text == tokens[i].text
        at(j) == IF j \in DOMAIN tokens THEN tokens[j].tok ELSE "NONE"
    IN  CASE p.skip > 0 -> [p EXCEPT !.skip = @ - 1]
          [] p.error # "none" -> p
          [] tok \in Quotes -> HandleQuote(p, tok)
          [] p.open # {} -> [p EXCEPT !.sb = Append(@, text)]
          [] tok = "AMP" -> ParseAmp(p, tokens, i)
          [] tok = "EQ" -> ParseEq(p, at(i - 1), at(i + 1))
          [] tok = "DOLLAR" -> ParseDollar(p, tokens, i, at(i + 1))
          [] tok = "NUM" -> Put(p, "NUM", text)
          [] tok = "HOME" -> Put(p, "HOME_EXPANSION", text)
          [] tok = "GLOB" -> Put(p, "GLOB_EXPANSION", text)
          [] tok = "PLUS" -> PutOperator(p, "ADD", text)
          [] tok = "MINUS" /\ p.math -> PutOperator(p, "SUB", text)
          [] tok = "STAR" -> ParseStar(p, at(i + 1))
          [] tok = "FSLASH" -> PutOperator(p, "DIV", text)
          [] tok = "MOD" -> PutOperator(p, "MOD", text)
          [] tok = "C_PARAN" -> [Put(p, "MATH_EXPR_END", text) EXCEPT !.math = FALSE]
          [] tok \in {"EQ_A", "LT_A", "LE_A", "GT_A", "GE_A"} -> PutOperator(p, tok, text)
          [] tok \in {"TRUE", "FALSE", "IN"} -> Put(p, tok, text)
          [] tok = "SEMIC" -> p
          [] OTHER -> Put(p, "CONST", text)

\* A quote left open drops the words since, and the rest of the line is in it.
Parse(tokens) ==
    LET p == Scan(LAMBDA q, i : ParseToken(q, tokens, i), ParserStart, Len(tokens))
    IN  [error |-> IF tokens = <<>> THEN "nothing" ELSE p.error, cmds |-> Append(p.done, p.cur)]
=============================================================================
