------------------------------- MODULE Lexer -------------------------------
(***************************************************************************)
(* lex.c: a line into tokens.  A line is a sequence of atoms: a run of     *)
(* plain characters (a string of its own, for lex only ever appends those  *)
(* to its buffer) or one of the characters lex looks at.                   *)
(*                                                                         *)
(* A token is [tok, text].  The limit of 128 tokens is left out: the code  *)
(* tests lexemes->count, which it writes only at the end (lex.c:236).      *)
(***************************************************************************)
EXTENDS Integers, Sequences, SequencesExt, TLC

CONSTANT Numerals   \* the runs that are made of digits

\* f(x), of which TLC evaluates x once and not wherever f uses it.
Once(f(_), x) == CHOOSE r \in {f(v) : v \in {x}} : TRUE

\* What n steps come to.
Scan(step(_, _), start, n) ==
    LET after[i \in 0..n] ==
            IF i = 0 THEN start ELSE Once(LAMBDA r : step(r, i), after[i - 1])
    IN  after[n]

Whitespace == {" ", "newline"}

\* The characters that are a token wherever they stand.
Symbols ==
    "\"" :> "D_QUOTE" @@ "backtick" :> "BACKTICK" @@ "'" :> "QUOTE" @@ "(" :> "O_PARAN" @@ ")" :> "C_PARAN"
    @@ "=" :> "EQ" @@ "$" :> "DOLLAR" @@ "|" :> "PIPE" @@ "&" :> "AMP" @@ ">" :> "GT" @@ "<" :> "LT"
    @@ "[" :> "O_BRACK" @@ "]" :> "C_BRACK" @@ ";" :> "SEMIC" @@ "+" :> "PLUS" @@ "%" :> "MOD"

Keywords ==
    <<"/">> :> "FSLASH" @@ <<"if">> :> "IF" @@ <<"fi">> :> "FI" @@ <<"do">> :> "DO" @@ <<"in">> :> "IN"
    @@ <<"for">> :> "FOR" @@ <<"while">> :> "WHILE" @@ <<"then">> :> "THEN" @@ <<"else">> :> "ELSE"
    @@ <<"elif">> :> "ELIF" @@ <<"done">> :> "DONE" @@ <<"true">> :> "TRUE" @@ <<"false">> :> "FALSE"
    @@ <<"-", "eq">> :> "EQ_A" @@ <<"-", "lt">> :> "LT_A" @@ <<"-", "le">> :> "LE_A"
    @@ <<"-", "gt">> :> "GT_A" @@ <<"-", "ge">> :> "GE_A"

\* estrisnum: digits, after "-" also none.
IsNum(text) ==
    \/ text = <<"-">>
    \/ Len(text) = 1 /\ text[1] \in Numerals
    \/ Len(text) = 2 /\ text[1] = "-" /\ text[2] \in Numerals

TokGet(text) ==
    CASE text \in DOMAIN Keywords -> Keywords[text]
      [] IsNum(text) -> "NUM"
      [] OTHER -> "CONST"

-----------------------------------------------------------------------------
\* s: the tokens so far, the buffer, the token it is known to be, IN_COMMENT.
Start == [tokens |-> <<>>, buf |-> <<>>, tok |-> "NONE", comment |-> FALSE]

\* The buffer becomes a token.
Flush(s) ==
    IF s.buf = <<>> THEN s
    ELSE [s EXCEPT !.tokens = Append(@, [tok |-> IF s.tok = "NONE" THEN TokGet(s.buf) ELSE s.tok,
                                         text |-> s.buf]),
                   !.buf = <<>>, !.tok = "NONE"]

LexemeAdd(s, c, tok) ==
    [Flush(s) EXCEPT !.tokens = Append(@, [tok |-> tok, text |-> <<c>>])]

Default(s, c) == [s EXCEPT !.buf = Append(@, c)]

Question(s, c) == [Default(s, c) EXCEPT !.tok = "GLOB"]

Star(s, next) ==
    IF s.buf = <<>> /\ next \in Whitespace \union {"*"} THEN LexemeAdd(s, "*", "STAR")
    ELSE [Default(s, "*") EXCEPT !.tok = "GLOB"]

Tilde(s) == [Default(s, "~") EXCEPT !.tok = IF s.buf = <<>> THEN "HOME" ELSE @]

\* "-" is an operator before a blank or ")", and as the first of "--" before one.
Minus(s, next, next2) ==
    IF \/ next \in Whitespace \union {")"}
       \/ next = "-" /\ next2 \in Whitespace \union {")"}
    THEN LexemeAdd(s, "-", "MINUS")
    ELSE Default(s, "-")

\* In a comment blanks do nothing and a newline drops the buffer; nothing ends it.
Blank(s, c) ==
    IF s.comment THEN (IF c = "newline" THEN [s EXCEPT !.buf = <<>>] ELSE s)
    ELSE Flush(s)

LexChar(line, s, i) ==
    LET c == line[i]
        next(k) == IF i + k \in DOMAIN line THEN line[i + k] ELSE "none"
    IN  CASE c = "?" -> Question(s, c)
          [] c = "*" -> Star(s, next(1))
          [] c = "~" -> Tilde(s)
          [] c = "-" -> Minus(s, next(1), next(2))
          [] c \in DOMAIN Symbols -> LexemeAdd(s, c, Symbols[c])
          [] c = "#" -> [s EXCEPT !.comment = TRUE]
          [] c \in Whitespace \union {"nul"} -> Blank(s, c)
          [] OTHER -> Default(s, c)

\* estrtrim: blanks at the end, never the first character.
Trim(line) ==
    SubSeq(line, 1, Max({1} \union {i \in DOMAIN line : line[i] # " "}))

Lex(line) ==
    LET text == Append(Trim(line), "nul")
    IN  IF line = <<>> THEN <<>>
        ELSE Scan(LAMBDA s, i : LexChar(text, s, i), Start, Len(text)).tokens
=============================================================================
