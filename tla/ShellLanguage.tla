--------------------------- MODULE ShellLanguage ---------------------------
(***************************************************************************)
(* What a control structure of a shell means, whatever runs it: which      *)
(* command comes after the one that just ended, given whether it           *)
(* succeeded.  Vm is compared with it.                                     *)
(*                                                                         *)
(* A program is a sequence of blocks in the order of its text.  A block is *)
(* one and-or list: [type, cmds], a command being [join, math]: how it is  *)
(* joined to the one before it, and whether it is a comparison such as     *)
(* "$x -eq 1".  A command's name is <<its block, its place there>>.        *)
(***************************************************************************)
EXTENDS Naturals, Sequences, FiniteSetsExt

Done == <<0, 0>>

First == <<1, 1>>

\* "a && b || c" associates to the left with equal precedence: the next command
\* is the nearest one whose connective fits the status so far.
Fitting(block, i, ok) ==
    {j \in (i + 1)..Len(block.cmds) : block.cmds[j].join = IF ok THEN "and" ELSE "or"}

AfterList(prog, b, ok) ==
    LET type == prog[b].type
        block(n) == IF n \in DOMAIN prog THEN <<n, 1>> ELSE Done
    IN  CASE type \in {"IF_CONDITIONS", "ELIF_CONDITIONS"} -> block(IF ok THEN b + 1 ELSE b + 2)
          [] type \in {"IF", "ELIF", "ELSE", "NORMAL"} -> Done
          [] type \in {"WHILE_CONDITIONS", "FOR_CONDITIONS"} -> IF ok THEN block(b + 1) ELSE Done
          [] type \in {"WHILE", "FOR"} -> block(IF b < Len(prog) THEN b + 1 ELSE 1)
          [] type \in {"FOR_INIT", "FOR_EACH_INIT"} -> block(b + 1)
          [] type = "FOR_INCREMENT" -> block(2)

NextCommand(prog, cmd, ok) ==
    LET b == cmd[1]
        fit == Fitting(prog[b], cmd[2], ok)
    IN  IF fit # {} THEN <<b, Min(fit)>> ELSE AfterList(prog, b, ok)
=============================================================================
