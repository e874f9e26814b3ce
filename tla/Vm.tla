-------------------------------- MODULE Vm --------------------------------
(***************************************************************************)
(* The control flow of the virtual machine: how parse.c links a program's  *)
(* blocks into a graph of statements, how vm_next (interpreter/vm.c)       *)
(* chooses the next command from that graph, the state it is in and the    *)
(* last status, and how the loop of vm_run executes it.                    *)
(*                                                                         *)
(* Commands are opaque: each run of one ends with any status in Outcomes.  *)
(* Pipes, redirections, expansion and what a command does are elsewhere.   *)
(***************************************************************************)
EXTENDS ShellLanguage, Integers

CONSTANTS Programs,    \* the programs to consider
          Outcomes     \* the statuses a command may end with

Command == [join : {"none", "and", "or"}, math : BOOLEAN]
Block == [type : {"IF_CONDITIONS", "IF", "ELIF_CONDITIONS", "ELIF", "ELSE", "WHILE_CONDITIONS",
                  "WHILE", "FOR_INIT", "FOR_CONDITIONS", "FOR", "FOR_INCREMENT", "NORMAL"},
          cmds : Seq(Command)]
ForEachHead == [type : {"FOR_EACH_INIT"}, cmds : Seq(Command), items : Nat]

ASSUME ProgramsAssumption == Programs \subseteq Seq(Block \union ForEachHead)
ASSUME OutcomesAssumption == Outcomes \subseteq Nat

FailureContinue == -2  \* EXIT_FAILURE_CONTINUE
Failure == 1           \* EXIT_FAILURE
SuccessEnd == 2        \* EXIT_SUCCESS_END, the status of the builtin exit

None == <<0, 0>>       \* NULL, as a Commands*

VARIABLES
    prog,        \* the program
    stmts,       \* its statements, as parse linked them (0 is NULL)
    pc,          \* "next", "execute", "done" or "failed"
    status,      \* the members of Vm_Data
    state,
    end,
    cur_stmt,
    cmds,
    next_cmds,   \* its place in cur_stmt; 0 is NULL
    pos,         \* the item a for-each loop is at
    last,        \* the command that ran last, and whether it succeeded
    exited,      \* the builtin exit ran last
    item,        \* the item that the variable of a for-each holds; 0 before the first
    seen         \* what item was at each run of a for-each's body

vmData == <<status, state, end, cur_stmt, cmds, next_cmds, pos>>
history == <<last, exited, item, seen>>
vars == <<prog, stmts, pc, vmData, history>>

-----------------------------------------------------------------------------
(* parse.c: the statement graph.                                           *)

Graph == [nodes |-> <<>>, prev |-> 0]

Link(g, n, field, to) == [g EXCEPT !.nodes[n][field] = to]

Node(type, list) == [type |-> type, cmds |-> list, right |-> 0, left |-> 0, prev |-> 0]

\* stmt_next: an elif or an else hangs on the left of the statement before the
\* previous one, any other statement on the right of the previous one.
StmtNext(g, block) ==
    LET n == Len(g.nodes) + 1
        left == block.type \in {"ELIF_CONDITIONS", "ELSE"}
        parent == IF left THEN g.nodes[g.prev].prev ELSE g.prev
        grown == [nodes |-> Append(g.nodes, [Node(block.type, block.cmds) EXCEPT !.prev = parent]),
                  prev |-> n]
    IN  IF g.nodes = <<>> THEN [nodes |-> <<Node(block.type, block.cmds)>>, prev |-> 1]
        ELSE Link(grown, parent, IF left THEN "left" ELSE "right", n)

\* The ends of parse_while, parse_for_c_style and parse_for_each: a JUMP statement after the last
\* one, and its right is the conditions, or the for-each's list, again.
CloseLoop(g, conditions) ==
    LET n == Len(g.nodes) + 1
        jump == [type |-> g.nodes[conditions].type, cmds |-> <<>>]
    IN  Link(Link(StmtNext(g, jump), n, "right", conditions), conditions, "prev", n)

IsLoop(p) == p[1].type \in {"WHILE_CONDITIONS", "FOR_INIT", "FOR_EACH_INIT"}

\* The blocks, one after another.
Linear(p) ==
    LET linked[n \in 0..Len(p)] == IF n = 0 THEN Graph ELSE StmtNext(linked[n - 1], p[n])
    IN  linked[Len(p)]

Parse(p) ==
    (IF IsLoop(p) THEN CloseLoop(Linear(p), IF p[1].type = "FOR_INIT" THEN 2 ELSE 1)
                  ELSE Linear(p)).nodes

\* stmts->type.
StatementsType ==
    LET types == {prog[b].type : b \in DOMAIN prog}
    IN  CASE prog[1].type # "IF_CONDITIONS" -> prog[1].type
          [] {"ELSE", "ELIF"} \subseteq types -> "IF_ELIF_ELSE"
          [] "ELIF" \in types /\ "ELSE" \notin types -> "IF_ELIF"
          [] "ELSE" \in types /\ "ELIF" \notin types -> "IF_ELSE"
          [] OTHER -> "IF"

Type(s) == IF s = 0 THEN "NULL" ELSE stmts[s].type

IsJump(s) == s # 0 /\ stmts[s].cmds = <<>>

\* The connective recorded for a command: parse_token overwrites && and || with
\* the comparison's operator.
PrevOp(s, i) == IF stmts[s].cmds[i].math THEN "compare" ELSE stmts[s].cmds[i].join

-----------------------------------------------------------------------------
Init ==
    /\ prog \in Programs
    /\ stmts = Parse(prog)
    /\ pc = "next"
    /\ status = 0 /\ state = "NORMAL" /\ end = FALSE
    /\ cur_stmt = 1 /\ cmds = None /\ next_cmds = 1
    /\ pos = 0
    /\ last = [cmd |-> None, ok |-> TRUE] /\ exited = FALSE
    /\ item = 0 /\ seen = <<>>

\* Mutant of Advance: the JUMP that closes a loop is not skipped.
AdvanceOntoJump(s, i, st) ==
    LET right == stmts[s].right
        last_one == i = Len(stmts[s].cmds)
    IN  /\ cur_stmt' = IF last_one THEN right ELSE s
        /\ next_cmds' = IF ~last_one THEN i + 1 ELSE IF right = 0 THEN 0 ELSE 1
        /\ end' = (end \/ (last_one /\ right = 0))

\* vm_command_next, from command i of statement s in vm state st.
Advance(s, i, st) ==
    LET right == stmts[s].right
        atEnd == right = 0 \/ (st = "IN_IF_STATEMENTS" /\ Type(right) # "IF")
    IN  \/ /\ i < Len(stmts[s].cmds)
           /\ cur_stmt' = s /\ next_cmds' = i + 1 /\ UNCHANGED end
        \/ /\ i = Len(stmts[s].cmds) /\ atEnd
           /\ cur_stmt' = right /\ next_cmds' = 0 /\ end' = TRUE
        \/ /\ i = Len(stmts[s].cmds) /\ ~atEnd
           /\ cur_stmt' = IF IsJump(right) THEN stmts[right].right ELSE right
           /\ next_cmds' = 1 /\ UNCHANGED end

\* vm_command_set, after which vm_run executes the command.
Choose(s, i, st) ==
    /\ cmds' = <<s, i>>
    /\ state' = st
    /\ Advance(s, i, st)
    /\ pc' = "execute"
    /\ UNCHANGED <<prog, stmts, status, pos, history>>

\* Mutant of GiveUp: vm->end is not set and the next command is kept.
GiveUpKeepsGoing ==
    /\ pc' = IF cmds = None THEN "failed" ELSE "execute"
    /\ UNCHANGED <<prog, stmts, vmData, history>>

\* vm->end = true; return NULL.  vm_run then executes vm->cmds, which is still the
\* previous command, or fails if there is none.
GiveUp ==
    /\ end' = TRUE /\ next_cmds' = 0
    /\ pc' = IF cmds = None THEN "failed" ELSE "execute"
    /\ UNCHANGED <<prog, stmts, status, state, cur_stmt, cmds, pos, history>>

\* return NULL alone, from vm_next_elif_condition.
ReturnNull ==
    /\ next_cmds' = 0
    /\ pc' = IF cmds = None THEN "failed" ELSE "execute"
    /\ UNCHANGED <<prog, stmts, status, state, end, cur_stmt, cmds, pos, history>>

At(types) == pc = "next" /\ next_cmds # 0 /\ Type(cur_stmt) \in types
Ok == status = 0
Op == PrevOp(cur_stmt, next_cmds)
Stay(st) == Choose(cur_stmt, next_cmds, st)

-----------------------------------------------------------------------------
(* Conditions: the branches vm_next_if, vm_next_while and vm_next_for      *)
(* share.                                                                  *)

Conditions == {"IF_CONDITIONS", "ELIF_CONDITIONS", "WHILE_CONDITIONS", "FOR_CONDITIONS"}

BetweenConditions == At(Conditions) /\ state = "IN_CONDITIONS"

EnterConditions ==
    /\ At(Conditions) /\ state # "IN_CONDITIONS"
    /\ Stay("IN_CONDITIONS")

\* "ok && next" and "failed || next".  A comparison counts as an &&.
NextCondition ==
    /\ BetweenConditions
    /\ Ok <=> Op # "or"
    /\ Stay("IN_CONDITIONS")

\* "ok || ...": vm_next_if_statement and its like.
ConditionsHold ==
    /\ BetweenConditions /\ Ok /\ Op = "or"
    /\ Choose(stmts[cur_stmt].right, 1,
              CASE Type(cur_stmt) = "IF_CONDITIONS" -> "IN_IF_STATEMENTS"
                [] Type(cur_stmt) = "ELIF_CONDITIONS" -> "IN_ELIF_STATEMENTS"
                [] OTHER -> "IN_LOOP_STATEMENTS")

-----------------------------------------------------------------------------
(* vm_next_if.                                                             *)

\* Mutant of HasElif: an if with both elif and else is not seen to have an elif.
OnlyElif == StatementsType = "IF_ELIF"

HasElse == StatementsType \in {"IF_ELSE", "IF_ELIF_ELSE"}
HasElif == StatementsType \in {"IF_ELIF", "IF_ELIF_ELSE"}

\* vm_find_else: down the left of the head.
FindElse == CHOOSE s \in DOMAIN stmts : Type(s) = "ELSE"

\* vm_next_else_statement.
ElseStatement ==
    CASE Type(cur_stmt) \in {"IF_CONDITIONS", "ELIF_CONDITIONS"} -> stmts[cur_stmt].left
      [] Type(cur_stmt) \in {"IF", "ELIF"} -> FindElse

TakeElse ==
    IF Type(ElseStatement) = "ELSE" THEN Choose(ElseStatement, 1, "IN_ELSE_STATEMENTS")
    ELSE GiveUp

\* vm_next_elif_condition: 0 if there is none.
ElifCondition ==
    LET prev == stmts[cur_stmt].prev
        left == IF Type(cur_stmt) \in {"IF", "ELIF"} THEN stmts[prev].left
                ELSE stmts[cur_stmt].left
    IN  IF Type(left) = "ELIF_CONDITIONS" THEN left ELSE 0

\* After the last elif's block fails: vm->end is already set, so one command of
\* the else block runs.
TakeElseLast ==
    /\ cmds' = <<FindElse, 1>> /\ state' = "IN_ELSE_STATEMENTS"
    /\ cur_stmt' = FindElse /\ end' = TRUE /\ next_cmds' = 0
    /\ pc' = "execute"
    /\ UNCHANGED <<prog, stmts, status, pos, history>>

TakeElif == ElifCondition # 0 /\ Choose(ElifCondition, 1, "IN_CONDITIONS")

\* Mutant of IfConditionFails: the branch for OP_OR is missing.
IfConditionFailsOnOr ==
    /\ BetweenConditions /\ Type(cur_stmt) = "IF_CONDITIONS" /\ ~Ok
    /\ CASE StatementsType = "IF_ELSE" -> TakeElse
         [] HasElif -> TakeElif
         [] OTHER -> GiveUp

\* Between the conditions of the if.
IfConditionFails ==
    /\ BetweenConditions /\ Type(cur_stmt) = "IF_CONDITIONS" /\ ~Ok /\ Op # "or"
    /\ CASE StatementsType = "IF_ELSE" -> TakeElse
         [] HasElif -> TakeElif
         [] OTHER -> GiveUp

\* Between the conditions of an elif, before an &&.
ElifAndFails ==
    /\ BetweenConditions /\ Type(cur_stmt) = "ELIF_CONDITIONS" /\ ~Ok /\ Op = "and"
    /\ CASE ElifCondition # 0 -> TakeElif
         [] ElifCondition = 0 /\ HasElse -> TakeElse
         [] OTHER -> GiveUp

\* The same before a comparison.
ElifComparisonFails ==
    /\ BetweenConditions /\ Type(cur_stmt) = "ELIF_CONDITIONS" /\ ~Ok /\ Op = "compare"
    /\ CASE HasElse -> TakeElse
         [] ~HasElse /\ ElifCondition # 0 -> TakeElif
         [] OTHER -> ReturnNull

\* At a command of the if's block, the first or a later one.
IfBlock ==
    /\ At({"IF"})
    /\ LET refused == ~Ok /\ state = "IN_CONDITIONS"
       IN  CASE refused /\ StatementsType = "IF_ELSE" -> TakeElse
             [] refused /\ HasElif -> TakeElif
             [] ~Ok /\ ~(refused /\ StatementsType # "IF") /\ Op # "and" -> GiveUp
             [] OTHER -> Stay("IN_IF_STATEMENTS")

ElifBlock ==
    /\ At({"ELIF"})
    /\ CASE Ok /\ state = "IN_CONDITIONS" -> Stay("IN_ELIF_STATEMENTS")
         [] ~Ok /\ ElifCondition # 0 -> TakeElif
         [] ~Ok /\ ElifCondition = 0 /\ HasElse -> TakeElseLast
         [] OTHER -> GiveUp

\* At a later command of the else block: the first is chosen by TakeElse.
ElseBlock ==
    /\ At({"ELSE"})
    /\ IF Ok THEN Stay("IN_ELSE_STATEMENTS") ELSE GiveUp

-----------------------------------------------------------------------------
(* vm_next_while and vm_next_for.                                          *)

LoopConditionFails ==
    /\ BetweenConditions /\ Type(cur_stmt) \in {"WHILE_CONDITIONS", "FOR_CONDITIONS"}
    /\ ~Ok /\ Op # "or"
    /\ GiveUp

\* Mutant of LoopBlock: the body's commands are taken in VS_NORMAL.
LoopBlockStartsOver ==
    /\ At({"WHILE", "FOR"})
    /\ IF Ok THEN Stay("NORMAL") ELSE GiveUp

\* The last command of the loop leaves the state as if it were a condition.
LoopBlock ==
    LET atLast == /\ next_cmds = Len(stmts[cur_stmt].cmds)
                  /\ Type(stmts[cur_stmt].right) \in {"WHILE_CONDITIONS", "FOR_INCREMENT"}
    IN  /\ At({"WHILE", "FOR"})
        /\ IF Ok THEN Stay(IF atLast THEN "IN_CONDITIONS" ELSE "IN_LOOP_STATEMENTS")
           ELSE GiveUp

ForInit == At({"FOR_INIT"}) /\ Stay("IN_LOOP_INIT")

\* After the last item vm->cmds is NULL, so the loop ends as a failure of vm_run.
ForEach ==
    /\ At({"FOR_EACH_INIT"})
    /\ pos' = IF state = "NORMAL" THEN 1 ELSE pos + 1
    /\ IF pos' <= prog[1].items
       THEN /\ cmds' = <<1, 1>> /\ state' = "IN_LOOP_EACH_INIT" /\ pc' = "execute"
            /\ Advance(1, 1, state')
       ELSE /\ cmds' = None /\ end' = TRUE /\ next_cmds' = 0 /\ pc' = "failed"
            /\ UNCHANGED <<state, cur_stmt>>
    /\ UNCHANGED <<prog, stmts, status, history>>

ForIncrement == At({"FOR_INCREMENT"}) /\ Stay("IN_LOOP_INCREMENT")

-----------------------------------------------------------------------------
(* vm_next_normal.                                                         *)

ShortCircuit == IF Ok THEN Op = "or" ELSE Op = "and"

NormalStop ==
    /\ At({"NORMAL"}) /\ ShortCircuit
    /\ status' = IF Ok THEN status ELSE FailureContinue
    /\ end' = TRUE /\ next_cmds' = 0
    /\ pc' = "execute"
    /\ UNCHANGED <<prog, stmts, state, cur_stmt, cmds, pos, history>>

NormalNext ==
    /\ At({"NORMAL"}) /\ ~ShortCircuit
    /\ Stay("NORMAL")

-----------------------------------------------------------------------------
\* Statements whose command always succeeds: an assignment, an increment, and the
\* binding of a for-each variable.
Sure == {"FOR_INIT", "FOR_INCREMENT", "FOR_EACH_INIT"}

\* handle_init_assignment (expand.c): it is vm->state that makes a command a binding.
Bound == IF state = "IN_LOOP_EACH_INIT" THEN pos ELSE item

\* The rest of vm_run's loop: the command runs, in the foreground or as a builtin
\* or a comparison, and leaves its status.
Execute ==
    /\ pc = "execute"
    /\ exited' \in IF Type(cmds[1]) \in Sure THEN {FALSE} ELSE BOOLEAN
    /\ status' \in IF exited' THEN {SuccessEnd} ELSE
                   IF Type(cmds[1]) \in Sure THEN {0} ELSE Outcomes
    /\ last' = IF cmds = last.cmd THEN last ELSE [cmd |-> cmds, ok |-> status' = 0]
    /\ pc' = IF end \/ next_cmds = 0 THEN "done" ELSE "next"
    /\ item' = Bound
    /\ seen' = IF prog[1].type = "FOR_EACH_INIT" /\ Type(cmds[1]) = "FOR" THEN Append(seen, item)
               ELSE seen
    /\ UNCHANGED <<prog, stmts, state, end, cur_stmt, cmds, next_cmds, pos>>

\* What vm_run returns: vm_status_aggregate, or the failure of a NULL vm->cmds.
Result == IF pc = "failed" \/ status = Failure THEN FailureContinue ELSE status

\* main's loop ends on EXIT_FAILURE and on EXIT_SUCCESS_END.
EndsShell == pc \in {"done", "failed"} /\ Result \in {Failure, SuccessEnd}

Ended == pc \in {"done", "failed"} /\ UNCHANGED vars

VmNext ==
    \/ EnterConditions \/ NextCondition \/ ConditionsHold
    \/ IfConditionFails \/ ElifAndFails \/ ElifComparisonFails
    \/ IfBlock \/ ElifBlock \/ ElseBlock
    \/ LoopConditionFails \/ LoopBlock \/ ForInit \/ ForEach \/ ForIncrement
    \/ NormalStop \/ NormalNext

Next == VmNext \/ Execute \/ Ended

Spec == Init /\ [][Next]_vars /\ WF_vars(VmNext \/ Execute)

-----------------------------------------------------------------------------
(* Properties.                                                             *)

\* No step leaves vm_next with a NULL statement or a command outside its list.
TypeOK ==
    /\ prog \in Programs
    /\ \A s \in DOMAIN stmts : {stmts[s].right, stmts[s].left, stmts[s].prev} \subseteq 0..Len(stmts)
    /\ pc \in {"next", "execute", "done", "failed"}
    /\ status \in Outcomes \union {0, FailureContinue, SuccessEnd}
    /\ state \in {"NORMAL", "IN_CONDITIONS", "IN_IF_STATEMENTS", "IN_ELSE_STATEMENTS",
                  "IN_ELIF_STATEMENTS", "IN_LOOP_STATEMENTS", "IN_LOOP_INIT",
                  "IN_LOOP_EACH_INIT", "IN_LOOP_INCREMENT"}
    /\ end \in BOOLEAN /\ exited \in BOOLEAN /\ pos \in Nat
    /\ item \in Nat /\ seen \in Seq(Nat)
    /\ cur_stmt \in 0..Len(stmts)
    /\ pc = "next" => cur_stmt # 0 /\ next_cmds \in DOMAIN stmts[cur_stmt].cmds
    /\ pc = "execute" => cmds[2] \in DOMAIN stmts[cmds[1]].cmds

Runs == pc = "execute" /\ pc' # "execute"

Expected ==
    IF last.cmd = None THEN First ELSE NextCommand(prog, last.cmd, last.ok)

\* Whatever the commands return, each one that runs is the one the language says
\* comes next, except that giving up runs the last one again (RunsOnce).
FollowsLanguage == [][Runs /\ cmds # last.cmd => cmds = Expected]_vars

\* Short-circuiting stops there: no command runs twice in a row (vm.c: "breaking
\* out of VM loop, short circuiting on AND").
RunsOnce == [][Runs => cmds # last.cmd]_vars

\* The loop of vm_run ends only where the program ends, or in a while loop whose
\* block failed (a rule of this shell, not of the language).
StopsAtEnd ==
    pc = "done" => \/ Expected = Done
                   \/ Type(last.cmd[1]) = "WHILE" /\ ~last.ok

\* The body of a for-each runs once for each item, in the order of the list, with the loop's
\* variable bound to that item, whether or not its runs fail; the loop ends only when it has run
\* for all of them (vm_next_for, the JUMP of parse_for_each, expand).
EachItemOnce ==
    prog[1].type = "FOR_EACH_INIT" =>
        /\ seen = [n \in 1..Len(seen) |-> n]
        /\ pc \in {"done", "failed"} => Len(seen) = prog[1].items

\* Once the program is at its end, vm_run returns.
EndsWithProgram == (last.cmd # None /\ Expected = Done) ~> (pc = "done")

\* The shell ends when the user says exit, and never because a command failed
\* (vm.c: "make sure condition failure doesn't cause shell to exit").
OnlyExitEndsShell == EndsShell => exited

-----------------------------------------------------------------------------
(* The programs that the virtual machine runs as the language says.        *)

AndList(list) ==
    list # <<>> /\ list[1].join = "none" /\ \A i \in 2..Len(list) : list[i].join = "and"
OrList(list) ==
    list # <<>> /\ list[1].join = "none" /\ \A i \in 2..Len(list) : list[i].join = "or"
Single(list) == AndList(list) /\ Len(list) = 1

\* A comparison after a connective.
Compares(list) == \E i \in 2..Len(list) : list[i].math

OneConnective(list) == AndList(list) \/ (OrList(list) /\ ~Compares(list))

\* The conditions of an if and its elifs are at the odd places.  The blocks are single
\* commands, but the else of an if without elifs.  Where there is an else, only the last
\* elif compares after an &&: at such a comparison the virtual machine takes the else even
\* if another elif is left.
IfType(p, b) ==
    CASE b = 1 -> "IF_CONDITIONS"
      [] b = 2 -> "IF"
      [] b > 2 /\ b % 2 = 0 -> "ELIF"
      [] b > 2 /\ b % 2 # 0 -> IF b = Len(p) THEN "ELSE" ELSE "ELIF_CONDITIONS"

PlainIf(p) ==
    /\ Len(p) > 1
    /\ \A b \in 1..Len(p) :
        LET list == p[b].cmds
        IN  /\ p[b].type = IfType(p, b)
            /\ b % 2 = 0 => Single(list)
            /\ b % 2 # 0 /\ b < Len(p) => OneConnective(list)
            /\ b % 2 # 0 /\ b = Len(p) => IF b = 3 THEN AndList(list) ELSE Single(list)
            /\ b % 2 # 0 /\ Len(p) % 2 # 0 /\ 2 < b /\ b < Len(p) - 2 => ~Compares(list)

PlainWhile(p) ==
    /\ Len(p) > 1 /\ p[1].type = "WHILE_CONDITIONS" /\ OneConnective(p[1].cmds)
    /\ \A b \in 2..Len(p) : p[b].type = "WHILE" /\ AndList(p[b].cmds)

PlainFor(p) ==
    /\ Len(p) = 4
    /\ p[1].type = "FOR_INIT" /\ Single(p[1].cmds)
    /\ p[2].type = "FOR_CONDITIONS" /\ OneConnective(p[2].cmds)
    /\ p[3].type = "FOR" /\ Single(p[3].cmds)
    /\ p[4].type = "FOR_INCREMENT" /\ Single(p[4].cmds)

PlainForEach(p) ==
    /\ Len(p) = 2
    /\ p[1].type = "FOR_EACH_INIT" /\ Single(p[1].cmds)
    /\ p[2].type = "FOR" /\ Single(p[2].cmds)

PlainNormal(p) ==
    /\ Len(p) = 1 /\ p[1].type = "NORMAL"
    /\ OneConnective(p[1].cmds) /\ ~Compares(p[1].cmds)

Plain(p) == PlainIf(p) \/ PlainWhile(p) \/ PlainFor(p) \/ PlainForEach(p) \/ PlainNormal(p)
=============================================================================
