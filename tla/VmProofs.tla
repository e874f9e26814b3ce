------------------------------ MODULE VmProofs ------------------------------
(***************************************************************************)
(* The virtual machine runs every program of the plain shapes of Vm as the *)
(* language says: programs with any number of elifs, of blocks in a while  *)
(* loop and of commands in a list, whatever their commands return.         *)
(***************************************************************************)
EXTENDS Vm, Recursion, SequenceTheorems

IsIf(p) == p[1].type = "IF_CONDITIONS"

\* Where a loop starts again.
Start(p) == IF p[1].type = "FOR_INIT" THEN 2 ELSE 1

\* The block that follows block b if nothing fails; 0 if none does.
After(b) ==
    CASE IsIf(prog) -> IF b % 2 # 0 /\ b < Len(prog) THEN b + 1 ELSE 0
      [] IsLoop(prog) -> IF b < Len(prog) THEN b + 1 ELSE Start(prog)
      [] ~IsIf(prog) /\ ~IsLoop(prog) -> 0

\* The vm states that a command of such a block leaves.
States(type) ==
    CASE type \in Conditions -> {"IN_CONDITIONS"}
      [] type = "IF" -> {"IN_IF_STATEMENTS"}
      [] type = "ELIF" -> {"IN_ELIF_STATEMENTS"}
      [] type = "ELSE" -> {"IN_ELSE_STATEMENTS"}
      [] type \in {"WHILE", "FOR"} -> {"IN_CONDITIONS", "IN_LOOP_STATEMENTS"}
      [] type = "FOR_INIT" -> {"IN_LOOP_INIT"}
      [] type = "FOR_INCREMENT" -> {"IN_LOOP_INCREMENT"}
      [] type = "FOR_EACH_INIT" -> {"IN_LOOP_EACH_INIT"}
      [] type = "NORMAL" -> {"NORMAL"}

\* The vm points at what follows command i of block b if nothing fails.
Pointed(b, i) ==
    IF i < Len(prog[b].cmds) THEN cur_stmt = b /\ next_cmds = i + 1
    ELSE After(b) # 0 /\ cur_stmt = After(b) /\ next_cmds = 1

\* Nothing follows, or nothing may.
Final(c) == \A ok \in BOOLEAN : NextCommand(prog, c, ok) = Done
Stopped == Expected = Done \/ (Type(last.cmd[1]) = "WHILE" /\ ~last.ok)

LastOK ==
    \/ last.cmd = None
    \/ \E b \in 1..Len(prog) : \E i \in 1..Len(prog[b].cmds) :
         last.cmd = <<b, i>> /\ last.ok \in BOOLEAN /\ (prog[b].type \in Sure => last.ok)

FirstOK == /\ cmds = None /\ status = 0 /\ state = "NORMAL" /\ ~end
           /\ cur_stmt = 1 /\ next_cmds = 1

\* Between commands the vm points at what follows the last one, and its state says in which
\* kind of block that was.
NextOK == \E b \in 1..Len(prog) : \E i \in 1..Len(prog[b].cmds) :
    /\ cmds = <<b, i>> /\ last.cmd = <<b, i>> /\ (last.ok <=> status = 0) /\ ~end
    /\ Pointed(b, i) /\ state \in States(prog[b].type)

\* A command that was chosen is the right one, and the vm points behind it.
ChosenOK == \E b \in 1..Len(prog) : \E i \in 1..Len(prog[b].cmds) :
    /\ cmds = <<b, i>> /\ cmds = Expected /\ state \in States(prog[b].type)
    /\ IF end \/ next_cmds = 0 THEN Final(cmds) ELSE Pointed(b, i)

GivenUp == last.cmd # None /\ (end \/ next_cmds = 0) /\ Stopped

ControlOK ==
    /\ LastOK
    /\ pc = "next" => IF last.cmd = None THEN FirstOK ELSE NextOK
    /\ pc = "execute" => IF cmds = last.cmd THEN GivenUp ELSE ChosenOK
    /\ pc = "done" => last.cmd # None /\ Stopped

Inv == TypeOK /\ stmts = Parse(prog) /\ ControlOK

-----------------------------------------------------------------------------
(* What parse.c makes of a program.                                        *)

Types == {"IF_CONDITIONS", "IF", "ELIF_CONDITIONS", "ELIF", "ELSE", "WHILE_CONDITIONS", "WHILE",
          "FOR_INIT", "FOR_CONDITIONS", "FOR", "FOR_INCREMENT", "FOR_EACH_INIT", "NORMAL"}

Nodes == [type : Types, cmds : Seq(Command), right : Nat, left : Nat, prev : Nat]

LEMMA ProgramOK ==
    ASSUME NEW p \in Programs, Plain(p)
    PROVE  /\ Len(p) \in Nat \ {0} /\ DOMAIN p = 1..Len(p)
           /\ \A b \in 1..Len(p) : /\ p[b].type \in Types /\ p[b].cmds \in Seq(Command)
                                   /\ Len(p[b].cmds) \in Nat \ {0}
                                   /\ \A i \in 1..Len(p[b].cmds) : p[b].cmds[i] \in Command
                                   /\ p[b].cmds[1].join = "none"
           /\ PlainForEach(p) => p[1].items \in Nat
  <1>1. p \in Seq(Block \union ForEachHead)
    BY ProgramsAssumption
  <1>2. Len(p) \in Nat /\ DOMAIN p = 1..Len(p)
        /\ \A b \in 1..Len(p) : p[b] \in Block \union ForEachHead
    BY <1>1, LenProperties, ElementOfSeq
  <1>3. Len(p) # 0
    BY DEF Plain, PlainIf, PlainWhile, PlainFor, PlainForEach, PlainNormal
  <1>4. \A b \in 1..Len(p) : p[b].type \in Types /\ p[b].cmds \in Seq(Command)
    <2>1. \A q \in Block \union ForEachHead : q.type \in Types /\ q.cmds \in Seq(Command)
      BY DEF Block, ForEachHead, Types
    <2> QED
      BY <1>2, <2>1
  <1>5. \A b \in 1..Len(p) : AndList(p[b].cmds) \/ OrList(p[b].cmds)
    <2>1. CASE PlainIf(p)
      <3>1. ASSUME NEW b \in 1..Len(p) PROVE AndList(p[b].cmds) \/ OrList(p[b].cmds)
        <4>1. b < Len(p) \/ b = Len(p)
          <5>1. Len(p) \in Nat
            BY <1>2
          <5> QED
            BY <5>1
        <4> QED
          BY <2>1, <4>1 DEF PlainIf, Single, OneConnective
      <3> QED
        BY <3>1
    <2>2. CASE PlainWhile(p)
      <3>1. ASSUME NEW b \in 1..Len(p) PROVE b = 1 \/ b \in 2..Len(p)
        BY <1>2
      <3> QED
        BY <2>2, <3>1 DEF PlainWhile, OneConnective
    <2>3. CASE PlainFor(p)
      <3>1. 1..Len(p) = {1, 2, 3, 4}
        BY <2>3 DEF PlainFor
      <3> QED
        BY <2>3, <3>1 DEF PlainFor, Single, OneConnective
    <2>4. CASE PlainForEach(p)
      <3>1. 1..Len(p) = {1, 2}
        BY <2>4 DEF PlainForEach
      <3> QED
        BY <2>4, <3>1 DEF PlainForEach, Single
    <2>5. CASE PlainNormal(p)
      <3>1. 1..Len(p) = {1}
        BY <2>5 DEF PlainNormal
      <3> QED
        BY <2>5, <3>1 DEF PlainNormal, OneConnective
    <2> QED
      BY <2>1, <2>2, <2>3, <2>4, <2>5 DEF Plain
  <1>6. \A b \in 1..Len(p) : p[b].cmds # <<>> /\ p[b].cmds[1].join = "none"
    BY <1>5 DEF AndList, OrList
  <1>7. ASSUME NEW b \in 1..Len(p)
        PROVE  /\ Len(p[b].cmds) \in Nat \ {0}
               /\ \A i \in 1..Len(p[b].cmds) : p[b].cmds[i] \in Command
    BY <1>4, <1>6, EmptySeq, LenProperties, ElementOfSeq
  <1>8. PlainForEach(p) => p[1].items \in Nat
    <2>1. 1 \in 1..Len(p)
      BY <1>2, <1>3
    <2> QED
      BY <1>2, <2>1 DEF PlainForEach, Block, ForEachHead
  <1> QED
    BY <1>2, <1>3, <1>4, <1>6, <1>7, <1>8

\* Blocks that hang on the left.
Left(block) == block.type \in {"ELIF_CONDITIONS", "ELSE"}

\* g is nodes with a block more, on the left or the right of its parent.
Hung(g, nodes, n, block, parent) ==
    /\ g = [nodes |-> g.nodes, prev |-> n + 1]
    /\ g.nodes \in Seq(Nodes) /\ Len(g.nodes) = n + 1
    /\ g.nodes[n + 1] = [type |-> block.type, cmds |-> block.cmds, right |-> 0,
                         left |-> 0, prev |-> parent]
    /\ \A s \in 1..n :
         g.nodes[s] = CASE s # parent -> nodes[s]
                        [] s = parent /\ Left(block) -> [nodes[s] EXCEPT !.left = n + 1]
                        [] s = parent /\ ~Left(block) -> [nodes[s] EXCEPT !.right = n + 1]

\* stmt_next.
LEMMA StmtNextOK ==
    ASSUME NEW nodes \in Seq(Nodes), NEW n \in Nat \ {0}, n = Len(nodes),
           NEW block, block.type \in Types, block.cmds \in Seq(Command),
           NEW parent \in 1..n, parent = IF Left(block) THEN nodes[n].prev ELSE n,
           NEW g, g = StmtNext([nodes |-> nodes, prev |-> n], block)
    PROVE  Hung(g, nodes, n, block, parent)
  <1> DEFINE node == [type |-> block.type, cmds |-> block.cmds, right |-> 0, left |-> 0,
                      prev |-> parent]
             more == Append(nodes, node)
             field == IF Left(block) THEN "left" ELSE "right"
  <1>1. g = Link([nodes |-> more, prev |-> n + 1], parent, field, n + 1)
    <2>1. nodes # <<>>
      BY EmptySeq
    <2>2. [Node(block.type, block.cmds) EXCEPT !.prev = parent] = node
      BY DEF Node
    <2> QED
      BY <2>1, <2>2 DEF StmtNext, Left
  <1>2. node \in Nodes
    BY DEF Nodes
  <1>3. /\ more \in Seq(Nodes) /\ Len(more) = n + 1 /\ more[n + 1] = node
        /\ \A s \in 1..n : more[s] = nodes[s]
    BY <1>2, AppendProperties
  <1> HIDE DEF more
  <1>4. DOMAIN more = 1..(n + 1) /\ \A s \in 1..(n + 1) : more[s] \in Nodes
    BY <1>3, LenProperties, ElementOfSeq
  <1> DEFINE linked == [more EXCEPT ![parent] = [@ EXCEPT ![field] = n + 1]]
  <1>5. g = [nodes |-> linked, prev |-> n + 1]
    BY <1>1 DEF Link
  <1>6. linked[parent] = IF Left(block) THEN [more[parent] EXCEPT !.left = n + 1]
                                 ELSE [more[parent] EXCEPT !.right = n + 1]
    BY <1>4
  <1>7. \A s \in 1..(n + 1) : s # parent => linked[s] = more[s]
    BY <1>4
  <1> HIDE DEF linked
  <1>8. linked[parent] \in Nodes
    <2>1. more[parent] \in Nodes
      BY <1>4
    <2>2. \A m \in Nodes : [m EXCEPT !.left = n + 1] \in Nodes /\ [m EXCEPT !.right = n + 1] \in Nodes
      <3>1. ASSUME NEW m \in Nodes
            PROVE  [m EXCEPT !.left = n + 1] \in Nodes /\ [m EXCEPT !.right = n + 1] \in Nodes
        <4>1. n + 1 \in Nat
          OBVIOUS
        <4> QED
          BY <4>1 DEF Nodes
      <3> QED
        BY <3>1
    <2> QED
      BY <1>6, <2>1, <2>2, ZenonT(30)
  <1>9. linked \in [1..(n + 1) -> Nodes]
    <2>1. DOMAIN linked = 1..(n + 1) /\ linked = [s \in 1..(n + 1) |-> linked[s]]
      BY <1>4 DEF linked
    <2> QED
      BY <1>4, <1>7, <1>8, <2>1
  <1>10. linked \in Seq(Nodes) /\ Len(linked) = n + 1
    <2>1. linked \in Seq(Nodes)
      BY <1>9, SeqDef
    <2> QED
      BY <1>9, <2>1, LenProperties
  <1>11. g.nodes = linked /\ parent # n + 1 /\ g = [nodes |-> g.nodes, prev |-> n + 1]
    BY <1>5
  <1>12. linked[n + 1] = node
    BY <1>3, <1>7, <1>11
  <1>13. \A s \in 1..n :
           linked[s] = CASE s # parent -> nodes[s]
                         [] s = parent /\ Left(block) -> [nodes[s] EXCEPT !.left = n + 1]
                         [] s = parent /\ ~Left(block) -> [nodes[s] EXCEPT !.right = n + 1]
    <2>1. \A s \in 1..n : s \in 1..(n + 1)
      OBVIOUS
    <2>2. more[parent] = nodes[parent]
      BY <1>3
    <2> QED
      BY <1>3, <1>6, <1>7, <2>1, <2>2
  <1> QED
    BY <1>10, <1>11, <1>12, <1>13 DEF Hung

\* What the blocks become, if each prefix of them becomes what G says.
LEMMA LinearIs ==
    ASSUME NEW p, NEW N \in Nat, N = Len(p), NEW G, G[0] = Graph,
           \A n \in 0..(N - 1) : G[n + 1] = StmtNext(G[n], p[n + 1])
    PROVE  Linear(p) = G[N]
  <1> DEFINE next(n, g) == StmtNext(g, p[n])
             Loop(f) == [n \in 0..N |-> IF n = 0 THEN Graph ELSE next(n, f[n - 1])]
             linked == CHOOSE f : f = Loop(f)
  <1>1. Linear(p) = linked[N]
    BY DEF Linear
  <1>2. \A n \in 0..(N - 1) : G[n + 1] = next(n + 1, G[n])
    OBVIOUS
  <1> HIDE DEF next
  <1>3. linked = Loop(linked)
    <2> DEFINE f == [n \in 0..N |-> G[n]]
    <2>1. \A n \in 0..N : n # 0 => n - 1 \in 0..(N - 1) /\ (n - 1) + 1 = n
      OBVIOUS
    <2>2. \A n \in 0..N : f[n] = IF n = 0 THEN Graph ELSE next(n, f[n - 1])
      BY <1>2, <2>1
    <2>3. f = Loop(f)
      BY <2>2
    <2> QED
      BY <2>3
  <1> HIDE DEF linked
  <1>4. linked[0] = Graph /\ \A n \in 0..(N - 1) : linked[n + 1] = next(n + 1, linked[n])
    <2>1. \A n \in 0..N : linked[n] = IF n = 0 THEN Graph ELSE next(n, linked[n - 1])
      BY <1>3
    <2>2. \A n \in 0..(N - 1) : n + 1 \in 0..N /\ n + 1 # 0 /\ (n + 1) - 1 = n
      OBVIOUS
    <2> QED
      BY <2>1, <2>2
  <1> DEFINE P == {n \in Nat : n <= N => linked[n] = G[n]}
  <1>5. 0 \in P
    BY <1>4
  <1>6. ASSUME NEW n \in Nat, n \in P PROVE n + 1 \in P
    BY <1>2, <1>4, <1>6
  <1>7. \A n \in Nat : n \in P
    <2> HIDE DEF P
    <2> QED
      BY <1>5, <1>6, Induction
  <1> QED
    BY <1>1, <1>7

-----------------------------------------------------------------------------
(* The graph of an if, and of a list.                                      *)

\* Conditions lead right to their block, and left to the next conditions or the else; what
\* hangs on the left points back to the conditions before it.
IfNode(p, n, s) ==
    [type |-> p[s].type, cmds |-> p[s].cmds,
     right |-> IF s % 2 # 0 /\ s < n THEN s + 1 ELSE 0,
     left |-> IF s % 2 # 0 /\ s + 1 < n THEN s + 2 ELSE 0,
     prev |-> IF s % 2 = 0 THEN s - 1 ELSE IF s = 1 THEN 0 ELSE s - 2]

IfNodes(p, n) == [s \in 1..n |-> IfNode(p, n, s)]

LEMMA IfNodesOK ==
    ASSUME NEW p \in Programs, Plain(p), NEW n \in 0..Len(p)
    PROVE  IfNodes(p, n) \in Seq(Nodes) /\ Len(IfNodes(p, n)) = n
  <1>1. Len(p) \in Nat /\ n \in Nat
        /\ \A s \in 1..n : p[s].type \in Types /\ p[s].cmds \in Seq(Command)
    BY ProgramOK
  <1>2. ASSUME NEW s \in 1..n PROVE IfNode(p, n, s) \in Nodes
    <2>1. /\ (IF s % 2 # 0 /\ s < n THEN s + 1 ELSE 0) \in Nat
          /\ (IF s % 2 # 0 /\ s + 1 < n THEN s + 2 ELSE 0) \in Nat
          /\ (IF s % 2 = 0 THEN s - 1 ELSE IF s = 1 THEN 0 ELSE s - 2) \in Nat
      BY <1>1
    <2> QED
      BY <1>1, <2>1 DEF IfNode, Nodes
  <1>3. IfNodes(p, n) \in [1..n -> Nodes]
    BY <1>2 DEF IfNodes
  <1>4. IfNodes(p, n) \in Seq(Nodes)
    BY <1>1, <1>3, SeqDef
  <1> QED
    BY <1>1, <1>3, <1>4, LenProperties

LEMMA IfStmtNext ==
    ASSUME NEW p \in Programs, Plain(p), PlainIf(p), NEW n \in 1..(Len(p) - 1)
    PROVE  StmtNext([nodes |-> IfNodes(p, n), prev |-> n], p[n + 1])
               = [nodes |-> IfNodes(p, n + 1), prev |-> n + 1]
  <1> DEFINE block == p[n + 1]
             parent == IF n % 2 = 0 THEN n - 1 ELSE n
             nodes == IfNodes(p, n)
             g == StmtNext([nodes |-> nodes, prev |-> n], block)
  <1>1. /\ Len(p) \in Nat /\ n \in Nat \ {0} /\ n + 1 \in 1..Len(p) /\ n \in 1..n
        /\ block.type \in Types /\ block.cmds \in Seq(Command)
    BY ProgramOK
  <1>2. nodes \in Seq(Nodes) /\ Len(nodes) = n
    BY <1>1, IfNodesOK
  <1>3. Left(block) <=> n % 2 = 0
    <2>1. block.type = IfType(p, n + 1)
      BY <1>1 DEF PlainIf
    <2>2. n % 2 = 0 <=> (n + 1) % 2 # 0
      BY <1>1
    <2> QED
      BY <1>1, <2>1, <2>2 DEF IfType, Left
  <1>4. parent \in 1..n /\ parent = IF Left(block) THEN nodes[n].prev ELSE n
    <2>1. nodes[n] = IfNode(p, n, n)
      BY <1>1 DEF IfNodes
    <2> QED
      BY <1>1, <1>3, <2>1 DEF IfNode
  <1> HIDE DEF block, parent, nodes, g
  <1>6. /\ g = [nodes |-> g.nodes, prev |-> n + 1]
        /\ g.nodes \in Seq(Nodes) /\ Len(g.nodes) = n + 1
        /\ g.nodes[n + 1] = [type |-> block.type, cmds |-> block.cmds, right |-> 0,
                             left |-> 0, prev |-> parent]
        /\ \A s \in 1..n :
             g.nodes[s] = CASE s # parent -> nodes[s]
                            [] s = parent /\ Left(block) -> [nodes[s] EXCEPT !.left = n + 1]
                            [] s = parent /\ ~Left(block) -> [nodes[s] EXCEPT !.right = n + 1]
    <2>1. g = StmtNext([nodes |-> nodes, prev |-> n], block)
      BY DEF g
    <2>2. Hung(g, nodes, n, block, parent)
      BY <1>1, <1>2, <1>4, <2>1, StmtNextOK
    <2> QED
      BY <2>2 DEF Hung
  <1>7. g.nodes[n + 1] = IfNode(p, n + 1, n + 1)
    <2>1. /\ ~(n + 1 < n + 1) /\ ~((n + 1) + 1 < n + 1) /\ n + 1 # 1
          /\ parent = IF (n + 1) % 2 = 0 THEN (n + 1) - 1 ELSE (n + 1) - 2
      BY <1>1 DEF parent
    <2> QED
      BY <1>6, <2>1 DEF IfNode, block
  <1>8. ASSUME NEW s \in 1..n PROVE g.nodes[s] = IfNode(p, n + 1, s)
    <2>1. nodes[s] = IfNode(p, n, s)
      BY <1>8 DEF nodes, IfNodes
    <2>2. CASE s # parent
      <3>1. g.nodes[s] = IfNode(p, n, s)
        BY <1>6, <2>1, <2>2
      <3>2. s % 2 # 0 => (s < n <=> s < n + 1) /\ (s + 1 < n <=> s + 1 < n + 1)
        BY <1>1, <2>2 DEF parent
      <3> QED
        BY <3>1, <3>2 DEF IfNode
    <2>3. CASE s = parent /\ Left(block)
      <3>1. g.nodes[s] = [IfNode(p, n, s) EXCEPT !.left = n + 1]
        BY <1>6, <2>1, <2>3
      <3>2. s % 2 # 0 /\ s < n /\ s + 1 < n + 1 /\ n + 1 = s + 2
        BY <1>1, <1>3, <2>3 DEF parent
      <3> QED
        BY <3>1, <3>2 DEF IfNode
    <2>4. CASE s = parent /\ ~Left(block)
      <3>1. g.nodes[s] = [IfNode(p, n, s) EXCEPT !.right = n + 1]
        BY <1>6, <2>1, <2>4
      <3>2. /\ s % 2 # 0 /\ ~(s < n) /\ s < n + 1 /\ n + 1 = s + 1
            /\ ~(s + 1 < n) /\ ~(s + 1 < n + 1)
        BY <1>1, <1>3, <2>4 DEF parent
      <3> QED
        BY <3>1, <3>2 DEF IfNode
    <2> QED
      BY <2>2, <2>3, <2>4
  <1>9. g.nodes = IfNodes(p, n + 1)
    <2>1. DOMAIN g.nodes = 1..(n + 1) /\ g.nodes = [s \in 1..(n + 1) |-> g.nodes[s]]
      BY <1>6, LenProperties
    <2>2. \A s \in 1..(n + 1) : s = n + 1 \/ s \in 1..n
      BY <1>1
    <2> QED
      BY <1>7, <1>8, <2>1, <2>2 DEF IfNodes
  <1> QED
    BY <1>6, <1>9 DEF g, nodes, block

\* The graph of a program whose blocks follow one another.
ChainNode(p, n, s) ==
    [type |-> p[s].type, cmds |-> p[s].cmds, right |-> IF s < n THEN s + 1 ELSE 0,
     left |-> 0, prev |-> s - 1]

ChainNodes(p, n) == [s \in 1..n |-> ChainNode(p, n, s)]

IsChain(p) == \A b \in 2..Len(p) : ~Left(p[b])

LEMMA ChainNodesOK ==
    ASSUME NEW p \in Programs, Plain(p), NEW n \in 0..Len(p)
    PROVE  ChainNodes(p, n) \in Seq(Nodes) /\ Len(ChainNodes(p, n)) = n
  <1>1. Len(p) \in Nat /\ n \in Nat
        /\ \A s \in 1..n : p[s].type \in Types /\ p[s].cmds \in Seq(Command)
    BY ProgramOK
  <1>2. ASSUME NEW s \in 1..n PROVE ChainNode(p, n, s) \in Nodes
    <2>1. (IF s < n THEN s + 1 ELSE 0) \in Nat /\ s - 1 \in Nat
      BY <1>1
    <2> QED
      BY <1>1, <2>1 DEF ChainNode, Nodes
  <1>3. ChainNodes(p, n) \in [1..n -> Nodes]
    BY <1>2 DEF ChainNodes
  <1>4. ChainNodes(p, n) \in Seq(Nodes)
    BY <1>1, <1>3, SeqDef
  <1> QED
    BY <1>1, <1>3, <1>4, LenProperties

LEMMA ChainStmtNext ==
    ASSUME NEW p \in Programs, Plain(p), IsChain(p), NEW n \in 1..(Len(p) - 1)
    PROVE  StmtNext([nodes |-> ChainNodes(p, n), prev |-> n], p[n + 1])
               = [nodes |-> ChainNodes(p, n + 1), prev |-> n + 1]
  <1> DEFINE block == p[n + 1]
             nodes == ChainNodes(p, n)
             g == StmtNext([nodes |-> nodes, prev |-> n], block)
  <1>1. /\ Len(p) \in Nat /\ n \in Nat \ {0} /\ n + 1 \in 1..Len(p) /\ n \in 1..n
        /\ block.type \in Types /\ block.cmds \in Seq(Command)
    BY ProgramOK
  <1>2. nodes \in Seq(Nodes) /\ Len(nodes) = n
    BY <1>1, ChainNodesOK
  <1>3. ~Left(block)
    <2>1. n + 1 \in 2..Len(p)
      BY <1>1
    <2> QED
      BY <2>1 DEF IsChain
  <1> HIDE DEF block, nodes, g
  <1>4. Hung(g, nodes, n, block, n)
    <2>1. g = StmtNext([nodes |-> nodes, prev |-> n], block) /\ n = IF Left(block) THEN nodes[n].prev ELSE n
      BY <1>3 DEF g
    <2> QED
      BY <1>1, <1>2, <2>1, StmtNextOK
  <1>5. g.nodes[n + 1] = ChainNode(p, n + 1, n + 1)
    <2>1. ~(n + 1 < n + 1) /\ (n + 1) - 1 = n
      BY <1>1
    <2> QED
      BY <1>4, <2>1 DEF ChainNode, block, Hung
  <1>6. ASSUME NEW s \in 1..n PROVE g.nodes[s] = ChainNode(p, n + 1, s)
    <2>1. nodes[s] = ChainNode(p, n, s)
      BY <1>6 DEF nodes, ChainNodes
    <2>2. CASE s # n
      <3>1. g.nodes[s] = ChainNode(p, n, s)
        BY <1>4, <2>1, <2>2 DEF Hung
      <3>2. s < n /\ s < n + 1
        BY <1>1, <2>2
      <3> QED
        BY <3>1, <3>2 DEF ChainNode
    <2>3. CASE s = n
      <3>1. g.nodes[s] = [ChainNode(p, n, s) EXCEPT !.right = n + 1]
        BY <1>3, <1>4, <2>1, <2>3 DEF Hung
      <3>2. ~(s < n) /\ s < n + 1 /\ n + 1 = s + 1
        BY <1>1, <2>3
      <3> QED
        BY <3>1, <3>2 DEF ChainNode
    <2> QED
      BY <2>2, <2>3
  <1>7. g.nodes = ChainNodes(p, n + 1)
    <2>1. DOMAIN g.nodes = 1..(n + 1) /\ g.nodes = [s \in 1..(n + 1) |-> g.nodes[s]]
      BY <1>4, LenProperties DEF Hung
    <2>2. \A s \in 1..(n + 1) : s = n + 1 \/ s \in 1..n
      BY <1>1
    <2> QED
      BY <1>5, <1>6, <2>1, <2>2 DEF ChainNodes
  <1> QED
    BY <1>4, <1>7 DEF g, nodes, block, Hung

\* What parse.c makes of the blocks before a loop is closed.
LEMMA LinearOK ==
    ASSUME NEW p \in Programs, Plain(p)
    PROVE  /\ PlainIf(p) => Linear(p) = [nodes |-> IfNodes(p, Len(p)), prev |-> Len(p)]
           /\ IsChain(p) => Linear(p) = [nodes |-> ChainNodes(p, Len(p)), prev |-> Len(p)]
  <1> DEFINE N == Len(p)
             I == [n \in 0..N |-> [nodes |-> IfNodes(p, n), prev |-> n]]
             C == [n \in 0..N |-> [nodes |-> ChainNodes(p, n), prev |-> n]]
  <1>1. N \in Nat \ {0} /\ 0 \in 0..N /\ N \in 0..N /\ p[1].type \in Types
    BY ProgramOK
  <1>2. IfNodes(p, 0) = <<>> /\ ChainNodes(p, 0) = <<>>
    <2>1. 0 \in 0..Len(p)
      BY <1>1
    <2>2. IfNodes(p, 0) \in Seq(Nodes) /\ Len(IfNodes(p, 0)) = 0
      BY <2>1, IfNodesOK
    <2>3. ChainNodes(p, 0) \in Seq(Nodes) /\ Len(ChainNodes(p, 0)) = 0
      BY <2>1, ChainNodesOK
    <2> QED
      BY <2>2, <2>3, EmptySeq
  <1>3. StmtNext(Graph, p[1]) = [nodes |-> <<Node(p[1].type, p[1].cmds)>>, prev |-> 1]
    BY DEF StmtNext, Graph
  <1>4. IfNodes(p, 1) = <<Node(p[1].type, p[1].cmds)>>
    <2>1. IfNode(p, 1, 1) = Node(p[1].type, p[1].cmds)
      BY DEF IfNode, Node
    <2> QED
      BY <2>1 DEF IfNodes
  <1>5. ChainNodes(p, 1) = <<Node(p[1].type, p[1].cmds)>>
    <2>1. ChainNode(p, 1, 1) = Node(p[1].type, p[1].cmds)
      BY DEF ChainNode, Node
    <2> QED
      BY <2>1 DEF ChainNodes
  <1>6. \A n \in 0..(N - 1) : n = 0 \/ n \in 1..(Len(p) - 1)
    BY <1>1
  <1>7. \A n \in 0..(N - 1) : n \in 0..N /\ n + 1 \in 0..N /\ (n = 0 => n + 1 = 1)
    BY <1>1
  <1>8. PlainIf(p) => \A n \in 0..(N - 1) : I[n + 1] = StmtNext(I[n], p[n + 1])
    BY <1>2, <1>3, <1>4, <1>6, <1>7, IfStmtNext DEF Graph
  <1>9. IsChain(p) => \A n \in 0..(N - 1) : C[n + 1] = StmtNext(C[n], p[n + 1])
    BY <1>2, <1>3, <1>5, <1>6, <1>7, ChainStmtNext DEF Graph
  <1>10. I[0] = Graph /\ C[0] = Graph
    BY <1>1, <1>2 DEF Graph
  <1>11. I[N] = [nodes |-> IfNodes(p, N), prev |-> N] /\ C[N] = [nodes |-> ChainNodes(p, N), prev |-> N]
    BY <1>1
  <1>12. N = Len(p)
    OBVIOUS
  <1> HIDE DEF N, I, C
  <1>13. PlainIf(p) => Linear(p) = I[N]
    BY <1>1, <1>8, <1>10, <1>12, LinearIs
  <1>14. IsChain(p) => Linear(p) = C[N]
    BY <1>1, <1>9, <1>10, <1>12, LinearIs
  <1> QED
    BY <1>11, <1>12, <1>13, <1>14

-----------------------------------------------------------------------------
(* The graph of a loop.                                                    *)

\* The last block leads to a JUMP, and that to where the loop starts again.
LoopNode(p, s) ==
    IF s <= Len(p)
    THEN [type |-> p[s].type, cmds |-> p[s].cmds, right |-> s + 1, left |-> 0,
          prev |-> IF s = Start(p) THEN Len(p) + 1 ELSE s - 1]
    ELSE [type |-> p[Start(p)].type, cmds |-> <<>>, right |-> Start(p), left |-> 0,
          prev |-> Len(p)]

LoopNodes(p) == [s \in 1..(Len(p) + 1) |-> LoopNode(p, s)]

LEMMA KindOK ==
    ASSUME NEW p \in Programs, Plain(p)
    PROVE  /\ PlainIf(p) => IsIf(p) /\ ~IsLoop(p)
           /\ PlainNormal(p) => ~IsIf(p) /\ ~IsLoop(p)
           /\ PlainWhile(p) \/ PlainFor(p) \/ PlainForEach(p) => IsLoop(p) /\ ~IsIf(p)
           /\ ~PlainIf(p) => IsChain(p)
           /\ IsLoop(p) => /\ Start(p) \in 1..Len(p)
                           /\ p[Start(p)].type \in {"WHILE_CONDITIONS", "FOR_CONDITIONS", "FOR_EACH_INIT"}
  <1>1. Len(p) \in Nat \ {0}
    BY ProgramOK
  <1>2. PlainIf(p) => p[1].type = "IF_CONDITIONS"
    BY <1>1 DEF PlainIf, IfType
  <1>3. PlainIf(p) => IsIf(p) /\ ~IsLoop(p)
    BY <1>2 DEF IsIf, IsLoop
  <1>4. PlainNormal(p) => ~IsIf(p) /\ ~IsLoop(p) /\ IsChain(p)
    BY <1>1 DEF PlainNormal, IsIf, IsLoop, IsChain
  <1> DEFINE Loops == /\ ~IsIf(p) /\ IsLoop(p) /\ IsChain(p) /\ Start(p) \in 1..Len(p)
                      /\ p[Start(p)].type \in {"WHILE_CONDITIONS", "FOR_CONDITIONS",
                                               "FOR_EACH_INIT"}
  <1>5. PlainWhile(p) => Loops
    BY <1>1 DEF PlainWhile, IsIf, IsLoop, IsChain, Left, Start
  <1>6. PlainFor(p) => Loops
    <2>1. PlainFor(p) => \A b \in 2..Len(p) : b \in {2, 3, 4}
      BY DEF PlainFor
    <2> QED
      BY <1>1, <2>1 DEF PlainFor, IsIf, IsLoop, IsChain, Left, Start
  <1>7. PlainForEach(p) => Loops
    <2>1. PlainForEach(p) => \A b \in 2..Len(p) : b = 2
      BY DEF PlainForEach
    <2> QED
      BY <1>1, <2>1 DEF PlainForEach, IsIf, IsLoop, IsChain, Left, Start
  <1>8. PlainIf(p) \/ PlainWhile(p) \/ PlainFor(p) \/ PlainForEach(p) \/ PlainNormal(p)
    BY DEF Plain
  <1> QED
    BY <1>3, <1>4, <1>5, <1>6, <1>7, <1>8

\* parse_while, parse_for_c_style and parse_for_each.
LEMMA LoopOK ==
    ASSUME NEW p \in Programs, Plain(p), IsLoop(p)
    PROVE  Parse(p) = LoopNodes(p)
  <1> DEFINE N == Len(p)
             c == Start(p)
             jump == [type |-> p[c].type, cmds |-> <<>>]
             nodes == ChainNodes(p, N)
             h == StmtNext([nodes |-> nodes, prev |-> N], jump)
             open == [h.nodes EXCEPT ![N + 1] = [@ EXCEPT !["right"] = c]]
             closed == [open EXCEPT ![c] = [@ EXCEPT !["prev"] = N + 1]]
  <1>1. /\ N \in Nat \ {0} /\ c \in 1..N /\ N \in 1..N /\ N \in 0..N
        /\ p[c].type \in Types /\ ~Left(jump) /\ IsChain(p)
    BY ProgramOK, KindOK DEF Left, Plain
  <1>2. Linear(p) = [nodes |-> nodes, prev |-> N]
    BY <1>1, LinearOK
  <1>3. nodes \in Seq(Nodes) /\ Len(nodes) = N
    BY <1>1, ChainNodesOK
  <1>4. c \in DOMAIN nodes /\ nodes[c].type = p[c].type
    BY <1>1 DEF ChainNodes, ChainNode
  <1>5. Hung(h, nodes, N, jump, N)
    <2>1. <<>> \in Seq(Command)
      BY EmptySeq
    <2>2. /\ jump.type \in Types /\ jump.cmds \in Seq(Command)
          /\ N = IF Left(jump) THEN nodes[N].prev ELSE N
      BY <1>1, <2>1
    <2>3. h = StmtNext([nodes |-> nodes, prev |-> N], jump)
      OBVIOUS
    <2> HIDE DEF N, c, jump, nodes, h
    <2> QED
      BY <1>1, <1>3, <2>2, <2>3, StmtNextOK
  <1>6. Parse(p) = closed
    <2>1. Parse(p) = CloseLoop([nodes |-> nodes, prev |-> N], c).nodes
      BY <1>2 DEF Parse, Start
    <2>2. [nodes |-> nodes, prev |-> N].nodes = nodes
      OBVIOUS
    <2>3. Len(nodes) + 1 = N + 1
      BY <1>3
    <2> HIDE DEF nodes, N, c
    <2>4. CloseLoop([nodes |-> nodes, prev |-> N], c)
            = Link(Link(h, N + 1, "right", c), c, "prev", N + 1)
      BY <1>4, <2>3 DEF CloseLoop
    <2>5. h = [nodes |-> h.nodes, prev |-> N + 1]
      BY <1>5 DEF Hung
    <2> HIDE DEF h
    <2>6. Link(h, N + 1, "right", c) = [nodes |-> open, prev |-> N + 1]
      BY <2>5 DEF Link
    <2>7. Link([nodes |-> open, prev |-> N + 1], c, "prev", N + 1).nodes = closed
      BY DEF Link
    <2> QED
      BY <2>1, <2>4, <2>6, <2>7
  <1> HIDE DEF h
  <1>7. DOMAIN h.nodes = 1..(N + 1)
    BY <1>5, LenProperties DEF Hung
  <1>8. \A s \in 1..N : h.nodes[s] = [type |-> p[s].type, cmds |-> p[s].cmds, right |-> s + 1,
                                      left |-> 0, prev |-> s - 1]
    <2>1. ASSUME NEW s \in 1..N PROVE nodes[s] = ChainNode(p, N, s)
      BY DEF ChainNodes
    <2> HIDE DEF nodes, jump
    <2>2. ASSUME NEW s \in 1..N, s # N
          PROVE  h.nodes[s] = nodes[s]
      BY <1>5, <2>2 DEF Hung
    <2>3. h.nodes[N] = [nodes[N] EXCEPT !.right = N + 1]
      BY <1>1, <1>5 DEF Hung
    <2>4. \A s \in 1..N : (s < N <=> s # N) /\ s \in Nat
      BY <1>1
    <2>5. ASSUME NEW s \in 1..N
          PROVE  h.nodes[s] = [type |-> p[s].type, cmds |-> p[s].cmds, right |-> s + 1,
                               left |-> 0, prev |-> s - 1]
      <3>1. nodes[s] = [type |-> p[s].type, cmds |-> p[s].cmds,
                        right |-> IF s < N THEN s + 1 ELSE 0, left |-> 0, prev |-> s - 1]
        BY <2>1 DEF ChainNode
      <3>2. CASE s = N
        BY <2>3, <2>4, <3>1, <3>2
      <3>3. CASE s # N
        BY <2>2, <2>4, <3>1, <3>3
      <3> QED
        BY <3>2, <3>3
    <2> QED
      BY <2>5
  <1>9. h.nodes[N + 1] = [type |-> p[c].type, cmds |-> <<>>, right |-> 0, left |-> 0, prev |-> N]
    BY <1>5 DEF Hung
  <1> HIDE DEF nodes
  <1>10. c # N + 1 /\ \A s \in 1..(N + 1) : (s = N + 1 \/ s \in 1..N) /\ (s <= N <=> s # N + 1)
    BY <1>1
  <1>11. ASSUME NEW s \in 1..(N + 1) PROVE closed[s] = LoopNode(p, s)
    <2>1. closed[s] = IF s = c THEN [h.nodes[c] EXCEPT !.prev = N + 1]
                      ELSE IF s = N + 1 THEN [h.nodes[N + 1] EXCEPT !.right = c]
                      ELSE h.nodes[s]
      <3>1. /\ open[N + 1] = [h.nodes[N + 1] EXCEPT !.right = c]
            /\ \A t \in 1..N : open[t] = h.nodes[t]
            /\ DOMAIN open = 1..(N + 1)
        BY <1>1, <1>7, <1>10
      <3> HIDE DEF open
      <3>2. closed[s] = IF s = c THEN [open[c] EXCEPT !.prev = N + 1] ELSE open[s]
        BY <1>1, <1>10, <3>1
      <3> QED
        BY <1>1, <1>10, <3>1, <3>2
    <2> HIDE DEF closed, open
    <2>2. CASE s = N + 1
      <3>1. closed[s] = [h.nodes[N + 1] EXCEPT !.right = c] /\ ~(s <= Len(p))
        BY <1>10, <2>1, <2>2
      <3> QED
        BY <1>9, <3>1 DEF LoopNode
    <2>3. CASE s # N + 1 /\ s = c
      <3>1. closed[s] = [h.nodes[c] EXCEPT !.prev = N + 1] /\ s <= Len(p)
        BY <1>10, <2>1, <2>3
      <3>2. h.nodes[c] = [type |-> p[c].type, cmds |-> p[c].cmds, right |-> c + 1, left |-> 0,
                          prev |-> c - 1]
        BY <1>1, <1>8
      <3>3. closed[s] = [type |-> p[c].type, cmds |-> p[c].cmds, right |-> c + 1, left |-> 0,
                         prev |-> N + 1]
        BY <3>1, <3>2
      <3> QED
        BY <2>3, <3>1, <3>3 DEF LoopNode
    <2>4. CASE s # N + 1 /\ s # c
      <3>1. closed[s] = h.nodes[s] /\ s <= Len(p) /\ s \in 1..N
        BY <1>10, <2>1, <2>4
      <3> QED
        BY <1>8, <2>4, <3>1 DEF LoopNode
    <2> QED
      BY <2>2, <2>3, <2>4
  <1>12. closed = [s \in 1..(N + 1) |-> closed[s]]
    BY <1>7
  <1> HIDE DEF closed
  <1> QED
    BY <1>6, <1>11, <1>12 DEF LoopNodes

-----------------------------------------------------------------------------
(* The graph the virtual machine walks.                                    *)

Loaded == prog \in Programs /\ Plain(prog) /\ stmts = Parse(prog)

LEMMA NodesOK ==
    ASSUME Loaded
    PROVE  /\ PlainIf(prog) => stmts = IfNodes(prog, Len(prog))
           /\ IsLoop(prog) => stmts = LoopNodes(prog)
           /\ PlainNormal(prog) => stmts = ChainNodes(prog, Len(prog))
  <1>1. prog \in Programs /\ Plain(prog) /\ stmts = Parse(prog)
    BY DEF Loaded
  <1>2. ~IsLoop(prog) => stmts = Linear(prog).nodes
    BY <1>1 DEF Parse
  <1>3. PlainIf(prog) => stmts = IfNodes(prog, Len(prog))
    BY <1>1, <1>2, LinearOK, KindOK
  <1>4. PlainNormal(prog) => stmts = ChainNodes(prog, Len(prog))
    <2>1. PlainNormal(prog) => ~PlainIf(prog)
      BY <1>1, KindOK
    <2> QED
      BY <1>1, <1>2, <2>1, LinearOK, KindOK
  <1>5. IsLoop(prog) => stmts = LoopNodes(prog)
    BY <1>1, LoopOK
  <1> QED
    BY <1>3, <1>4, <1>5

\* The statements are the blocks, and behind those of a loop its JUMP; no link leaves them.
Linked == /\ Len(prog) \in Nat \ {0} /\ Len(stmts) \in Nat /\ DOMAIN stmts = 1..Len(stmts)
          /\ 1..Len(prog) \subseteq 1..Len(stmts)
          /\ \A s \in DOMAIN stmts : {stmts[s].right, stmts[s].left, stmts[s].prev} \subseteq 0..Len(stmts)
          /\ \A b \in 1..Len(prog) : Type(b) = prog[b].type /\ stmts[b].cmds = prog[b].cmds

\* The right of a block's statement leads to the block after it.
Leads(b) ==
    LET right == stmts[b].right
    IN  /\ After(b) = 0 => right = 0
        /\ After(b) # 0 => /\ right # 0 /\ After(b) \in 1..Len(prog)
                           /\ After(b) = IF IsJump(right) THEN stmts[right].right ELSE right
                           /\ prog[b].type # "IF"

LEMMA IfLinked ==
    ASSUME Loaded, PlainIf(prog)
    PROVE  Linked /\ \A b \in 1..Len(prog) : Leads(b)
  <1> DEFINE N == Len(prog)
  <1>1. stmts = IfNodes(prog, N) /\ IsIf(prog) /\ ~IsLoop(prog)
    BY NodesOK, KindOK DEF Loaded
  <1>2. /\ N \in Nat \ {0} /\ Len(stmts) = N
        /\ \A b \in 1..N : Len(prog[b].cmds) \in Nat \ {0}
    <2>1. N \in Nat \ {0} /\ \A b \in 1..N : Len(prog[b].cmds) \in Nat \ {0}
      BY ProgramOK DEF Loaded
    <2> QED
      BY <1>1, <2>1, IfNodesOK DEF Loaded
  <1>3. DOMAIN stmts = 1..N /\ \A s \in 1..N : stmts[s] = IfNode(prog, N, s)
    BY <1>1 DEF IfNodes
  <1>4. ASSUME NEW b \in 1..N PROVE Type(b) = prog[b].type /\ stmts[b].cmds = prog[b].cmds
    <2>1. b # 0
      BY <1>2
    <2> QED
      BY <1>3, <2>1 DEF Type, IfNode
  <1>5. ASSUME NEW b \in 1..N
        PROVE  {stmts[b].right, stmts[b].left, stmts[b].prev} \subseteq 0..N
    <2>1. /\ (IF b % 2 # 0 /\ b < N THEN b + 1 ELSE 0) \in 0..N
          /\ (IF b % 2 # 0 /\ b + 1 < N THEN b + 2 ELSE 0) \in 0..N
          /\ (IF b % 2 = 0 THEN b - 1 ELSE IF b = 1 THEN 0 ELSE b - 2) \in 0..N
      BY <1>2
    <2> QED
      BY <1>3, <2>1 DEF IfNode
  <1>6. ASSUME NEW b \in 1..N PROVE Leads(b)
    <2>1. stmts[b].right = After(b)
      BY <1>1, <1>3 DEF After, IfNode
    <2>2. After(b) # 0 => After(b) \in 1..N /\ b % 2 # 0
      BY <1>1, <1>2 DEF After
    <2>3. b % 2 # 0 => prog[b].type # "IF"
      <3>1. prog[b].type = IfType(prog, b)
        BY DEF PlainIf
      <3>2. b = 1 \/ b = 2 \/ b > 2
        BY <1>2
      <3> QED
        BY <3>1, <3>2 DEF IfType
    <2>4. After(b) # 0 => ~IsJump(After(b))
      <3>1. ASSUME NEW s \in 1..N PROVE ~IsJump(s)
        <4>1. Len(prog[s].cmds) # 0
          BY <1>2
        <4>2. prog[s].cmds # <<>>
          BY <4>1, EmptySeq
        <4> QED
          BY <1>4, <4>2 DEF IsJump
      <3> QED
        BY <2>2, <3>1
    <2> QED
      BY <2>1, <2>2, <2>3, <2>4 DEF Leads
  <1> QED
    BY <1>2, <1>3, <1>4, <1>5, <1>6 DEF Linked

LEMMA LoopLinked ==
    ASSUME Loaded, IsLoop(prog)
    PROVE  Linked /\ \A b \in 1..Len(prog) : Leads(b)
  <1> DEFINE N == Len(prog)
  <1>1. /\ stmts = LoopNodes(prog) /\ ~IsIf(prog) /\ Start(prog) \in 1..N
        /\ ~PlainIf(prog) /\ ~PlainNormal(prog)
    BY NodesOK, KindOK DEF Loaded, Plain
  <1>2. /\ N \in Nat \ {0}
        /\ \A b \in 1..N : Len(prog[b].cmds) \in Nat \ {0}
    BY ProgramOK DEF Loaded
  <1>3. DOMAIN stmts = 1..(N + 1) /\ \A s \in 1..(N + 1) : stmts[s] = LoopNode(prog, s)
    BY <1>1 DEF LoopNodes
  <1>4. Len(stmts) = N + 1
    <2>1. N + 1 \in Nat
      BY <1>2
    <2> DEFINE Any == {stmts[s] : s \in 1..(N + 1)}
    <2>2. stmts \in [1..(N + 1) -> Any]
      <3>1. stmts = [s \in 1..(N + 1) |-> stmts[s]]
        BY <1>1 DEF LoopNodes
      <3> QED
        BY <3>1
    <2>3. stmts \in Seq(Any)
      <3> HIDE DEF Any
      <3> QED
        BY <2>1, <2>2, SeqDef
    <2> QED
      BY <1>3, <2>1, <2>3, LenProperties
  <1>5. \A b \in 1..N : b \in 1..(N + 1) /\ b <= N /\ b # 0
    BY <1>2
  <1>6. ASSUME NEW b \in 1..N PROVE Type(b) = prog[b].type /\ stmts[b].cmds = prog[b].cmds
    BY <1>3, <1>5 DEF Type, LoopNode
  <1>7. ASSUME NEW s \in 1..(N + 1)
        PROVE  {stmts[s].right, stmts[s].left, stmts[s].prev} \subseteq 0..(N + 1)
    <2>1. CASE s <= N
      <3>1. /\ stmts[s].right = s + 1 /\ stmts[s].left = 0
            /\ stmts[s].prev = IF s = Start(prog) THEN N + 1 ELSE s - 1
        BY <1>3, <2>1 DEF LoopNode
      <3> QED
        BY <1>2, <2>1, <3>1
    <2>2. CASE ~(s <= N)
      <3>1. stmts[s].right = Start(prog) /\ stmts[s].left = 0 /\ stmts[s].prev = N
        BY <1>3, <2>2 DEF LoopNode
      <3> QED
        BY <1>1, <1>2, <3>1
    <2> QED
      BY <2>1, <2>2
  <1>8. ASSUME NEW b \in 1..N PROVE Leads(b)
    <2>1. stmts[b].right = b + 1
      BY <1>3, <1>5 DEF LoopNode
    <2>2. After(b) = IF b < N THEN b + 1 ELSE Start(prog)
      BY <1>1 DEF After
    <2>3. After(b) \in 1..N /\ b + 1 # 0 /\ After(b) # 0
      BY <1>1, <1>2, <2>2
    <2>4. ASSUME NEW s \in 1..N PROVE ~IsJump(s)
      <3>1. Len(prog[s].cmds) # 0
        BY <1>2
      <3>2. prog[s].cmds # <<>>
        BY <3>1, EmptySeq
      <3> QED
        BY <1>6, <3>2 DEF IsJump
    <2>5. IsJump(N + 1) /\ stmts[N + 1].right = Start(prog)
      <3>1. N + 1 \in 1..(N + 1) /\ ~(N + 1 <= N) /\ N + 1 # 0
        BY <1>2
      <3> QED
        BY <1>3, <3>1 DEF IsJump, LoopNode
    <2>6. After(b) = IF IsJump(b + 1) THEN stmts[b + 1].right ELSE b + 1
      <3>1. CASE b < N
        <4>1. b + 1 \in 1..N
          BY <1>2, <3>1
        <4> QED
          BY <2>2, <2>4, <3>1, <4>1
      <3>2. CASE ~(b < N)
        <4>1. b + 1 = N + 1
          BY <1>2, <3>2
        <4> QED
          BY <2>2, <2>5, <3>2, <4>1
      <3> QED
        BY <3>1, <3>2
    <2>7. prog[b].type # "IF"
      <3>1. CASE PlainWhile(prog)
        <4>1. b = 1 \/ b \in 2..Len(prog)
          BY <1>2
        <4> QED
          BY <3>1, <4>1 DEF PlainWhile
      <3>2. CASE PlainFor(prog)
        <4>1. b \in {1, 2, 3, 4}
          BY <3>2 DEF PlainFor
        <4> QED
          BY <3>2, <4>1 DEF PlainFor
      <3>3. CASE PlainForEach(prog)
        <4>1. b \in {1, 2}
          BY <3>3 DEF PlainForEach
        <4> QED
          BY <3>3, <4>1 DEF PlainForEach
      <3> QED
        BY <1>1, <3>1, <3>2, <3>3 DEF Plain, Loaded
    <2> QED
      BY <2>1, <2>3, <2>6, <2>7 DEF Leads
  <1>9. 1..N \subseteq 1..(N + 1) /\ N + 1 \in Nat
    BY <1>2
  <1> QED
    BY <1>2, <1>3, <1>4, <1>6, <1>7, <1>8, <1>9 DEF Linked

\* What the properties of the virtual machine need to know of the graph.
LEMMA GraphOK ==
    ASSUME Loaded
    PROVE  Linked /\ \A b \in 1..Len(prog) : Leads(b)
  <1>1. CASE PlainIf(prog)
    BY <1>1, IfLinked
  <1>2. CASE IsLoop(prog)
    BY <1>2, LoopLinked
  <1>3. CASE PlainNormal(prog)
    <2>1. stmts = ChainNodes(prog, Len(prog)) /\ ~IsIf(prog) /\ ~IsLoop(prog)
      BY <1>3, NodesOK, KindOK DEF Loaded
    <2>2. Len(prog) = 1
      BY <1>3 DEF PlainNormal
    <2>3. stmts = [s \in 1..1 |-> ChainNode(prog, 1, s)] /\ 1..1 = {1}
      BY <2>1, <2>2 DEF ChainNodes
    <2>4. stmts[1] = [type |-> prog[1].type, cmds |-> prog[1].cmds, right |-> 0, left |-> 0,
                      prev |-> 0]
      BY <2>3 DEF ChainNode
    <2>5. Len(stmts) = 1
      BY <2>1, <2>2, ChainNodesOK DEF Loaded
    <2>6. \A b \in 1..Len(prog) : b = 1
      BY <2>2
    <2>7. Linked
      BY <2>2, <2>3, <2>4, <2>5, <2>6 DEF Linked, Type
    <2>8. Leads(1)
      BY <2>1, <2>4 DEF Leads, After
    <2> QED
      BY <2>6, <2>7, <2>8
  <1> QED
    BY <1>1, <1>2, <1>3, KindOK DEF Loaded, Plain

-----------------------------------------------------------------------------
(* What the language says of such a program.                               *)

\* Which list a block may hold.
Listed(b) ==
    LET type == prog[b].type
        list == prog[b].cmds
    IN  /\ type \in Conditions => OneConnective(list)
        /\ type = "NORMAL" => OneConnective(list) /\ ~Compares(list)
        /\ type \notin Conditions /\ type # "NORMAL" => AndList(list)
        /\ type \in {"IF", "ELIF", "FOR"} \union Sure => Len(list) = 1

\* Which block may follow a block.
Ordered(b) ==
    LET type == prog[b].type
        next == prog[After(b)].type
    IN  /\ type \in Conditions =>
             /\ After(b) = b + 1 /\ stmts[b].right = b + 1
             /\ next = CASE type = "IF_CONDITIONS" -> "IF"
                         [] type = "ELIF_CONDITIONS" -> "ELIF"
                         [] type = "WHILE_CONDITIONS" -> "WHILE"
                         [] type = "FOR_CONDITIONS" -> "FOR"
        /\ After(b) # 0 =>
             /\ After(b) # b
             /\ next \in Conditions => type = "WHILE" \/ type \in Sure
             /\ next = "IF" => type = "IF_CONDITIONS"
             /\ next = "ELIF" => type = "ELIF_CONDITIONS"
             /\ next \in {"WHILE", "FOR"} => type \in {"WHILE_CONDITIONS", "FOR_CONDITIONS", "WHILE",
                                                       "FOR_EACH_INIT"}
             /\ next \in {"FOR_INCREMENT", "FOR_EACH_INIT"} => type = "FOR"
             /\ next \notin {"ELSE", "NORMAL", "FOR_INIT"}

\* What the language says comes after a block.
Followed(b) ==
    LET type == prog[b].type
    IN  /\ After(b) # 0 => /\ AfterList(prog, b, TRUE) = <<After(b), 1>>
                           /\ type \notin Conditions => AfterList(prog, b, FALSE) = <<After(b), 1>>
        /\ After(b) = 0 => AfterList(prog, b, TRUE) = Done /\ AfterList(prog, b, FALSE) = Done
        /\ type \in {"WHILE_CONDITIONS", "FOR_CONDITIONS"} => AfterList(prog, b, FALSE) = Done
        /\ type \in {"IF_CONDITIONS", "ELIF_CONDITIONS"} =>
             AfterList(prog, b, FALSE) = IF b + 2 <= Len(prog) THEN <<b + 2, 1>> ELSE Done

LEMMA IfBlocks ==
    ASSUME Loaded, PlainIf(prog), NEW b \in 1..Len(prog)
    PROVE  Listed(b) /\ Ordered(b) /\ Followed(b)
  <1> DEFINE N == Len(prog)
  <1>1. stmts = IfNodes(prog, N) /\ IsIf(prog) /\ ~IsLoop(prog)
    BY NodesOK, KindOK DEF Loaded
  <1>2. N \in Nat \ {0} /\ DOMAIN prog = 1..N /\ b \in Nat \ {0}
    BY ProgramOK DEF Loaded
  <1>3. \A s \in 1..N : prog[s].type = IfType(prog, s)
    BY DEF PlainIf
  <1>4. b = 1 \/ b = 2 \/ (b > 2 /\ b % 2 = 0) \/ (b > 2 /\ b % 2 # 0 /\ b < N)
        \/ (b > 2 /\ b % 2 # 0 /\ b = N)
    <2>1. b < N \/ b = N
      <3>1. Len(prog) \in Nat
        BY <1>2
      <3> QED
        BY <3>1
    <2>2. b = 1 \/ b = 2 \/ b > 2
      BY <1>2
    <2> QED
      BY <2>1, <2>2
  <1>5. /\ b = 1 => prog[b].type = "IF_CONDITIONS"
        /\ b = 2 => prog[b].type = "IF"
        /\ b > 2 /\ b % 2 = 0 => prog[b].type = "ELIF"
        /\ b > 2 /\ b % 2 # 0 /\ b < N => prog[b].type = "ELIF_CONDITIONS"
        /\ b > 2 /\ b % 2 # 0 /\ b = N => prog[b].type = "ELSE"
    BY <1>2, <1>3 DEF IfType
  <1>6. N > 1
    BY DEF PlainIf
  <1>7. After(b) = IF b % 2 # 0 /\ b < N THEN b + 1 ELSE 0
    BY <1>1 DEF After
  <1>8. Listed(b)
    <2>1. /\ b % 2 = 0 => Single(prog[b].cmds)
          /\ b % 2 # 0 /\ b < N => OneConnective(prog[b].cmds)
          /\ b % 2 # 0 /\ b = N => AndList(prog[b].cmds)
      BY DEF PlainIf, Single
    <2>2. (b = 1 => b < N /\ b % 2 # 0) /\ (b = 2 => b % 2 = 0)
      BY <1>6
    <2> QED
      BY <1>4, <1>5, <2>1, <2>2 DEF Listed, Conditions, Sure, Single
  <1>9. Ordered(b)
    <2>1. stmts[b] = IfNode(prog, N, b)
      BY <1>1 DEF IfNodes
    <2>2. b % 2 # 0 /\ b < N => stmts[b].right = b + 1
      BY <2>1 DEF IfNode
    <2>3. CASE b % 2 # 0 /\ b < N
      <3>1. b + 1 \in 1..N /\ (b + 1) % 2 = 0 /\ (b = 1 => b + 1 = 2) /\ (b > 2 => b + 1 > 2)
        BY <1>2, <2>3
      <3>2. prog[b + 1].type = IF b = 1 THEN "IF" ELSE "ELIF"
        <4>1. prog[b + 1].type = IfType(prog, b + 1)
          BY <1>3, <3>1
        <4>2. b = 1 \/ b > 2
          BY <1>2, <2>3
        <4> QED
          BY <3>1, <4>1, <4>2 DEF IfType
      <3>3. b + 1 # b /\ b + 1 # 0 /\ (b = 1 \/ b > 2)
        BY <1>2, <2>3
      <3> QED
        BY <1>5, <1>7, <2>2, <2>3, <3>2, <3>3 DEF Ordered, Conditions, Sure
    <2>4. CASE ~(b % 2 # 0 /\ b < N)
      <3>1. prog[b].type \notin Conditions
        BY <1>2, <1>4, <1>5, <1>6, <2>4 DEF Conditions
      <3> QED
        BY <1>7, <2>4, <3>1 DEF Ordered
    <2> QED
      BY <2>3, <2>4
  <1>10. Followed(b)
    <2>1. CASE b % 2 # 0 /\ b < N
      <3>1. prog[b].type \in {"IF_CONDITIONS", "ELIF_CONDITIONS"}
        <4>1. b = 1 \/ b > 2
          BY <1>2, <2>1
        <4> QED
          BY <1>5, <2>1, <4>1
      <3>2. b + 1 \in DOMAIN prog /\ b + 1 # 0 /\ (b + 2 \in DOMAIN prog <=> b + 2 <= Len(prog))
        BY <1>2, <2>1
      <3> QED
        BY <1>7, <2>1, <3>1, <3>2 DEF Followed, AfterList, Conditions
    <2>2. CASE ~(b % 2 # 0 /\ b < N)
      <3>1. prog[b].type \in {"IF", "ELIF", "ELSE"}
        <4>1. b # 1
          BY <1>6, <2>2
        <4> QED
          BY <1>4, <1>5, <2>2, <4>1
      <3> QED
        BY <1>7, <2>2, <3>1 DEF Followed, AfterList
    <2> QED
      BY <2>1, <2>2
  <1> QED
    BY <1>8, <1>9, <1>10

LEMMA LoopBlocks ==
    ASSUME Loaded, IsLoop(prog), NEW b \in 1..Len(prog)
    PROVE  Listed(b) /\ Ordered(b) /\ Followed(b)
  <1> DEFINE N == Len(prog)
  <1>1. /\ stmts = LoopNodes(prog) /\ ~IsIf(prog)
        /\ PlainWhile(prog) \/ PlainFor(prog) \/ PlainForEach(prog)
    BY NodesOK, KindOK DEF Loaded, Plain
  <1>2. N \in Nat \ {0} /\ DOMAIN prog = 1..N /\ b \in Nat \ {0}
    BY ProgramOK DEF Loaded
  <1>3. After(b) = IF b < N THEN b + 1 ELSE Start(prog)
    BY <1>1 DEF After
  <1>4. stmts[b].right = b + 1
    <2>1. b \in 1..(N + 1) /\ b <= Len(prog)
      BY <1>2
    <2> QED
      BY <1>1, <2>1 DEF LoopNodes, LoopNode
  <1>5. CASE PlainWhile(prog)
    <2>1. /\ N > 1 /\ prog[1].type = "WHILE_CONDITIONS" /\ OneConnective(prog[1].cmds)
          /\ \A s \in 2..N : prog[s].type = "WHILE" /\ AndList(prog[s].cmds)
      BY <1>5 DEF PlainWhile
    <2>2. Start(prog) = 1
      BY <2>1 DEF Start
    <2>3. CASE b = 1
      <3>1. prog[2].type = "WHILE" /\ After(b) = 2 /\ stmts[b].right = 2
            /\ b + 1 = 2 /\ 2 \in DOMAIN prog
        BY <1>2, <1>3, <1>4, <2>1, <2>3
      <3> QED
        BY <2>1, <2>3, <3>1, SMTT(30) DEF Listed, Ordered, Followed, Conditions, Sure, AfterList
    <2>4. CASE b # 1
      <3>1. b \in 2..N /\ prog[b].type = "WHILE" /\ AndList(prog[b].cmds)
        BY <1>2, <2>1, <2>4
      <3>2. After(b) # 0 /\ After(b) # b /\ After(b) \in DOMAIN prog
        BY <1>2, <1>3, <2>1, <2>2, <3>1
      <3>3. prog[After(b)].type \in {"WHILE", "WHILE_CONDITIONS"}
        BY <1>2, <2>1, <3>2
      <3>4. After(b) = IF b < Len(prog) THEN b + 1 ELSE 1
        BY <1>3, <2>2
      <3> HIDE DEF N
      <3>5. Listed(b) /\ Ordered(b)
        BY <3>1, <3>2, <3>3 DEF Listed, Ordered, Conditions, Sure
      <3>6. AfterList(prog, b, TRUE) = <<After(b), 1>> /\ AfterList(prog, b, FALSE) = <<After(b), 1>>
        BY <3>1, <3>2, <3>4 DEF AfterList
      <3>7. Followed(b)
        BY <3>1, <3>2, <3>6 DEF Followed, Conditions
      <3> QED
        BY <3>5, <3>7
    <2> QED
      BY <2>3, <2>4
  <1>6. CASE PlainFor(prog)
    <2>1. /\ N = 4 /\ prog[1].type = "FOR_INIT" /\ prog[2].type = "FOR_CONDITIONS"
          /\ prog[3].type = "FOR" /\ prog[4].type = "FOR_INCREMENT"
          /\ OneConnective(prog[2].cmds)
          /\ \A s \in {1, 3, 4} : AndList(prog[s].cmds) /\ Len(prog[s].cmds) = 1
      BY <1>6 DEF PlainFor, Single
    <2>2. Start(prog) = 2 /\ b \in {1, 2, 3, 4}
      BY <2>1 DEF Start
    <2>3. After(b) = CASE b = 1 -> 2 [] b = 2 -> 3 [] b = 3 -> 4 [] b = 4 -> 2
      BY <1>3, <2>1, <2>2
    <2>4. 1 \in DOMAIN prog /\ 2 \in DOMAIN prog /\ 3 \in DOMAIN prog /\ 4 \in DOMAIN prog
      BY <1>2, <2>1
    <2>5. b = 2 => stmts[b].right = 3
      BY <1>4
    <2>6. Len(prog) = 4
      BY <2>1
    <2> HIDE DEF N
    <2>7. CASE b = 1
      BY <2>1, <2>3, <2>4, <2>7 DEF Listed, Ordered, Followed, Conditions, Sure, AfterList
    <2>8. CASE b = 2
      BY <2>1, <2>3, <2>4, <2>5, <2>8 DEF Listed, Ordered, Followed, Conditions, Sure, AfterList
    <2>9. CASE b = 3
      BY <2>1, <2>3, <2>4, <2>6, <2>9 DEF Listed, Ordered, Followed, Conditions, Sure, AfterList
    <2>10. CASE b = 4
      BY <2>1, <2>3, <2>4, <2>10 DEF Listed, Ordered, Followed, Conditions, Sure, AfterList
    <2> QED
      BY <2>2, <2>7, <2>8, <2>9, <2>10
  <1>7. CASE PlainForEach(prog)
    <2>1. /\ N = 2 /\ prog[1].type = "FOR_EACH_INIT" /\ prog[2].type = "FOR"
          /\ \A s \in {1, 2} : AndList(prog[s].cmds) /\ Len(prog[s].cmds) = 1
      BY <1>7 DEF PlainForEach, Single
    <2>2. Start(prog) = 1 /\ b \in {1, 2}
      BY <2>1 DEF Start
    <2>3. After(b) = CASE b = 1 -> 2 [] b = 2 -> 1
      BY <1>3, <2>1, <2>2
    <2>4. 1 \in DOMAIN prog /\ 2 \in DOMAIN prog
      BY <1>2, <2>1
    <2>5. Len(prog) = 2
      BY <2>1
    <2> HIDE DEF N
    <2>6. CASE b = 1
      BY <2>1, <2>3, <2>4, <2>6 DEF Listed, Ordered, Followed, Conditions, Sure, AfterList
    <2>7. CASE b = 2
      BY <2>1, <2>3, <2>4, <2>5, <2>7 DEF Listed, Ordered, Followed, Conditions, Sure, AfterList
    <2> QED
      BY <2>2, <2>6, <2>7
  <1> QED
    BY <1>1, <1>5, <1>6, <1>7

LEMMA BlocksOK ==
    ASSUME Loaded, NEW b \in 1..Len(prog)
    PROVE  Listed(b) /\ Ordered(b) /\ Followed(b)
  <1>1. CASE PlainNormal(prog)
    <2>1. /\ prog[1].type = "NORMAL" /\ OneConnective(prog[1].cmds) /\ ~Compares(prog[1].cmds)
          /\ b = 1
      BY <1>1 DEF PlainNormal
    <2>2. After(b) = 0
      BY <1>1, KindOK DEF After, Loaded
    <2> QED
      BY <2>1, <2>2 DEF Listed, Ordered, Followed, Conditions, Sure, AfterList
  <1> QED
    BY <1>1, IfBlocks, LoopBlocks, KindOK DEF Loaded, Plain

\* The command after a command of a list.
LEMMA InList ==
    ASSUME Loaded, NEW b \in 1..Len(prog), NEW i \in 1..Len(prog[b].cmds)
    PROVE  LET list == prog[b].cmds
               next(ok) == NextCommand(prog, <<b, i>>, ok)
           IN  /\ i < Len(list) /\ AndList(list) =>
                    next(TRUE) = <<b, i + 1>> /\ next(FALSE) = AfterList(prog, b, FALSE)
               /\ i < Len(list) /\ OrList(list) =>
                    next(FALSE) = <<b, i + 1>> /\ next(TRUE) = AfterList(prog, b, TRUE)
               /\ i = Len(list) =>
                    /\ next(TRUE) = AfterList(prog, b, TRUE)
                    /\ next(FALSE) = AfterList(prog, b, FALSE)
  <1> DEFINE list == prog[b].cmds
  <1>1. Len(list) \in Nat \ {0} /\ i \in Nat \ {0}
    BY ProgramOK DEF Loaded
  <1>2. \A j \in (i + 1)..Len(list) : j \in 2..Len(list)
    BY <1>1
  <1>3. <<b, i>>[1] = b /\ <<b, i>>[2] = i
    OBVIOUS
  <1>4. i < Len(list) => Min((i + 1)..Len(list)) = i + 1 /\ (i + 1)..Len(list) # {}
    <2>1. i < Len(list) => i + 1 \in (i + 1)..Len(list) /\ \A j \in (i + 1)..Len(list) : i + 1 <= j
      BY <1>1
    <2>2. ASSUME i < Len(list), NEW m \in (i + 1)..Len(list), \A j \in (i + 1)..Len(list) : m <= j
          PROVE  m = i + 1
      BY <1>1, <2>1, <2>2
    <2> QED
      BY <2>1, <2>2 DEF Min
  <1>5. i = Len(list) => (i + 1)..Len(list) = {}
    BY <1>1
  <1>6. AndList(list) => /\ Fitting(prog[b], i, TRUE) = (i + 1)..Len(list)
                         /\ Fitting(prog[b], i, FALSE) = {}
    BY <1>2 DEF AndList, Fitting
  <1>7. OrList(list) => /\ Fitting(prog[b], i, FALSE) = (i + 1)..Len(list)
                        /\ Fitting(prog[b], i, TRUE) = {}
    BY <1>2 DEF OrList, Fitting
  <1>8. i = Len(list) => Fitting(prog[b], i, TRUE) = {} /\ Fitting(prog[b], i, FALSE) = {}
    BY <1>5 DEF Fitting
  <1> QED
    BY <1>3, <1>4, <1>6, <1>7, <1>8 DEF NextCommand

-----------------------------------------------------------------------------
(* The steps of vm_next.                                                   *)

\* Nothing follows the last command of a block that no block follows.
LEMMA LastIsFinal ==
    ASSUME Loaded, NEW b \in 1..Len(prog), After(b) = 0
    PROVE  Final(<<b, Len(prog[b].cmds)>>)
  <1>1. Len(prog[b].cmds) \in 1..Len(prog[b].cmds)
    BY ProgramOK DEF Loaded
  <1>2. AfterList(prog, b, TRUE) = Done /\ AfterList(prog, b, FALSE) = Done
    BY BlocksOK DEF Followed
  <1> DEFINE c == <<b, Len(prog[b].cmds)>>
  <1>3. NextCommand(prog, c, TRUE) = Done /\ NextCommand(prog, c, FALSE) = Done
    BY <1>1, <1>2, InList
  <1> HIDE DEF c
  <1>4. \A ok \in BOOLEAN : NextCommand(prog, c, ok) = Done
    <2>1. \A ok \in BOOLEAN : ok = TRUE \/ ok = FALSE
      OBVIOUS
    <2> QED
      BY <1>3, <2>1
  <1> QED
    BY <1>4 DEF Final, c

\* vm_command_next: the vm ends up behind a command, or at the end with a final one.
Placed(b, i) == IF end \/ next_cmds = 0 THEN Final(<<b, i>>) ELSE Pointed(b, i)

LEMMA AdvanceOK ==
    ASSUME Loaded, NEW b \in 1..Len(prog), NEW i \in 1..Len(prog[b].cmds), end = FALSE,
           NEW st \in States(prog[b].type), Advance(b, i, st), UNCHANGED <<prog, stmts>>
    PROVE  Placed(b, i)' /\ cur_stmt' \in 0..Len(stmts) /\ end' \in BOOLEAN
  <1>1. Linked /\ Leads(b)
    BY GraphOK
  <1>2. /\ stmts[b].cmds = prog[b].cmds /\ Len(prog[b].cmds) \in Nat
        /\ 1..Len(prog) \subseteq 0..Len(stmts) /\ b \in DOMAIN stmts
        /\ stmts[b].right \in 0..Len(stmts)
    BY <1>1, ProgramOK DEF Linked, Loaded
  <1>3. prog' = prog /\ \A s : After(s)' = After(s)
    BY DEF After
  <1>4. CASE i < Len(stmts[b].cmds) /\ cur_stmt' = b /\ next_cmds' = i + 1 /\ UNCHANGED end
    <2>1. ~end' /\ next_cmds' # 0 /\ Pointed(b, i)'
      BY <1>2, <1>3, <1>4 DEF Pointed
    <2> QED
      BY <1>2, <1>4, <2>1 DEF Placed
  <1>5. CASE i = Len(stmts[b].cmds) /\ cur_stmt' = stmts[b].right /\ next_cmds' = 0 /\ end' = TRUE
             /\ (stmts[b].right = 0 \/ (st = "IN_IF_STATEMENTS" /\ Type(stmts[b].right) # "IF"))
    <2>1. After(b) = 0
      <3>1. st = "IN_IF_STATEMENTS" => prog[b].type = "IF"
        <4>1. prog[b].type \in Types
          BY ProgramOK DEF Loaded
        <4> QED
          BY <4>1 DEF States, Types, Conditions
      <3> QED
        BY <1>1, <1>5, <3>1 DEF Leads
    <2>2. Final(<<b, i>>)
      BY <1>2, <1>5, <2>1, LastIsFinal
    <2>3. Final(<<b, i>>)'
      BY <1>3, <2>2 DEF Final
    <2> QED
      BY <1>2, <1>5, <2>3 DEF Placed
  <1>6. CASE i = Len(stmts[b].cmds) /\ stmts[b].right # 0 /\ next_cmds' = 1 /\ UNCHANGED end
             /\ cur_stmt' = IF IsJump(stmts[b].right) THEN stmts[stmts[b].right].right
                            ELSE stmts[b].right
    <2>1. After(b) # 0 /\ cur_stmt' = After(b) /\ After(b) \in 1..Len(prog)
      BY <1>1, <1>6 DEF Leads
    <2>2. Pointed(b, i)'
      BY <1>2, <1>3, <1>6, <2>1 DEF Pointed
    <2>3. Placed(b, i)'
      BY <1>6, <2>2 DEF Placed
    <2>4. cur_stmt' \in 0..Len(stmts)
      BY <1>2, <2>1
    <2> QED
      BY <1>6, <2>3, <2>4
  <1>7. \/ i < Len(stmts[b].cmds) /\ cur_stmt' = b /\ next_cmds' = i + 1 /\ UNCHANGED end
        \/ i = Len(stmts[b].cmds) /\ cur_stmt' = stmts[b].right /\ next_cmds' = 0 /\ end' = TRUE
             /\ (stmts[b].right = 0 \/ (st = "IN_IF_STATEMENTS" /\ Type(stmts[b].right) # "IF"))
        \/ i = Len(stmts[b].cmds) /\ stmts[b].right # 0 /\ next_cmds' = 1 /\ UNCHANGED end
             /\ cur_stmt' = IF IsJump(stmts[b].right) THEN stmts[stmts[b].right].right
                            ELSE stmts[b].right
    BY DEF Advance
  <1> QED
    BY <1>4, <1>5, <1>6, <1>7

\* What an invariant step of vm_next starts from.
Next0 == Inv /\ Loaded /\ pc = "next"

\* Between the commands b, i and the next one.
Between(b, i) ==
    /\ b \in 1..Len(prog) /\ i \in 1..Len(prog[b].cmds)
    /\ cmds = <<b, i>> /\ last.cmd = <<b, i>> /\ last.ok \in BOOLEAN /\ (last.ok <=> status = 0)
    /\ Pointed(b, i) /\ state \in States(prog[b].type)
    /\ prog[b].type \in Sure => last.ok

LEMMA NextCases ==
    ASSUME Next0
    PROVE  /\ end = FALSE
           /\ (last.cmd = None /\ FirstOK) \/ (\E b, i : Between(b, i))
  <1>1. Inv /\ pc = "next"
    BY DEF Next0
  <1>2. LastOK /\ (IF last.cmd = None THEN FirstOK ELSE NextOK) /\ end \in BOOLEAN
    BY <1>1 DEF Inv, ControlOK, TypeOK
  <1>3. CASE last.cmd = None
    BY <1>2, <1>3 DEF FirstOK
  <1>4. CASE last.cmd # None
    <2>1. PICK b \in 1..Len(prog) : \E i \in 1..Len(prog[b].cmds) :
            /\ cmds = <<b, i>> /\ last.cmd = <<b, i>> /\ (last.ok <=> status = 0) /\ ~end
            /\ Pointed(b, i) /\ state \in States(prog[b].type)
      BY <1>2, <1>4 DEF NextOK
    <2>2. PICK i \in 1..Len(prog[b].cmds) :
            /\ cmds = <<b, i>> /\ last.cmd = <<b, i>> /\ (last.ok <=> status = 0) /\ ~end
            /\ Pointed(b, i) /\ state \in States(prog[b].type)
      BY <2>1
    <2>3. last.ok \in BOOLEAN /\ (prog[b].type \in Sure => last.ok)
      <3>1. PICK a \in 1..Len(prog) : \E j \in 1..Len(prog[a].cmds) :
              last.cmd = <<a, j>> /\ last.ok \in BOOLEAN /\ (prog[a].type \in Sure => last.ok)
        BY <1>2, <1>4 DEF LastOK
      <3>2. a = b
        BY <2>2, <3>1
      <3> QED
        BY <3>1, <3>2
    <2> QED
      BY <1>2, <2>2, <2>3 DEF Between
  <1> QED
    BY <1>3, <1>4

\* States are vm states.
LEMMA StatesOK ==
    ASSUME Loaded, NEW b \in 1..Len(prog), NEW st \in States(prog[b].type)
    PROVE  st \in {"NORMAL", "IN_CONDITIONS", "IN_IF_STATEMENTS", "IN_ELSE_STATEMENTS",
                   "IN_ELIF_STATEMENTS", "IN_LOOP_STATEMENTS", "IN_LOOP_INIT",
                   "IN_LOOP_EACH_INIT", "IN_LOOP_INCREMENT"}
  <1>1. prog[b].type \in Types
    BY ProgramOK DEF Loaded
  <1> QED
    BY <1>1 DEF States, Types, Conditions

\* A step that chooses the command that the language says comes next, and goes behind it.
LEMMA ChosenStep ==
    ASSUME Next0, NEW b \in 1..Len(prog), NEW i \in 1..Len(prog[b].cmds),
           <<b, i>> = Expected, <<b, i>> # last.cmd,
           cmds' = <<b, i>>, state' \in States(prog[b].type), pc' = "execute", pos' \in Nat,
           Placed(b, i)', cur_stmt' \in 0..Len(stmts), end' \in BOOLEAN,
           UNCHANGED <<prog, stmts, status, last, exited, item, seen>>
    PROVE  Inv'
  <1>1. Inv /\ Loaded
    BY DEF Next0
  <1>2. Linked
    BY <1>1, GraphOK
  <1>3. Len(prog[b].cmds) \in Nat /\ prog[b].cmds \in Seq(Command)
    BY <1>1, ProgramOK DEF Loaded
  <1>4. TypeOK'
    <2>1. cmds'[2] \in DOMAIN stmts'[cmds'[1]].cmds
      <3>1. stmts[b].cmds = prog[b].cmds /\ DOMAIN prog[b].cmds = 1..Len(prog[b].cmds)
        BY <1>2, <1>3, LenProperties DEF Linked
      <3> QED
        BY <3>1
    <2>2. state' \in {"NORMAL", "IN_CONDITIONS", "IN_IF_STATEMENTS", "IN_ELSE_STATEMENTS",
                      "IN_ELIF_STATEMENTS", "IN_LOOP_STATEMENTS", "IN_LOOP_INIT",
                      "IN_LOOP_EACH_INIT", "IN_LOOP_INCREMENT"}
      BY <1>1, StatesOK
    <2> QED
      BY <1>1, <2>1, <2>2 DEF Inv, TypeOK
  <1>5. stmts' = Parse(prog')
    BY <1>1 DEF Inv
  <1>6. LastOK'
    <2>1. LastOK
      BY <1>1 DEF Inv, ControlOK
    <2> QED
      BY <2>1 DEF LastOK
  <1>7. ChosenOK'
    <2>1. Expected' = Expected
      BY DEF Expected
    <2>2. /\ cmds' = <<b, i>> /\ cmds' = Expected' /\ state' \in States(prog'[b].type)
          /\ IF end' \/ next_cmds' = 0 THEN Final(cmds)' ELSE Pointed(b, i)'
      BY <2>1 DEF Placed, Final
    <2> QED
      BY <2>2 DEF ChosenOK
  <1>8. ControlOK'
    <2>1. cmds' # last'.cmd
      OBVIOUS
    <2> QED
      BY <1>6, <1>7, <2>1 DEF ControlOK
  <1> QED
    BY <1>4, <1>5, <1>8 DEF Inv

\* vm_command_set.
LEMMA ChooseStep ==
    ASSUME Next0, NEW b \in 1..Len(prog), NEW i \in 1..Len(prog[b].cmds),
           <<b, i>> = Expected, <<b, i>> # last.cmd,
           NEW st \in States(prog[b].type), Choose(b, i, st)
    PROVE  Inv'
  <1>1. /\ cmds' = <<b, i>> /\ state' = st /\ pc' = "execute" /\ Advance(b, i, st)
        /\ UNCHANGED <<prog, stmts, status, pos, last, exited, item, seen>>
    BY DEF Choose, history
  <1>2. Loaded /\ end = FALSE /\ pos \in Nat
    BY NextCases DEF Next0, Inv, TypeOK
  <1>3. Placed(b, i)' /\ cur_stmt' \in 0..Len(stmts) /\ end' \in BOOLEAN
    BY <1>1, <1>2, AdvanceOK
  <1> QED
    BY <1>1, <1>2, <1>3, ChosenStep

\* A step that chooses nothing, where nothing may follow.
LEMMA StoppedStep ==
    ASSUME Next0, last.cmd # None, Stopped, end' \/ next_cmds' = 0, end' \in BOOLEAN,
           pc' = "execute", status' \in {status, FailureContinue},
           UNCHANGED <<prog, stmts, state, cur_stmt, cmds, pos, last, exited, item, seen>>
    PROVE  Inv'
  <1>1. Inv /\ Loaded
    BY DEF Next0
  <1>2. PICK b, i : Between(b, i)
    BY NextCases
  <1>3. TypeOK'
    <2>1. Linked
      BY <1>1, GraphOK
    <2>2. Len(prog[b].cmds) \in Nat /\ prog[b].cmds \in Seq(Command)
      BY <1>1, <1>2, ProgramOK DEF Loaded, Between
    <2>3. cmds'[2] \in DOMAIN stmts'[cmds'[1]].cmds
      <3>1. stmts[b].cmds = prog[b].cmds /\ DOMAIN prog[b].cmds = 1..Len(prog[b].cmds)
        BY <1>2, <2>1, <2>2, LenProperties DEF Linked, Between
      <3> QED
        BY <1>2, <3>1 DEF Between
    <2> QED
      BY <1>1, <2>3 DEF Inv, TypeOK
  <1>4. stmts' = Parse(prog')
    BY <1>1 DEF Inv
  <1>5. LastOK'
    <2>1. LastOK
      BY <1>1 DEF Inv, ControlOK
    <2> QED
      BY <2>1 DEF LastOK
  <1>6. GivenUp'
    BY DEF GivenUp, Stopped, Expected, Type
  <1>7. cmds' = last'.cmd
    BY <1>2 DEF Between
  <1> QED
    BY <1>3, <1>4, <1>5, <1>6, <1>7 DEF Inv, ControlOK

LEMMA GiveUpStep ==
    ASSUME Next0, last.cmd # None, Stopped, GiveUp \/ ReturnNull
    PROVE  Inv'
  <1>1. PICK b, i : Between(b, i)
    BY NextCases
  <1>2. cmds # None
    BY <1>1 DEF Between
  <1>3. end \in BOOLEAN
    BY DEF Next0, Inv, TypeOK
  <1> QED
    BY <1>2, <1>3, StoppedStep DEF GiveUp, ReturnNull, history

-----------------------------------------------------------------------------
(* Where the vm is between two commands, and what the language says there. *)

Inside(b, i) == i < Len(prog[b].cmds) /\ cur_stmt = b /\ next_cmds = i + 1
Behind(b, i) == i = Len(prog[b].cmds) /\ After(b) # 0 /\ cur_stmt = After(b) /\ next_cmds = 1

Here == <<cur_stmt, next_cmds>>

Located(b, i) ==
    /\ Inside(b, i) \/ Behind(b, i)
    /\ cur_stmt \in 1..Len(prog) /\ next_cmds \in 1..Len(prog[cur_stmt].cmds)
    /\ Type(cur_stmt) = prog[cur_stmt].type /\ Here # last.cmd /\ last.cmd # None

Joins(b, i) ==
    /\ Inside(b, i) /\ AndList(prog[b].cmds) => Op \in {"and", "compare"}
    /\ Inside(b, i) /\ AndList(prog[b].cmds) /\ ~Compares(prog[b].cmds) => Op = "and"
    /\ Inside(b, i) /\ OrList(prog[b].cmds) /\ ~Compares(prog[b].cmds) => Op = "or"
    /\ Behind(b, i) => Op \in {"none", "compare"}

Promised(b, i) ==
    /\ Inside(b, i) /\ AndList(prog[b].cmds) =>
         Expected = IF Ok THEN Here ELSE AfterList(prog, b, FALSE)
    /\ Inside(b, i) /\ OrList(prog[b].cmds) =>
         Expected = IF Ok THEN AfterList(prog, b, TRUE) ELSE Here
    /\ Behind(b, i) => Expected = IF Ok THEN Here ELSE AfterList(prog, b, FALSE)

LEMMA PlaceOK ==
    ASSUME Next0, NEW b, NEW i, Between(b, i)
    PROVE  Located(b, i) /\ Joins(b, i) /\ Promised(b, i)
  <1>1. /\ b \in 1..Len(prog) /\ i \in 1..Len(prog[b].cmds) /\ Loaded
        /\ last.cmd = <<b, i>> /\ last.ok \in BOOLEAN /\ (last.ok <=> status = 0) /\ Pointed(b, i)
    BY DEF Next0, Between
  <1>2. /\ Len(prog) \in Nat \ {0}
        /\ \A a \in 1..Len(prog) : /\ Len(prog[a].cmds) \in Nat \ {0}
                                   /\ \A j \in 1..Len(prog[a].cmds) : prog[a].cmds[j] \in Command
                                   /\ prog[a].cmds[1].join = "none"
    BY <1>1, ProgramOK DEF Loaded
  <1>3. Linked /\ Leads(b) /\ Listed(b) /\ Ordered(b) /\ Followed(b)
    BY <1>1, GraphOK, BlocksOK
  <1>4. Inside(b, i) \/ Behind(b, i)
    <2>1. i < Len(prog[b].cmds) \/ i = Len(prog[b].cmds)
      <3>1. Len(prog[b].cmds) \in Nat
        BY <1>1, <1>2
      <3> QED
        BY <1>1, <3>1
    <2> QED
      BY <1>1, <2>1 DEF Pointed, Inside, Behind
  <1>5. Located(b, i)
    <2>1. last.cmd # None
      <3>1. b # 0
        BY <1>1, <1>2
      <3> QED
        BY <1>1, <3>1 DEF None
    <2>2. CASE Inside(b, i)
      <3>1. i + 1 \in 1..Len(prog[b].cmds) /\ i + 1 # i
        <4>1. Len(prog[b].cmds) \in Nat
          BY <1>1, <1>2
        <4> QED
          BY <1>1, <2>2, <4>1 DEF Inside
      <3> QED
        BY <1>1, <1>3, <1>4, <2>1, <2>2, <3>1 DEF Located, Inside, Linked, Here
    <2>3. CASE Behind(b, i)
      <3>1. After(b) \in 1..Len(prog) /\ After(b) # b
        BY <1>3, <2>3 DEF Leads, Ordered, Behind
      <3>2. 1 \in 1..Len(prog[After(b)].cmds)
        BY <1>2, <3>1
      <3> QED
        BY <1>1, <1>3, <1>4, <2>1, <2>3, <3>1, <3>2 DEF Located, Behind, Linked, Here
    <2> QED
      BY <1>4, <2>2, <2>3
  <1>6. Joins(b, i)
    <2>1. Op = IF prog[cur_stmt].cmds[next_cmds].math THEN "compare"
               ELSE prog[cur_stmt].cmds[next_cmds].join
      BY <1>3, <1>5 DEF Op, PrevOp, Linked, Located
    <2>2. CASE Inside(b, i)
      <3>1. i + 1 \in 2..Len(prog[b].cmds)
        <4>1. Len(prog[b].cmds) \in Nat
          BY <1>1, <1>2
        <4> QED
          BY <1>1, <2>2, <4>1 DEF Inside
      <3>2. ~Behind(b, i)
        <4>1. Len(prog[b].cmds) \in Nat
          BY <1>1, <1>2
        <4> QED
          BY <2>2, <4>1 DEF Inside, Behind
      <3> QED
        BY <2>1, <2>2, <3>1, <3>2 DEF Joins, Inside, AndList, OrList, Compares
    <2>3. CASE Behind(b, i)
      <3>1. ~Inside(b, i)
        <4>1. Len(prog[b].cmds) \in Nat
          BY <1>1, <1>2
        <4> QED
          BY <2>3, <4>1 DEF Inside, Behind
      <3>2. prog[cur_stmt].cmds[next_cmds].join = "none"
        BY <1>2, <1>5, <2>3 DEF Behind, Located
      <3> QED
        BY <2>1, <3>1, <3>2 DEF Joins
    <2> QED
      BY <1>4, <2>2, <2>3
  <1>7. Promised(b, i)
    <2>1. /\ Ok => Expected = NextCommand(prog, <<b, i>>, TRUE)
          /\ ~Ok => Expected = NextCommand(prog, <<b, i>>, FALSE)
      <3>1. (Ok => last.ok = TRUE) /\ (~Ok => last.ok = FALSE)
        BY <1>1 DEF Ok
      <3> QED
        BY <1>1, <1>5, <3>1 DEF Expected, Located
    <2>2. /\ i < Len(prog[b].cmds) /\ AndList(prog[b].cmds) =>
               /\ NextCommand(prog, <<b, i>>, TRUE) = <<b, i + 1>>
               /\ NextCommand(prog, <<b, i>>, FALSE) = AfterList(prog, b, FALSE)
          /\ i < Len(prog[b].cmds) /\ OrList(prog[b].cmds) =>
               /\ NextCommand(prog, <<b, i>>, FALSE) = <<b, i + 1>>
               /\ NextCommand(prog, <<b, i>>, TRUE) = AfterList(prog, b, TRUE)
          /\ i = Len(prog[b].cmds) =>
               /\ NextCommand(prog, <<b, i>>, TRUE) = AfterList(prog, b, TRUE)
               /\ NextCommand(prog, <<b, i>>, FALSE) = AfterList(prog, b, FALSE)
      BY <1>1, InList
    <2> QED
      BY <1>3, <2>1, <2>2 DEF Promised, Inside, Behind, Here, Followed
  <1> QED
    BY <1>5, <1>6, <1>7

\* The vm goes on to the command it points at.
LEMMA StayStep ==
    ASSUME Next0, NEW b, NEW i, Between(b, i), Expected = Here,
           NEW st \in States(prog[cur_stmt].type), Stay(st)
    PROVE  Inv'
  <1>1. Located(b, i)
    BY PlaceOK
  <1> QED
    BY <1>1, ChooseStep DEF Located, Here, Stay

-----------------------------------------------------------------------------
(* Which branches an if has.                                               *)

IfTypes == {"IF_CONDITIONS", "IF", "ELIF_CONDITIONS", "ELIF", "ELSE"}

LEMMA IfTypesOK ==
    ASSUME Loaded, NEW b \in 1..Len(prog), prog[b].type \in IfTypes
    PROVE  /\ PlainIf(prog)
           /\ prog[b].type = "IF_CONDITIONS" <=> b = 1
           /\ prog[b].type = "IF" <=> b = 2
           /\ prog[b].type = "ELIF_CONDITIONS" <=> b > 2 /\ b % 2 # 0 /\ b < Len(prog)
           /\ prog[b].type = "ELIF" <=> b > 2 /\ b % 2 = 0
           /\ prog[b].type = "ELSE" <=> b > 2 /\ b % 2 # 0 /\ b = Len(prog)
  <1>1. Len(prog) \in Nat
    BY ProgramOK DEF Loaded
  <1>2. PlainIf(prog)
    <2>1. CASE PlainWhile(prog)
      <3>1. b = 1 \/ b \in 2..Len(prog)
        BY <1>1
      <3> QED
        BY <2>1, <3>1 DEF PlainWhile, IfTypes
    <2>2. CASE PlainFor(prog)
      <3>1. b \in {1, 2, 3, 4}
        BY <2>2 DEF PlainFor
      <3> QED
        BY <2>2, <3>1 DEF PlainFor, IfTypes
    <2>3. CASE PlainForEach(prog)
      <3>1. b \in {1, 2}
        BY <2>3 DEF PlainForEach
      <3> QED
        BY <2>3, <3>1 DEF PlainForEach, IfTypes
    <2>4. CASE PlainNormal(prog)
      BY <2>4 DEF PlainNormal, IfTypes
    <2> QED
      BY <2>1, <2>2, <2>3, <2>4 DEF Loaded, Plain
  <1>3. prog[b].type = IfType(prog, b)
    BY <1>2 DEF PlainIf
  <1>4. \/ b = 1 /\ b % 2 # 0
        \/ b = 2 /\ b % 2 = 0
        \/ b > 2
    BY <1>1
  <1>5. b < Len(prog) \/ b = Len(prog)
    BY <1>1
  <1>6. b < Len(prog) => b # Len(prog)
    BY <1>1
  <1> QED
    BY <1>2, <1>3, <1>4, <1>5, <1>6 DEF IfType

LEMMA Branches ==
    ASSUME Loaded, PlainIf(prog)
    PROVE  /\ HasElse <=> Len(prog) % 2 # 0
           /\ HasElif <=> Len(prog) > 3
           /\ StatementsType = "IF_ELSE" <=> Len(prog) = 3
           /\ StatementsType = "IF" <=> Len(prog) = 2
           /\ Len(prog) % 2 # 0 => FindElse = Len(prog) /\ prog[Len(prog)].type = "ELSE"
  <1> DEFINE N == Len(prog)
             types == {prog[b].type : b \in DOMAIN prog}
  <1>1. /\ N \in Nat /\ DOMAIN prog = 1..N /\ N > 1
        /\ \A b \in 1..N : prog[b].type = IfType(prog, b)
    BY ProgramOK DEF Loaded, PlainIf
  <1>2. /\ \A b \in 1..N : prog[b].type \in IfTypes
        /\ prog[1].type = "IF_CONDITIONS"
    <2>1. \A b \in 1..N : b = 1 \/ b = 2 \/ b > 2
      BY <1>1
    <2>2. \A b \in 1..N : IfType(prog, b) \in IfTypes
      BY <2>1 DEF IfType, IfTypes
    <2>3. 1 \in 1..N
      BY <1>1
    <2> QED
      BY <1>1, <2>2, <2>3 DEF IfType
  <1>3. \A b \in 1..N : /\ prog[b].type = "ELIF" <=> b > 2 /\ b % 2 = 0
                        /\ prog[b].type = "ELSE" <=> b > 2 /\ b % 2 # 0 /\ b = N
    BY <1>2, IfTypesOK
  <1>4. "ELSE" \in types <=> N % 2 # 0
    <2>1. N % 2 # 0 => N \in 1..N /\ N > 2
      BY <1>1
    <2> QED
      BY <1>1, <1>3, <2>1
  <1>5. "ELIF" \in types <=> N > 3
    <2>1. N > 3 => 4 \in 1..N /\ 4 > 2 /\ 4 % 2 = 0
      BY <1>1
    <2>2. \A b \in 1..N : b > 2 /\ b % 2 = 0 => N > 3
      BY <1>1
    <2> QED
      BY <1>1, <1>3, <2>1, <2>2
  <1>6. /\ HasElse <=> "ELSE" \in types
        /\ HasElif <=> "ELIF" \in types
        /\ StatementsType = "IF_ELSE" <=> "ELSE" \in types /\ "ELIF" \notin types
        /\ StatementsType = "IF" <=> "ELSE" \notin types /\ "ELIF" \notin types
    BY <1>2 DEF StatementsType, HasElse, HasElif
  <1>7. N % 2 # 0 => FindElse = N /\ prog[N].type = "ELSE"
    <2>1. stmts = IfNodes(prog, N)
      BY NodesOK
    <2>2. DOMAIN stmts = 1..N
      BY <2>1 DEF IfNodes
    <2>3. \A s \in 1..N : Type(s) = prog[s].type
      BY IfLinked DEF Linked
    <2>4. N % 2 # 0 => N \in 1..N /\ N > 2
      BY <1>1
    <2>5. N % 2 # 0 => prog[N].type = "ELSE" /\ \A s \in 1..N : Type(s) = "ELSE" <=> s = N
      BY <1>3, <2>3, <2>4
    <2> QED
      BY <2>2, <2>4, <2>5 DEF FindElse
  <1>8. N > 3 \/ N = 2 \/ N = 3
    <2>1. N \in Nat
      BY <1>1
    <2>2. N > 1
      BY <1>1
    <2> HIDE DEF N
    <2> QED
      BY <2>1, <2>2
  <1>9. (N = 2 => ~(N % 2 # 0) /\ ~(N > 3)) /\ (N = 3 => N % 2 # 0 /\ ~(N > 3)) /\ 2 # 3
    <2>1. 2 % 2 = 0 /\ 3 % 2 # 0 /\ ~(2 > 3) /\ ~(3 > 3)
      OBVIOUS
    <2> HIDE DEF N
    <2> QED
      BY <2>1
  <1> QED
    BY <1>4, <1>5, <1>6, <1>7, <1>8, <1>9

\* Where vm_next_elif_condition and vm_next_else_statement get from conditions or their block.
LEMMA BranchesFrom ==
    ASSUME Loaded, PlainIf(prog), NEW b \in 1..Len(prog), b % 2 # 0, b < Len(prog),
           cur_stmt \in {b, b + 1}
    PROVE  /\ b + 2 < Len(prog) => ElifCondition = b + 2 /\ prog[b + 2].type = "ELIF_CONDITIONS"
           /\ b + 2 >= Len(prog) => ElifCondition = 0
           /\ b + 2 = Len(prog) => /\ ElseStatement = Len(prog)
                                   /\ Type(Len(prog)) = "ELSE" /\ prog[Len(prog)].type = "ELSE"
  <1> DEFINE N == Len(prog)
  <1>1. N \in Nat /\ b + 1 \in 1..N /\ (b + 1) % 2 = 0 /\ b \in 1..N
    BY ProgramOK DEF Loaded
  <1>2. stmts = IfNodes(prog, N) /\ \A s \in 1..N : Type(s) = prog[s].type
    BY NodesOK, IfLinked DEF Linked
  <1>3. \A s \in 1..N : prog[s].type = IfType(prog, s)
    BY DEF PlainIf
  <1>4. stmts[b].left = (IF b + 1 < N THEN b + 2 ELSE 0) /\ stmts[b + 1].prev = b
    <2>1. stmts[b] = IfNode(prog, N, b) /\ stmts[b + 1] = IfNode(prog, N, b + 1)
      BY <1>1, <1>2 DEF IfNodes
    <2> QED
      BY <1>1, <2>1 DEF IfNode
  <1>5. /\ b = 1 => Type(b) = "IF_CONDITIONS" /\ Type(b + 1) = "IF"
        /\ b > 2 => Type(b) = "ELIF_CONDITIONS" /\ Type(b + 1) = "ELIF"
    <2>1. b > 2 => b + 1 > 2 /\ ~(b % 2 = 0) /\ b # N
      BY <1>1
    <2> QED
      BY <1>1, <1>2, <1>3, <2>1 DEF IfType
  <1>6. b = 1 \/ b > 2
    BY <1>1
  <1>7. ElifCondition = IF Type(stmts[b].left) = "ELIF_CONDITIONS" THEN stmts[b].left ELSE 0
    <2>1. CASE cur_stmt = b
      BY <1>5, <1>6, <2>1 DEF ElifCondition
    <2>2. CASE cur_stmt = b + 1
      BY <1>4, <1>5, <1>6, <2>2 DEF ElifCondition
    <2> QED
      BY <2>1, <2>2
  <1>8. CASE b + 2 < N
    <2>1. b + 2 \in 1..N /\ b + 2 > 2 /\ (b + 2) % 2 # 0 /\ b + 2 # N /\ b + 1 < N
          /\ ~(b + 2 >= N)
      BY <1>1, <1>8
    <2>2. prog[b + 2].type = "ELIF_CONDITIONS"
      BY <1>3, <2>1 DEF IfType
    <2> QED
      BY <1>2, <1>4, <1>7, <2>1, <2>2
  <1>9. CASE b + 2 = N
    <2>1. b + 2 \in 1..N /\ b + 2 > 2 /\ (b + 2) % 2 # 0 /\ b + 1 < N /\ ~(b + 2 < N) /\ N % 2 # 0
      BY <1>1, <1>9
    <2>2. prog[N].type = "ELSE" /\ Type(N) = "ELSE"
      BY <1>2, <1>3, <1>9, <2>1 DEF IfType
    <2>3. ElifCondition = 0
      BY <1>4, <1>7, <1>9, <2>1, <2>2
    <2>4. ElseStatement = N
      <3>1. FindElse = N
        BY <2>1, Branches
      <3> QED
        BY <1>4, <1>5, <1>6, <1>9, <2>1, <3>1 DEF ElseStatement
    <2> QED
      BY <2>1, <2>2, <2>3, <2>4
  <1>10. CASE b + 2 > N
    <2>1. ~(b + 1 < N) /\ ~(b + 2 < N) /\ b + 2 # N
      BY <1>1, <1>10
    <2>2. ElifCondition = 0
      BY <1>4, <1>7, <2>1 DEF Type
    <2> QED
      BY <2>1, <2>2
  <1>11. b + 2 < N \/ b + 2 = N \/ b + 2 > N
    BY <1>1
  <1> QED
    BY <1>8, <1>9, <1>10, <1>11

-----------------------------------------------------------------------------
(* The actions, between two commands.                                      *)

\* From a block whose commands are not conditions the next block is entered whatever happened.
LEMMA ConditionsStep ==
    ASSUME Next0, NEW b, NEW i, Between(b, i), EnterConditions \/ NextCondition
    PROVE  Inv'
  <1>1. Loaded /\ Located(b, i) /\ Joins(b, i) /\ Promised(b, i)
    BY PlaceOK DEF Next0
  <1>2. /\ Listed(b) /\ Ordered(b) /\ Followed(b)
        /\ b \in 1..Len(prog) /\ state \in States(prog[b].type)
    BY <1>1, BlocksOK DEF Between
  <1>3. prog[cur_stmt].type \in Conditions /\ Stay("IN_CONDITIONS")
    BY <1>1 DEF EnterConditions, NextCondition, BetweenConditions, At, Located
  <1>4. "IN_CONDITIONS" \in States(prog[cur_stmt].type)
    BY <1>3 DEF States, Conditions
  <1>5. Expected = Here
    <2>1. CASE Inside(b, i)
      <3>1. cur_stmt = b /\ state = "IN_CONDITIONS" /\ OneConnective(prog[b].cmds)
        BY <1>2, <1>3, <2>1 DEF Inside, States, Listed, Conditions
      <3>2. Ok <=> Op # "or"
        BY <3>1 DEF EnterConditions, NextCondition
      <3> QED
        BY <1>1, <2>1, <3>1, <3>2 DEF Joins, Promised, OneConnective
    <2>2. CASE Behind(b, i)
      <3>1. prog[b].type = "WHILE" \/ prog[b].type \in Sure
        BY <1>2, <1>3, <2>2 DEF Behind, Ordered
      <3>2. prog[b].type \notin Conditions
        BY <3>1 DEF Conditions, Sure
      <3> QED
        BY <1>1, <1>2, <2>2, <3>2 DEF Behind, Promised, Followed, Here
    <2> QED
      BY <1>1, <2>1, <2>2 DEF Located
  <1> QED
    BY <1>3, <1>4, <1>5, StayStep

LEMMA ConditionsHoldStep ==
    ASSUME Next0, NEW b, NEW i, Between(b, i), ConditionsHold
    PROVE  Inv'
  <1>1. Loaded /\ Located(b, i) /\ Joins(b, i) /\ Promised(b, i)
    BY PlaceOK DEF Next0
  <1>2. /\ Listed(b) /\ Ordered(b) /\ Followed(b) /\ b \in 1..Len(prog)
        /\ last.cmd = <<b, i>>
    BY <1>1, BlocksOK DEF Between
  <1>3. prog[cur_stmt].type \in Conditions /\ Ok /\ Op = "or"
    BY <1>1 DEF ConditionsHold, BetweenConditions, At, Located
  <1>4. Inside(b, i) /\ cur_stmt = b
    BY <1>1, <1>3 DEF Located, Joins, Inside
  <1>5. OrList(prog[b].cmds) /\ ~AndList(prog[b].cmds)
    BY <1>1, <1>2, <1>3, <1>4 DEF Listed, OneConnective, Joins
  <1>6. /\ After(b) = b + 1 /\ stmts[b].right = b + 1 /\ After(b) # 0 /\ After(b) # b
        /\ b + 1 \in 1..Len(prog)
    <2>1. After(b) = b + 1 /\ stmts[b].right = b + 1
      BY <1>2, <1>3, <1>4 DEF Ordered
    <2>2. b + 1 # 0
      BY <1>2
    <2> QED
      BY <1>1, <1>2, <2>1, <2>2, GraphOK DEF Leads, Ordered
  <1>7. Expected = <<b + 1, 1>> /\ <<b + 1, 1>> # last.cmd
    <2>1. Expected = AfterList(prog, b, TRUE)
      BY <1>1, <1>3, <1>4, <1>5 DEF Promised
    <2>2. AfterList(prog, b, TRUE) = <<b + 1, 1>>
      BY <1>2, <1>6 DEF Followed
    <2>3. \A a : a # b => <<a, 1>> # <<b, i>>
      OBVIOUS
    <2>4. b + 1 # b
      BY <1>6
    <2>5. <<b + 1, 1>> # <<b, i>>
      BY <2>3, <2>4
    <2> QED
      BY <1>2, <2>1, <2>2, <2>5
  <1>8. 1 \in 1..Len(prog[b + 1].cmds)
    BY <1>1, <1>6, ProgramOK DEF Loaded
  <1> DEFINE st == CASE Type(cur_stmt) = "IF_CONDITIONS" -> "IN_IF_STATEMENTS"
                     [] Type(cur_stmt) = "ELIF_CONDITIONS" -> "IN_ELIF_STATEMENTS"
                     [] OTHER -> "IN_LOOP_STATEMENTS"
  <1>9. st \in States(prog[b + 1].type)
    <2>1. /\ Type(b) = prog[b].type /\ prog[b].type \in Conditions
          /\ prog[b + 1].type = CASE prog[b].type = "IF_CONDITIONS" -> "IF"
                                  [] prog[b].type = "ELIF_CONDITIONS" -> "ELIF"
                                  [] prog[b].type = "WHILE_CONDITIONS" -> "WHILE"
                                  [] prog[b].type = "FOR_CONDITIONS" -> "FOR"
      BY <1>1, <1>2, <1>3, <1>4, <1>6 DEF Located, Ordered
    <2> QED
      BY <1>4, <2>1 DEF States, Conditions
  <1>10. Choose(b + 1, 1, st)
    BY <1>4, <1>6 DEF ConditionsHold
  <1> HIDE DEF st
  <1> QED
    BY <1>6, <1>7, <1>8, <1>9, <1>10, ChooseStep

\* The branches that vm_next_if takes when the conditions at b, or their block's first command,
\* find a failure.
LEMMA BranchStep ==
    ASSUME Next0, PlainIf(prog), NEW b \in 1..Len(prog), NEW i, Between(b, i),
           b % 2 # 0, b < Len(prog), cur_stmt \in {b, b + 1},
           Expected = AfterList(prog, b, FALSE)
    PROVE  /\ b + 2 < Len(prog) /\ TakeElif => Inv'
           /\ b + 2 = Len(prog) /\ TakeElse => Inv'
           /\ b + 2 > Len(prog) /\ (GiveUp \/ ReturnNull) => Inv'
           /\ b + 2 = Len(prog) /\ b > 2 /\ TakeElseLast => Inv'
  <1>1. Loaded /\ Located(b, i) /\ last.cmd = <<b, i>>
    BY PlaceOK DEF Next0, Between
  <1>2. Followed(b) /\ Len(prog) \in Nat
    BY <1>1, BlocksOK, ProgramOK DEF Loaded
  <1>3. prog[b].type \in {"IF_CONDITIONS", "ELIF_CONDITIONS"}
    <2>1. prog[b].type = IfType(prog, b)
      BY DEF PlainIf
    <2>2. b = 1 \/ b > 2
      BY <1>2
    <2>3. b # Len(prog) /\ (b > 2 => b # 1 /\ b # 2)
      BY <1>2
    <2> QED
      BY <2>1, <2>2, <2>3 DEF IfType
  <1>4. /\ b + 2 <= Len(prog) => Expected = <<b + 2, 1>>
        /\ ~(b + 2 <= Len(prog)) => Expected = Done
    BY <1>2, <1>3 DEF Followed
  <1>5. <<b + 2, 1>> # last.cmd /\ (b + 2 <= Len(prog) => b + 2 \in 1..Len(prog))
    <2>1. \A a : a # b => <<a, 1>> # <<b, i>>
      OBVIOUS
    <2>2. b + 2 # b
      BY <1>2
    <2>3. <<b + 2, 1>> # <<b, i>>
      BY <2>1, <2>2
    <2> QED
      BY <1>1, <1>2, <2>3
  <1>6. b + 2 <= Len(prog) => 1 \in 1..Len(prog[b + 2].cmds)
    BY <1>1, <1>5, ProgramOK DEF Loaded
  <1>7. ASSUME b + 2 < Len(prog), TakeElif PROVE Inv'
    <2>1. b + 2 <= Len(prog)
      BY <1>2, <1>7
    <2>2. Choose(b + 2, 1, "IN_CONDITIONS") /\ prog[b + 2].type = "ELIF_CONDITIONS"
      BY <1>1, <1>7, BranchesFrom DEF TakeElif
    <2>3. "IN_CONDITIONS" \in States(prog[b + 2].type)
      BY <2>2 DEF States, Conditions
    <2> QED
      BY <1>1, <1>4, <1>5, <1>6, <2>1, <2>2, <2>3, ChooseStep
  <1>8. b + 2 = Len(prog) => "IN_ELSE_STATEMENTS" \in States(prog[b + 2].type)
    <2>1. b + 2 = Len(prog) => prog[b + 2].type = "ELSE"
      BY <1>1, BranchesFrom
    <2> QED
      BY <2>1 DEF States, Conditions
  <1>9. ASSUME b + 2 = Len(prog), TakeElse PROVE Inv'
    <2>1. b + 2 <= Len(prog)
      BY <1>2, <1>9
    <2>2. Choose(b + 2, 1, "IN_ELSE_STATEMENTS")
      BY <1>1, <1>9, BranchesFrom DEF TakeElse
    <2> QED
      BY <1>1, <1>4, <1>5, <1>6, <1>8, <1>9, <2>1, <2>2, ChooseStep
  <1>10. ASSUME b + 2 > Len(prog), GiveUp \/ ReturnNull PROVE Inv'
    <2>1. ~(b + 2 <= Len(prog))
      BY <1>2, <1>10
    <2> QED
      BY <1>1, <1>4, <1>10, <2>1, GiveUpStep DEF Stopped, Located
  <1>11. ASSUME b + 2 = Len(prog), b > 2, TakeElseLast PROVE Inv'
    <2> DEFINE N == Len(prog)
    <2>1. N \in 1..Len(prog) /\ 1 \in 1..Len(prog[N].cmds) /\ N % 2 # 0 /\ b + 2 <= Len(prog)
      BY <1>2, <1>5, <1>6, <1>11
    <2>2. FindElse = N
      BY <1>1, <2>1, Branches
    <2>3. /\ cmds' = <<N, 1>> /\ state' = "IN_ELSE_STATEMENTS" /\ pc' = "execute"
          /\ cur_stmt' = N /\ end' = TRUE
          /\ UNCHANGED <<prog, stmts, status, pos, last, exited, item, seen>>
      BY <2>2, <1>11 DEF TakeElseLast, history
    <2>4. Placed(N, 1)'
      <3>1. N # 3
        <4>1. N = b + 2 /\ b > 2
          BY <1>11
        <4> QED
          BY <4>1
      <3>2. Len(prog[N].cmds) = 1
        BY <2>1, <3>1 DEF PlainIf, Single
      <3>3. After(N) = 0
        <4>1. IsIf(prog) /\ ~IsLoop(prog)
          BY <1>1, KindOK DEF Loaded
        <4>2. ~(N < Len(prog))
          BY <1>2
        <4> QED
          BY <4>1, <4>2 DEF After
      <3>4. Final(<<N, 1>>)
        BY <1>1, <2>1, <3>2, <3>3, LastIsFinal
      <3> QED
        BY <2>3, <3>4 DEF Placed, Final
    <2>5. N \in 0..Len(stmts)
      BY <1>1, <2>1, GraphOK DEF Linked
    <2>6. pos \in Nat
      BY DEF Next0, Inv, TypeOK
    <2> QED
      BY <1>1, <1>4, <1>5, <1>8, <1>11, <2>1, <2>3, <2>4, <2>5, <2>6, ChosenStep
  <1> QED
    BY <1>7, <1>9, <1>10, <1>11

\* Before a condition of an if or an elif, after a failure and not before an ||.
LEMMA IfConditionsStep ==
    ASSUME Next0, NEW b, NEW i, Between(b, i),
           IfConditionFails \/ ElifAndFails \/ ElifComparisonFails
    PROVE  Inv'
  <1>1. Loaded /\ Located(b, i) /\ Joins(b, i) /\ Promised(b, i)
    BY PlaceOK DEF Next0
  <1>2. /\ Listed(b) /\ Ordered(b) /\ b \in 1..Len(prog) /\ Len(prog) \in Nat
    BY <1>1, BlocksOK, ProgramOK DEF Between, Loaded
  <1>3. /\ prog[cur_stmt].type \in {"IF_CONDITIONS", "ELIF_CONDITIONS"} /\ ~Ok /\ Op # "or"
        /\ prog[cur_stmt].type = Type(cur_stmt)
    BY <1>1 DEF IfConditionFails, ElifAndFails, ElifComparisonFails, BetweenConditions, At, Located
  <1>4. PlainIf(prog)
    BY <1>1, <1>3, IfTypesOK DEF IfTypes, Located
  <1>5. Inside(b, i) /\ cur_stmt = b
    <2>1. ~Behind(b, i)
      <3>1. IsIf(prog) /\ ~IsLoop(prog)
        BY <1>1, <1>4, KindOK DEF Loaded
      <3>2. ASSUME Behind(b, i) PROVE FALSE
        <4>1. cur_stmt = b + 1 /\ b % 2 # 0
          BY <3>1, <3>2 DEF Behind, After
        <4>2. (b + 1) % 2 = 0 /\ b + 1 # 1
          BY <1>2, <4>1
        <4>3. prog[b + 1].type = "IF_CONDITIONS" \/ prog[b + 1].type = "ELIF_CONDITIONS"
          BY <1>3, <4>1
        <4>4. b + 1 = 1 \/ (b + 1) % 2 # 0
          BY <1>1, <4>1, <4>3, IfTypesOK DEF IfTypes, Located
        <4> QED
          BY <4>2, <4>4
      <3> QED
        BY <3>2
    <2> QED
      BY <1>1, <2>1 DEF Located, Inside
  <1>6. b % 2 # 0 /\ b < Len(prog)
    <2>1. b = 1 \/ (b % 2 # 0 /\ b < Len(prog))
      BY <1>1, <1>2, <1>3, <1>5, IfTypesOK DEF IfTypes
    <2>2. Len(prog) > 1
      BY <1>4 DEF PlainIf
    <2> QED
      BY <2>1, <2>2
  <1>7. AndList(prog[b].cmds)
    BY <1>1, <1>2, <1>3, <1>5 DEF Listed, Conditions, OneConnective, Joins
  <1>8. Expected = AfterList(prog, b, FALSE)
    BY <1>1, <1>3, <1>5, <1>7 DEF Promised
  <1> DEFINE N == Len(prog)
  <1>9. /\ b + 2 < N => ElifCondition # 0
        /\ b + 2 >= N => ElifCondition = 0
    <2>1. b + 2 # 0
      BY <1>2
    <2> QED
      BY <1>1, <1>2, <1>4, <1>5, <1>6, <2>1, BranchesFrom
  <1>10. /\ HasElse <=> N % 2 # 0
         /\ HasElif <=> N > 3
         /\ StatementsType = "IF_ELSE" <=> N = 3
    BY <1>1, <1>4, Branches
  <1>11. b + 2 > N => b + 1 = N /\ N % 2 = 0
    BY <1>2, <1>6
  <1>12. b + 2 < N \/ b + 2 = N \/ b + 2 > N
    BY <1>2
  <1>13. b + 2 >= N <=> ~(b + 2 < N)
    BY <1>2
  <1>14. /\ b + 2 < N /\ TakeElif => Inv'
         /\ b + 2 = N /\ TakeElse => Inv'
         /\ b + 2 > N /\ (GiveUp \/ ReturnNull) => Inv'
    BY <1>2, <1>4, <1>5, <1>6, <1>8, BranchStep
  <1>15. b + 2 = N => N % 2 # 0
    BY <1>2, <1>6
  <1>16. CASE IfConditionFails
    <2>1. b = 1
      BY <1>1, <1>2, <1>3, <1>5, <1>16, IfTypesOK DEF IfConditionFails, IfTypes
    <2>2. /\ N = 3 => b + 2 = N
          /\ N > 3 => b + 2 < N /\ N # 3
          /\ ~(N > 3) /\ N # 3 => b + 2 > N
      <3>1. N \in Nat
        BY <1>2
      <3> HIDE DEF N
      <3> QED
        BY <2>1, <3>1
    <2> QED
      BY <1>10, <1>14, <1>16, <2>2 DEF IfConditionFails
  <1>17. CASE ElifAndFails
    <2>1. CASE ElifCondition # 0
      BY <1>9, <1>13, <1>14, <1>17, <2>1 DEF ElifAndFails
    <2>2. CASE ElifCondition = 0 /\ HasElse
      <3>1. b + 2 = N
        BY <1>9, <1>10, <1>11, <1>12, <2>2
      <3> QED
        BY <1>14, <1>17, <2>2, <3>1 DEF ElifAndFails
    <2>3. CASE ElifCondition = 0 /\ ~HasElse
      <3>1. b + 2 > N
        BY <1>9, <1>10, <1>12, <1>15, <2>3
      <3> QED
        BY <1>14, <1>17, <2>3, <3>1 DEF ElifAndFails
    <2> QED
      BY <2>1, <2>2, <2>3
  <1>18. CASE ElifComparisonFails
    <2>1. CASE HasElse
      <3>1. Compares(prog[b].cmds)
        BY <1>1, <1>5, <1>7, <1>18 DEF Joins, ElifComparisonFails
      <3>2. b > 2
        BY <1>1, <1>2, <1>3, <1>5, <1>18, IfTypesOK DEF ElifComparisonFails, IfTypes
      <3>3. ~(b < N - 2)
        <4>1. N % 2 # 0 /\ 2 < b
          BY <1>2, <1>10, <2>1, <3>2
        <4> QED
          BY <1>2, <1>4, <1>6, <3>1, <4>1 DEF PlainIf
      <3>4. ~(b + 2 < N)
        BY <1>2, <3>3
      <3>5. b + 2 = N
        BY <1>10, <1>11, <1>12, <2>1, <3>4
      <3> QED
        BY <1>14, <1>18, <2>1, <3>5 DEF ElifComparisonFails
    <2>2. CASE ~HasElse /\ ElifCondition # 0
      BY <1>9, <1>13, <1>14, <1>18, <2>2 DEF ElifComparisonFails
    <2>3. CASE ~HasElse /\ ElifCondition = 0
      <3>1. b + 2 > N
        BY <1>9, <1>10, <1>12, <1>15, <2>3
      <3> QED
        BY <1>14, <1>18, <2>3, <3>1 DEF ElifComparisonFails
    <2> QED
      BY <2>1, <2>2, <2>3
  <1> QED
    BY <1>16, <1>17, <1>18

\* At the blocks of an if and of an elif, which hold one command each.
LEMMA IfBlocksStep ==
    ASSUME Next0, NEW b, NEW i, Between(b, i), IfBlock \/ ElifBlock
    PROVE  Inv'
  <1>1. Loaded /\ Located(b, i) /\ Joins(b, i) /\ Promised(b, i)
    BY PlaceOK DEF Next0
  <1>2. /\ Listed(b) /\ Ordered(b) /\ b \in 1..Len(prog) /\ Len(prog) \in Nat
        /\ i \in 1..Len(prog[b].cmds) /\ state \in States(prog[b].type)
    BY <1>1, BlocksOK, ProgramOK DEF Between, Loaded
  <1>3. /\ prog[cur_stmt].type \in {"IF", "ELIF"}
        /\ prog[cur_stmt].type = Type(cur_stmt)
    BY <1>1 DEF IfBlock, ElifBlock, At, Located
  <1>4. PlainIf(prog)
    BY <1>1, <1>3, IfTypesOK DEF IfTypes, Located
  <1>5. Behind(b, i)
    <2>1. ASSUME Inside(b, i) PROVE FALSE
      <3>1. Len(prog[b].cmds) = 1
        BY <1>2, <1>3, <2>1 DEF Inside, Listed
      <3> QED
        BY <1>2, <2>1, <3>1 DEF Inside
    <2> QED
      BY <1>1, <2>1 DEF Located
  <1>6. b % 2 # 0 /\ b < Len(prog) /\ cur_stmt = b + 1
    <2>1. IsIf(prog) /\ ~IsLoop(prog)
      BY <1>1, <1>4, KindOK DEF Loaded
    <2> QED
      BY <1>5, <2>1 DEF Behind, After
  <1>7. /\ prog[b].type \in Conditions /\ state = "IN_CONDITIONS"
    <2>1. prog[b].type \in {"IF_CONDITIONS", "ELIF_CONDITIONS"}
      BY <1>2, <1>3, <1>5 DEF Behind, Ordered
    <2> QED
      BY <1>2, <2>1 DEF States, Conditions
  <1>8. Expected = IF Ok THEN Here ELSE AfterList(prog, b, FALSE)
    BY <1>1, <1>5 DEF Promised
  <1>9. Op \in {"none", "compare"}
    BY <1>1, <1>5 DEF Joins
  <1> DEFINE N == Len(prog)
  <1>10. /\ b + 2 < N => ElifCondition # 0
         /\ b + 2 >= N => ElifCondition = 0
    <2>1. b + 2 # 0
      BY <1>2
    <2> QED
      BY <1>1, <1>2, <1>4, <1>6, <2>1, BranchesFrom
  <1>11. /\ HasElse <=> N % 2 # 0
         /\ HasElif <=> N > 3
         /\ StatementsType = "IF_ELSE" <=> N = 3
         /\ StatementsType = "IF" <=> N = 2
    BY <1>1, <1>4, Branches
  <1>12. /\ b + 2 > N => b + 1 = N /\ N % 2 = 0
         /\ b + 2 = N => N % 2 # 0
    BY <1>2, <1>6
  <1>13. (b + 2 < N \/ b + 2 = N \/ b + 2 > N) /\ (b + 2 >= N <=> ~(b + 2 < N))
    BY <1>2
  <1>14. ~Ok => /\ b + 2 < N /\ TakeElif => Inv'
                /\ b + 2 = N /\ TakeElse => Inv'
                /\ b + 2 > N /\ GiveUp => Inv'
                /\ b + 2 = N /\ b > 2 /\ TakeElseLast => Inv'
    BY <1>2, <1>4, <1>6, <1>8, BranchStep
  <1>15. ASSUME Ok, NEW st \in States(prog[cur_stmt].type), Stay(st) PROVE Inv'
    BY <1>8, <1>15, StayStep
  <1>16. CASE IfBlock
    <2>1. b + 1 = 2 /\ Type(cur_stmt) = "IF"
      <3>1. Type(cur_stmt) = "IF"
        BY <1>16 DEF IfBlock, At
      <3> QED
        BY <1>1, <1>3, <1>6, <3>1, IfTypesOK DEF IfTypes, Located
    <2>2. b = 1
      BY <1>2, <2>1
    <2>3. N = 2 \/ N = 3 \/ N > 3
      <3>1. N \in Nat
        BY <1>2
      <3>2. 1 < N
        BY <1>6, <2>2
      <3> HIDE DEF N
      <3> QED
        BY <3>1, <3>2
    <2>4. /\ N = 3 => b + 2 = N /\ ~(N > 3)
          /\ N > 3 => b + 2 < N /\ N # 3 /\ N # 2
          /\ N = 2 => b + 2 > N /\ ~(N > 3) /\ N # 3
      <3>1. N \in Nat
        BY <1>2
      <3> HIDE DEF N
      <3> QED
        BY <2>2, <3>1
    <2> HIDE DEF N
    <2>5. CASE Ok
      <3>1. Stay("IN_IF_STATEMENTS")
        BY <1>16, <2>5 DEF IfBlock
      <3>2. "IN_IF_STATEMENTS" \in States(prog[cur_stmt].type)
        BY <1>3, <2>1 DEF States, Conditions
      <3> QED
        BY <1>15, <2>5, <3>1, <3>2
    <2>6. CASE ~Ok /\ N = 2
      <3>1. GiveUp
        BY <1>7, <1>9, <1>11, <1>16, <2>4, <2>6 DEF IfBlock
      <3> QED
        BY <1>14, <2>4, <2>6, <3>1
    <2>7. CASE ~Ok /\ N = 3
      <3>1. TakeElse
        BY <1>7, <1>11, <1>16, <2>4, <2>7 DEF IfBlock
      <3> QED
        BY <1>14, <2>4, <2>7, <3>1
    <2>8. CASE ~Ok /\ N > 3
      <3>1. TakeElif
        BY <1>7, <1>11, <1>16, <2>4, <2>8 DEF IfBlock
      <3> QED
        BY <1>14, <2>4, <2>8, <3>1
    <2> QED
      BY <2>3, <2>5, <2>6, <2>7, <2>8
  <1>17. CASE ElifBlock
    <2>1. b > 2 /\ Type(cur_stmt) = "ELIF"
      <3>1. Type(cur_stmt) = "ELIF"
        BY <1>17 DEF ElifBlock, At
      <3>2. b + 1 > 2
        BY <1>1, <1>3, <1>6, <3>1, IfTypesOK DEF IfTypes, Located
      <3>3. b # 2
        BY <1>6
      <3> QED
        BY <1>2, <3>1, <3>2, <3>3
    <2>2. CASE Ok
      <3>1. Stay("IN_ELIF_STATEMENTS")
        BY <1>7, <1>17, <2>2 DEF ElifBlock
      <3>2. "IN_ELIF_STATEMENTS" \in States(prog[cur_stmt].type)
        BY <1>3, <2>1 DEF States, Conditions
      <3> QED
        BY <1>15, <2>2, <3>1, <3>2
    <2>3. CASE ~Ok /\ ElifCondition # 0
      BY <1>10, <1>13, <1>14, <1>17, <2>3 DEF ElifBlock
    <2>4. CASE ~Ok /\ ElifCondition = 0 /\ HasElse
      <3>1. b + 2 = N
        BY <1>10, <1>11, <1>12, <1>13, <2>4
      <3> QED
        BY <1>14, <1>17, <2>1, <2>4, <3>1 DEF ElifBlock
    <2>5. CASE ~Ok /\ ElifCondition = 0 /\ ~HasElse
      <3>1. b + 2 > N
        BY <1>10, <1>11, <1>12, <1>13, <2>5
      <3> QED
        BY <1>14, <1>17, <2>5, <3>1 DEF ElifBlock
    <2> QED
      BY <2>2, <2>3, <2>4, <2>5
  <1> QED
    BY <1>16, <1>17

LEMMA ElseStep ==
    ASSUME Next0, NEW b, NEW i, Between(b, i), ElseBlock
    PROVE  Inv'
  <1>1. Loaded /\ Located(b, i) /\ Promised(b, i)
    BY PlaceOK DEF Next0
  <1>2. Listed(b) /\ Ordered(b) /\ Followed(b) /\ b \in 1..Len(prog)
    BY <1>1, BlocksOK DEF Between
  <1>3. prog[cur_stmt].type = "ELSE"
    BY <1>1 DEF ElseBlock, At, Located
  <1>4. Inside(b, i) /\ cur_stmt = b
    BY <1>1, <1>2, <1>3 DEF Located, Behind, Ordered, Inside
  <1>5. AndList(prog[b].cmds) /\ After(b) = 0
    <2>1. IsIf(prog) /\ ~IsLoop(prog) /\ b = Len(prog) /\ Len(prog) \in Nat
      BY <1>1, <1>2, <1>3, <1>4, IfTypesOK, KindOK, ProgramOK DEF IfTypes, Loaded
    <2>2. ~(b < Len(prog))
      BY <2>1
    <2> QED
      BY <1>2, <1>3, <1>4, <2>1, <2>2 DEF Listed, Conditions, After
  <1>6. Expected = IF Ok THEN Here ELSE Done
    BY <1>1, <1>2, <1>4, <1>5 DEF Promised, Followed
  <1>7. CASE Ok
    <2>1. "IN_ELSE_STATEMENTS" \in States(prog[cur_stmt].type)
      BY <1>3 DEF States, Conditions
    <2> QED
      BY <1>6, <1>7, <2>1, StayStep DEF ElseBlock
  <1>8. CASE ~Ok
    BY <1>1, <1>6, <1>8, GiveUpStep DEF ElseBlock, Stopped, Located
  <1> QED
    BY <1>7, <1>8

\* A failed condition ends a loop; so does a failed command of a while loop.
LEMMA LoopStep ==
    ASSUME Next0, NEW b, NEW i, Between(b, i), LoopConditionFails \/ LoopBlock
    PROVE  Inv'
  <1>1. Loaded /\ Located(b, i) /\ Joins(b, i) /\ Promised(b, i)
    BY PlaceOK DEF Next0
  <1>2. /\ Listed(b) /\ Ordered(b) /\ Followed(b) /\ b \in 1..Len(prog)
        /\ (Ok <=> last.ok) /\ last.cmd = <<b, i>> /\ (prog[b].type \in Sure => last.ok)
        /\ Type(b) = prog[b].type
    BY <1>1, BlocksOK, GraphOK DEF Between, Ok, Linked
  <1>3. CASE LoopConditionFails
    <2>1. prog[cur_stmt].type \in {"WHILE_CONDITIONS", "FOR_CONDITIONS"} /\ ~Ok /\ Op # "or"
      BY <1>1, <1>3 DEF LoopConditionFails, BetweenConditions, At, Located
    <2>2. Stopped
      <3>1. CASE Inside(b, i)
        <4>1. prog[b].type \in {"WHILE_CONDITIONS", "FOR_CONDITIONS"}
          BY <2>1, <3>1 DEF Inside
        <4>2. AndList(prog[b].cmds)
          BY <1>1, <1>2, <2>1, <3>1, <4>1 DEF Listed, Conditions, OneConnective, Joins
        <4> QED
          BY <1>1, <1>2, <2>1, <3>1, <4>1, <4>2 DEF Promised, Followed, Stopped
      <3>2. CASE Behind(b, i)
        <4>1. prog[b].type = "WHILE"
          BY <1>2, <2>1, <3>2 DEF Behind, Ordered, Conditions
        <4> QED
          BY <1>2, <2>1, <4>1 DEF Stopped
      <3> QED
        BY <1>1, <3>1, <3>2 DEF Located
    <2> QED
      BY <1>1, <1>3, <2>2, GiveUpStep DEF LoopConditionFails, Located
  <1>4. CASE LoopBlock
    <2>1. prog[cur_stmt].type \in {"WHILE", "FOR"}
      BY <1>1, <1>4 DEF LoopBlock, At, Located
    <2>2. Inside(b, i) => prog[b].type \in {"WHILE", "FOR"} /\ AndList(prog[b].cmds)
      BY <1>2, <2>1 DEF Inside, Listed, Conditions
    <2>3. CASE Ok
      <3>1. Expected = Here
        BY <1>1, <2>2, <2>3 DEF Promised, Located
      <3>2. PICK st \in {"IN_CONDITIONS", "IN_LOOP_STATEMENTS"} : Stay(st)
        BY <1>4, <2>3 DEF LoopBlock
      <3>3. st \in States(prog[cur_stmt].type)
        BY <2>1, <3>2 DEF States, Conditions
      <3> QED
        BY <3>1, <3>2, <3>3, StayStep
    <2>4. CASE ~Ok
      <3>1. Stopped
        <4>1. CASE Inside(b, i)
          <5>1. prog[b].type # "FOR"
            <6>1. ASSUME prog[b].type = "FOR" PROVE FALSE
              <7>1. Len(prog[b].cmds) = 1 /\ i \in 1..Len(prog[b].cmds)
                BY <1>2, <6>1 DEF Listed, Between
              <7> QED
                BY <4>1, <7>1 DEF Inside
            <6> QED
              BY <6>1
          <5> QED
            BY <1>2, <2>2, <2>4, <4>1, <5>1 DEF Stopped
        <4>2. CASE Behind(b, i)
          <5>1. prog[b].type \in {"WHILE_CONDITIONS", "FOR_CONDITIONS", "WHILE", "FOR_EACH_INIT"}
            BY <1>2, <2>1, <4>2 DEF Behind, Ordered
          <5>2. prog[b].type # "FOR_EACH_INIT"
            BY <1>2, <2>4 DEF Sure
          <5>3. CASE prog[b].type = "WHILE"
            BY <1>2, <2>4, <5>3 DEF Stopped
          <5>4. CASE prog[b].type \in {"WHILE_CONDITIONS", "FOR_CONDITIONS"}
            BY <1>1, <1>2, <2>4, <4>2, <5>4 DEF Promised, Followed, Stopped
          <5> QED
            BY <5>1, <5>2, <5>3, <5>4
        <4> QED
          BY <1>1, <4>1, <4>2 DEF Located
      <3> QED
        BY <1>1, <1>4, <2>4, <3>1, GiveUpStep DEF LoopBlock, Located
    <2> QED
      BY <2>3, <2>4
  <1> QED
    BY <1>3, <1>4

\* The increment, and the list of a for-each loop, come after the loop's block.
LEMMA ForStep ==
    ASSUME Next0, NEW b, NEW i, Between(b, i), ForInit \/ ForIncrement
    PROVE  Inv'
  <1>1. Loaded /\ Located(b, i) /\ Promised(b, i)
    BY PlaceOK DEF Next0
  <1>2. /\ Listed(b) /\ Ordered(b) /\ Followed(b) /\ b \in 1..Len(prog)
        /\ i \in 1..Len(prog[b].cmds)
    BY <1>1, BlocksOK DEF Between
  <1>3. prog[cur_stmt].type \in {"FOR_INIT", "FOR_INCREMENT"}
    BY <1>1 DEF ForInit, ForIncrement, At, Located
  <1>4. ~Inside(b, i)
    <2>1. ASSUME Inside(b, i) PROVE FALSE
      <3>1. Len(prog[b].cmds) = 1
        BY <1>2, <1>3, <2>1 DEF Inside, Listed, Sure
      <3> QED
        BY <1>2, <2>1, <3>1 DEF Inside
    <2> QED
      BY <2>1
  <1>5. prog[b].type = "FOR" /\ prog[cur_stmt].type = "FOR_INCREMENT"
    BY <1>1, <1>2, <1>3, <1>4 DEF Located, Behind, Ordered
  <1>6. Expected = Here
    BY <1>1, <1>2, <1>4, <1>5 DEF Located, Promised, Followed, Behind, Here, Conditions
  <1>7. Stay("IN_LOOP_INCREMENT") /\ "IN_LOOP_INCREMENT" \in States(prog[cur_stmt].type)
    BY <1>1, <1>5 DEF ForInit, ForIncrement, At, Located, States, Conditions
  <1> QED
    BY <1>6, <1>7, StayStep

\* A for-each loop takes its next item, or ends in a failure of vm_run.
LEMMA EachStep ==
    ASSUME Next0, ForEach, <<1, 1>> = Expected, <<1, 1>> # last.cmd, prog[1].type = "FOR_EACH_INIT",
           1 \in 1..Len(prog), 1 \in 1..Len(prog[1].cmds)
    PROVE  Inv'
  <1>1. Loaded /\ end = FALSE /\ pos \in Nat /\ Inv /\ LastOK
    BY NextCases DEF Next0, Inv, TypeOK, ControlOK
  <1>2. pos' \in Nat /\ UNCHANGED <<prog, stmts, status, last, exited, item, seen>>
    BY <1>1 DEF ForEach, history
  <1>3. CASE pos' <= prog[1].items
    <2>1. /\ cmds' = <<1, 1>> /\ state' = "IN_LOOP_EACH_INIT" /\ pc' = "execute"
          /\ Advance(1, 1, "IN_LOOP_EACH_INIT")
      BY <1>3 DEF ForEach
    <2>2. "IN_LOOP_EACH_INIT" \in States(prog[1].type)
      BY DEF States, Conditions
    <2>3. Placed(1, 1)' /\ cur_stmt' \in 0..Len(stmts) /\ end' \in BOOLEAN
      BY <1>1, <1>2, <2>1, <2>2, AdvanceOK
    <2> QED
      BY <1>1, <1>2, <2>1, <2>2, <2>3, ChosenStep
  <1>4. CASE ~(pos' <= prog[1].items)
    <2>1. /\ pc' = "failed" /\ end' = TRUE /\ UNCHANGED <<state, cur_stmt>>
      BY <1>4 DEF ForEach
    <2>3. TypeOK'
      BY <1>1, <1>2, <2>1 DEF Inv, TypeOK
    <2>4. stmts' = Parse(prog')
      BY <1>1, <1>2 DEF Inv
    <2>5. LastOK'
      BY <1>1, <1>2 DEF LastOK
    <2> QED
      BY <2>1, <2>3, <2>4, <2>5 DEF Inv, ControlOK
  <1> QED
    BY <1>3, <1>4

LEMMA ForEachStep ==
    ASSUME Next0, NEW b, NEW i, Between(b, i), ForEach
    PROVE  Inv'
  <1>1. Loaded /\ Located(b, i) /\ Promised(b, i)
    BY PlaceOK DEF Next0
  <1>2. /\ Listed(b) /\ Ordered(b) /\ Followed(b) /\ b \in 1..Len(prog)
        /\ i \in 1..Len(prog[b].cmds)
    BY <1>1, BlocksOK DEF Between
  <1>3. prog[cur_stmt].type = "FOR_EACH_INIT"
    BY <1>1 DEF ForEach, At, Located
  <1>4. ~Inside(b, i)
    <2>1. ASSUME Inside(b, i) PROVE FALSE
      <3>1. Len(prog[b].cmds) = 1
        BY <1>2, <1>3, <2>1 DEF Inside, Listed, Sure
      <3> QED
        BY <1>2, <2>1, <3>1 DEF Inside
    <2> QED
      BY <2>1
  <1>5. prog[b].type = "FOR"
    BY <1>1, <1>2, <1>3, <1>4 DEF Located, Behind, Ordered
  <1>6. Expected = Here /\ next_cmds = 1
    BY <1>1, <1>2, <1>4, <1>5 DEF Located, Promised, Followed, Behind, Here, Conditions
  <1>7. cur_stmt = 1
    <2>1. CASE PlainIf(prog)
      <3>1. prog[cur_stmt].type = IfType(prog, cur_stmt) /\ Len(prog) \in Nat
        BY <1>1, <2>1, ProgramOK DEF PlainIf, Located, Loaded
      <3>2. cur_stmt = 1 \/ cur_stmt = 2 \/ (cur_stmt > 2 /\ cur_stmt % 2 = 0)
            \/ (cur_stmt > 2 /\ cur_stmt % 2 # 0)
        BY <1>1, <3>1 DEF Located
      <3> QED
        BY <1>3, <3>1, <3>2 DEF IfType
    <2>2. CASE PlainWhile(prog)
      <3>1. cur_stmt = 1 \/ cur_stmt \in 2..Len(prog)
        BY <1>1, ProgramOK DEF Located, Loaded
      <3> QED
        BY <1>3, <2>2, <3>1 DEF PlainWhile
    <2>3. CASE PlainFor(prog)
      <3>1. cur_stmt \in {1, 2, 3, 4}
        BY <1>1, <2>3 DEF PlainFor, Located
      <3> QED
        BY <1>3, <2>3, <3>1 DEF PlainFor
    <2>4. CASE PlainForEach(prog)
      <3>1. cur_stmt \in {1, 2}
        BY <1>1, <2>4 DEF PlainForEach, Located
      <3> QED
        BY <1>3, <2>4, <3>1 DEF PlainForEach
    <2>5. CASE PlainNormal(prog)
      BY <1>1, <2>5 DEF PlainNormal, Located
    <2> QED
      BY <1>1, <2>1, <2>2, <2>3, <2>4, <2>5 DEF Loaded, Plain
  <1> QED
    BY <1>1, <1>3, <1>6, <1>7, EachStep DEF Located, Here

\* A list of commands goes on, or stops where the language stops.
LEMMA NormalStep ==
    ASSUME Next0, NEW b, NEW i, Between(b, i), NormalStop \/ NormalNext
    PROVE  Inv'
  <1>1. Loaded /\ Located(b, i) /\ Joins(b, i) /\ Promised(b, i)
    BY PlaceOK DEF Next0
  <1>2. /\ Listed(b) /\ Ordered(b) /\ Followed(b) /\ b \in 1..Len(prog)
    BY <1>1, BlocksOK DEF Between
  <1>3. prog[cur_stmt].type = "NORMAL"
    BY <1>1 DEF NormalStop, NormalNext, At, Located
  <1>4. Inside(b, i) /\ cur_stmt = b
    BY <1>1, <1>2, <1>3 DEF Located, Behind, Ordered, Inside
  <1>5. OneConnective(prog[b].cmds) /\ ~Compares(prog[b].cmds) /\ After(b) = 0
    <2>1. PlainNormal(prog)
      <3>1. Len(prog) \in Nat
        BY <1>1, ProgramOK DEF Loaded
      <3>2. CASE PlainIf(prog)
        <4>1. b = 1 \/ b = 2 \/ (b > 2 /\ b % 2 = 0) \/ (b > 2 /\ b % 2 # 0)
          BY <1>2, <3>1
        <4> QED
          BY <1>2, <1>3, <1>4, <3>2, <4>1 DEF PlainIf, IfType
      <3>3. CASE PlainWhile(prog)
        <4>1. b = 1 \/ b \in 2..Len(prog)
          BY <1>2, <3>1
        <4> QED
          BY <1>3, <1>4, <3>3, <4>1 DEF PlainWhile
      <3>4. CASE PlainFor(prog)
        <4>1. b \in {1, 2, 3, 4}
          BY <1>2, <3>4 DEF PlainFor
        <4> QED
          BY <1>3, <1>4, <3>4, <4>1 DEF PlainFor
      <3>5. CASE PlainForEach(prog)
        <4>1. b \in {1, 2}
          BY <1>2, <3>5 DEF PlainForEach
        <4> QED
          BY <1>3, <1>4, <3>5, <4>1 DEF PlainForEach
      <3> QED
        BY <1>1, <3>2, <3>3, <3>4, <3>5 DEF Loaded, Plain
    <2>2. ~IsIf(prog) /\ ~IsLoop(prog)
      BY <1>1, <2>1, KindOK DEF Loaded
    <2> QED
      BY <1>2, <1>3, <1>4, <2>2 DEF Listed, After
  <1>6. /\ AndList(prog[b].cmds) => Op = "and" /\ Expected = IF Ok THEN Here ELSE Done
        /\ OrList(prog[b].cmds) => Op = "or" /\ Expected = IF Ok THEN Done ELSE Here
    BY <1>1, <1>2, <1>4, <1>5 DEF Joins, Promised, Followed
  <1>7. Expected = IF ShortCircuit THEN Done ELSE Here
    BY <1>5, <1>6 DEF OneConnective, ShortCircuit
  <1>8. CASE NormalStop
    <2>1. Stopped /\ last.cmd # None
      BY <1>1, <1>7, <1>8 DEF NormalStop, Stopped, Located
    <2> QED
      BY <1>8, <2>1, StoppedStep DEF NormalStop, history
  <1>9. CASE NormalNext
    <2>1. "NORMAL" \in States(prog[cur_stmt].type) /\ Stay("NORMAL")
      BY <1>3, <1>9 DEF States, Conditions, NormalNext
    <2> QED
      BY <1>7, <1>9, <2>1, StayStep DEF NormalNext
  <1> QED
    BY <1>8, <1>9

-----------------------------------------------------------------------------
(* The first command, and the end of each.                                 *)

LEMMA FirstStep ==
    ASSUME Next0, FirstOK, last.cmd = None, VmNext
    PROVE  Inv'
  <1>1. Loaded /\ Linked
    BY GraphOK DEF Next0
  <1>2. /\ 1 \in 1..Len(prog) /\ 1 \in 1..Len(prog[1].cmds) /\ prog[1].cmds[1].join = "none"
        /\ prog[1].type \in Types
    <2>1. Len(prog) \in Nat \ {0}
      BY <1>1 DEF Linked
    <2>2. 1 \in 1..Len(prog)
      BY <2>1
    <2>3. Len(prog[1].cmds) \in Nat \ {0}
      BY <1>1, <2>2, ProgramOK DEF Loaded
    <2> QED
      BY <1>1, <2>2, <2>3, ProgramOK DEF Loaded
  <1>3. /\ cur_stmt = 1 /\ next_cmds = 1 /\ state = "NORMAL" /\ Ok
        /\ Type(cur_stmt) = prog[1].type
    BY <1>1, <1>2 DEF FirstOK, Ok, Linked
  <1>4. Expected = <<1, 1>> /\ <<1, 1>> # last.cmd
    BY DEF Expected, First, None
  <1>5. Op # "or"
    <2>1. stmts[1].cmds = prog[1].cmds
      BY <1>1, <1>2 DEF Linked
    <2> QED
      BY <1>2, <1>3, <2>1 DEF Op, PrevOp
  <1>6. ASSUME NEW st \in States(prog[1].type), Stay(st) PROVE Inv'
    BY <1>2, <1>3, <1>4, <1>6, ChooseStep DEF Stay
  <1>7. prog[1].type \notin {"IF", "ELIF", "ELSE", "WHILE", "FOR", "FOR_INCREMENT"}
    <2>1. PlainIf(prog) => prog[1].type = "IF_CONDITIONS"
      BY <1>2 DEF PlainIf, IfType
    <2> QED
      BY <1>1, <2>1 DEF Loaded, Plain, PlainWhile, PlainFor, PlainForEach, PlainNormal
  <1>8. CASE EnterConditions
    <2>1. "IN_CONDITIONS" \in States(prog[1].type) /\ Stay("IN_CONDITIONS")
      BY <1>3, <1>8 DEF EnterConditions, At, States, Conditions
    <2> QED
      BY <1>6, <2>1
  <1>9. CASE ForInit
    <2>1. "IN_LOOP_INIT" \in States(prog[1].type) /\ Stay("IN_LOOP_INIT")
      BY <1>3, <1>9 DEF ForInit, At, States, Conditions
    <2> QED
      BY <1>6, <2>1
  <1>10. CASE ForEach
    BY <1>2, <1>3, <1>4, <1>10, EachStep DEF ForEach, At
  <1>11. CASE NormalNext
    <2>1. "NORMAL" \in States(prog[1].type) /\ Stay("NORMAL")
      BY <1>3, <1>11 DEF NormalNext, At, States, Conditions
    <2> QED
      BY <1>6, <2>1
  <1>12. CASE NormalStop
    BY <1>3, <1>5, <1>12 DEF NormalStop, ShortCircuit
  <1>13. CASE NextCondition \/ ConditionsHold \/ IfConditionFails \/ ElifAndFails
              \/ ElifComparisonFails \/ LoopConditionFails
    BY <1>3, <1>13 DEF NextCondition, ConditionsHold, IfConditionFails, ElifAndFails,
                       ElifComparisonFails, LoopConditionFails, BetweenConditions
  <1>14. CASE IfBlock \/ ElifBlock \/ ElseBlock \/ LoopBlock \/ ForIncrement
    BY <1>3, <1>7, <1>14 DEF IfBlock, ElifBlock, ElseBlock, LoopBlock, ForIncrement, At
  <1> QED
    BY <1>8, <1>9, <1>10, <1>11, <1>12, <1>13, <1>14 DEF VmNext

LEMMA ExecuteStep ==
    ASSUME Inv, Loaded, Execute
    PROVE  Inv'
  <1>1. /\ pc = "execute" /\ LastOK /\ stmts = Parse(prog)
        /\ IF cmds = last.cmd THEN GivenUp ELSE ChosenOK
        /\ UNCHANGED <<prog, stmts, state, end, cur_stmt, cmds, next_cmds, pos>>
        /\ last' = IF cmds = last.cmd THEN last ELSE [cmd |-> cmds, ok |-> status' = 0]
        /\ pc' = IF end \/ next_cmds = 0 THEN "done" ELSE "next"
    BY DEF Inv, ControlOK, Execute
  <1>2. status' \in Outcomes \union {0, SuccessEnd} /\ exited' \in BOOLEAN
        /\ item' \in Nat /\ seen' \in Seq(Nat)
    <2>1. pos \in Nat /\ item \in Nat /\ seen \in Seq(Nat)
      BY DEF Inv, TypeOK
    <2>2. item' \in Nat
      BY <2>1 DEF Execute, Bound
    <2>3. seen' \in Seq(Nat)
      BY <2>1, AppendProperties DEF Execute
    <2> QED
      BY <2>2, <2>3 DEF Execute
  <1>3. stmts' = Parse(prog')
    BY <1>1
  <1>4. CASE cmds = last.cmd
    <2>1. last' = last /\ pc' = "done" /\ last.cmd # None /\ Stopped
      BY <1>1, <1>4 DEF GivenUp
    <2>2. TypeOK'
      BY <1>1, <1>2, <2>1 DEF Inv, TypeOK
    <2>3. LastOK' /\ Stopped'
      BY <1>1, <2>1 DEF LastOK, Stopped, Expected, Type
    <2> QED
      BY <1>3, <2>1, <2>2, <2>3 DEF Inv, ControlOK
  <1>5. CASE cmds # last.cmd
    <2>1. PICK b \in 1..Len(prog) : \E i \in 1..Len(prog[b].cmds) :
            /\ cmds = <<b, i>> /\ cmds = Expected /\ state \in States(prog[b].type)
            /\ IF end \/ next_cmds = 0 THEN Final(cmds) ELSE Pointed(b, i)
      BY <1>1, <1>5 DEF ChosenOK
    <2>2. PICK i \in 1..Len(prog[b].cmds) :
            /\ cmds = <<b, i>> /\ cmds = Expected /\ state \in States(prog[b].type)
            /\ IF end \/ next_cmds = 0 THEN Final(cmds) ELSE Pointed(b, i)
      BY <2>1
    <2>3. Linked /\ Leads(b)
      BY GraphOK
    <2>4. last' = [cmd |-> <<b, i>>, ok |-> status' = 0]
      BY <1>1, <1>5, <2>2
    <2>5. LastOK'
      <3>1. last'.cmd = <<b, i>> /\ last'.ok = (status' = 0) /\ last'.ok \in BOOLEAN
        BY <2>4
      <3>2. prog[b].type \in Sure => status' = 0
        <4>1. cmds[1] = b
          BY <2>2
        <4>2. Type(cmds[1]) = prog[b].type
          BY <2>3, <4>1 DEF Linked
        <4>3. Type(cmds[1]) \in Sure => ~exited' /\ status' = 0
          BY DEF Execute
        <4> QED
          BY <4>2, <4>3
      <3> QED
        BY <1>1, <3>1, <3>2 DEF LastOK
    <2>6. last'.cmd # None
      BY <2>3, <2>4 DEF None, Linked
    <2>7. CASE end \/ next_cmds = 0
      <3>1. pc' = "done" /\ Final(<<b, i>>)
        BY <1>1, <2>2, <2>7
      <3>2. Stopped'
        <4>1. last'.cmd = <<b, i>> /\ last'.ok \in BOOLEAN
          BY <2>4
        <4>2. NextCommand(prog, <<b, i>>, last'.ok) = Done
          BY <3>1, <4>1 DEF Final
        <4>3. Expected' = Done
          BY <1>1, <2>6, <4>1, <4>2 DEF Expected
        <4> QED
          BY <4>3 DEF Stopped
      <3>3. TypeOK'
        BY <1>1, <1>2, <3>1 DEF Inv, TypeOK
      <3> QED
        BY <1>3, <2>5, <2>6, <3>1, <3>2, <3>3 DEF Inv, ControlOK
    <2>8. CASE ~(end \/ next_cmds = 0)
      <3>1. pc' = "next" /\ Pointed(b, i)
        BY <1>1, <2>2, <2>8
      <3>2. cur_stmt \in 1..Len(prog) /\ next_cmds \in DOMAIN stmts[cur_stmt].cmds
        <4>1. \A a \in 1..Len(prog) : /\ Len(prog[a].cmds) \in Nat \ {0}
                                      /\ stmts[a].cmds = prog[a].cmds
                                      /\ DOMAIN prog[a].cmds = 1..Len(prog[a].cmds)
          BY <2>3, ProgramOK, LenProperties DEF Linked, Loaded
        <4>2. CASE i < Len(prog[b].cmds)
          <5>1. Len(prog[b].cmds) \in Nat
            BY <4>1
          <5>2. i + 1 \in 1..Len(prog[b].cmds)
            BY <4>2, <5>1
          <5> QED
            BY <3>1, <4>1, <4>2, <5>2 DEF Pointed
        <4>3. CASE ~(i < Len(prog[b].cmds))
          <5>1. cur_stmt = After(b) /\ next_cmds = 1 /\ After(b) \in 1..Len(prog)
            BY <2>3, <3>1, <4>3 DEF Pointed, Leads
          <5>2. 1 \in 1..Len(prog[After(b)].cmds)
            BY <4>1, <5>1
          <5> QED
            BY <4>1, <5>1, <5>2
        <4> QED
          BY <4>2, <4>3
      <3>3. TypeOK'
        <4>1. cur_stmt # 0
          BY <2>3, <3>2 DEF Linked
        <4> QED
          BY <1>1, <1>2, <3>1, <3>2, <4>1 DEF Inv, TypeOK
      <3>4. NextOK'
        <4>1. /\ cmds' = <<b, i>> /\ last'.cmd = <<b, i>> /\ (last'.ok <=> status' = 0) /\ ~end'
              /\ Pointed(b, i)' /\ state' \in States(prog'[b].type)
          <5>1. Pointed(b, i)'
            BY <1>1, <3>1 DEF Pointed, After
          <5>2. last'.cmd = <<b, i>> /\ (last'.ok <=> status' = 0)
            BY <2>4
          <5> QED
            BY <1>1, <2>2, <2>8, <5>1, <5>2
        <4> QED
          BY <1>1, <4>1 DEF NextOK
      <3> QED
        BY <1>3, <2>5, <2>6, <3>1, <3>3, <3>4 DEF Inv, ControlOK
    <2> QED
      BY <2>7, <2>8
  <1> QED
    BY <1>4, <1>5

LEMMA InitOK ==
    ASSUME Init, Plain(prog)
    PROVE  Inv
  <1>1. Loaded
    BY DEF Init, Loaded
  <1>2. Linked
    BY <1>1, GraphOK
  <1>3. TypeOK
    <2>1. 1 \in 1..Len(prog) /\ 1 \in 0..Len(stmts) /\ Len(prog[1].cmds) \in Nat \ {0}
          /\ prog[1].cmds \in Seq(Command)
      <3>1. Len(prog) \in Nat \ {0}
        BY <1>2 DEF Linked
      <3>2. 1 \in 1..Len(prog)
        BY <3>1
      <3>3. Len(stmts) \in Nat /\ 1 \in 1..Len(stmts)
        BY <1>2, <3>2 DEF Linked
      <3> QED
        BY <1>1, <3>2, <3>3, ProgramOK DEF Loaded
    <2>2. 1 \in DOMAIN stmts[1].cmds
      <3>1. DOMAIN prog[1].cmds = 1..Len(prog[1].cmds)
        BY <2>1, LenProperties
      <3>2. 1 \in 1..Len(prog[1].cmds)
        BY <2>1
      <3> QED
        BY <1>2, <2>1, <3>1, <3>2 DEF Linked
    <2>3. \A s \in DOMAIN stmts : {stmts[s].right, stmts[s].left, stmts[s].prev} \subseteq 0..Len(stmts)
      BY <1>2 DEF Linked
    <2>4. /\ prog \in Programs /\ pc = "next" /\ status = 0 /\ state = "NORMAL" /\ end = FALSE
          /\ exited = FALSE /\ pos = 0 /\ cur_stmt = 1 /\ next_cmds = 1
      BY DEF Init
    <2>5. /\ cur_stmt \in 0..Len(stmts)
          /\ pc = "next" => cur_stmt # 0 /\ next_cmds \in DOMAIN stmts[cur_stmt].cmds
      BY <2>1, <2>2, <2>4
    <2>6. pc = "execute" => cmds[2] \in DOMAIN stmts[cmds[1]].cmds
      BY <2>4
    <2>7. status \in Outcomes \union {0, FailureContinue, SuccessEnd} /\ pos \in Nat
          /\ end \in BOOLEAN /\ exited \in BOOLEAN /\ item \in Nat /\ seen \in Seq(Nat)
      <3>1. 0 \in Nat /\ <<>> \in Seq(Nat) /\ item = 0 /\ seen = <<>>
        BY DEF Init
      <3> QED
        BY <2>4, <3>1
    <2> QED
      BY <2>3, <2>4, <2>5, <2>6, <2>7 DEF TypeOK
  <1>4. ControlOK
    BY DEF Init, ControlOK, LastOK, FirstOK
  <1> QED
    BY <1>1, <1>3, <1>4 DEF Inv, Loaded

LEMMA StepOK ==
    ASSUME Inv, \A p \in Programs : Plain(p), [Next]_vars
    PROVE  Inv'
  <1>1. Loaded
    BY DEF Loaded, Inv, TypeOK
  <1>2. CASE VmNext
    <2>1. Next0
      <3>1. VmNext => pc = "next"
        BY DEF VmNext, EnterConditions, NextCondition, ConditionsHold, IfConditionFails, ElifAndFails,
               ElifComparisonFails, IfBlock, ElifBlock, ElseBlock, LoopConditionFails, LoopBlock,
               ForInit, ForEach, ForIncrement, NormalStop, NormalNext, BetweenConditions, At
      <3> QED
        BY <1>1, <1>2, <3>1 DEF Next0
    <2>2. CASE last.cmd = None /\ FirstOK
      BY <1>2, <2>1, <2>2, FirstStep
    <2>3. CASE \E b, i : Between(b, i)
      <3>1. PICK b, i : Between(b, i)
        BY <2>3
      <3>2. CASE EnterConditions \/ NextCondition
        BY <2>1, <3>1, <3>2, ConditionsStep
      <3>3. CASE ConditionsHold
        BY <2>1, <3>1, <3>3, ConditionsHoldStep
      <3>4. CASE IfConditionFails \/ ElifAndFails \/ ElifComparisonFails
        BY <2>1, <3>1, <3>4, IfConditionsStep
      <3>5. CASE IfBlock \/ ElifBlock
        BY <2>1, <3>1, <3>5, IfBlocksStep
      <3>6. CASE ElseBlock
        BY <2>1, <3>1, <3>6, ElseStep
      <3>7. CASE LoopConditionFails \/ LoopBlock
        BY <2>1, <3>1, <3>7, LoopStep
      <3>8. CASE ForInit \/ ForIncrement
        BY <2>1, <3>1, <3>8, ForStep
      <3>9. CASE ForEach
        BY <2>1, <3>1, <3>9, ForEachStep
      <3>10. CASE NormalStop \/ NormalNext
        BY <2>1, <3>1, <3>10, NormalStep
      <3> QED
        BY <1>2, <3>2, <3>3, <3>4, <3>5, <3>6, <3>7, <3>8, <3>9, <3>10 DEF VmNext
    <2> QED
      BY <2>1, <2>2, <2>3, NextCases
  <1>3. CASE Execute
    BY <1>1, <1>3, ExecuteStep
  <1>4. CASE UNCHANGED vars
    BY <1>4 DEF Inv, TypeOK, ControlOK, LastOK, FirstOK, NextOK, Pointed, After, ChosenOK, Expected,
                Final, GivenUp, Stopped, Type, vars, vmData, history
  <1> QED
    BY <1>2, <1>3, <1>4 DEF Next, Ended

-----------------------------------------------------------------------------
(* The items of a for-each.                                                *)

UpTo(n) == [k \in 1..n |-> k]

Items == prog[1].items

\* Between two commands the variable holds the item at pos, which the body has yet to see
\* after the binding and has seen after its own run.
EachNextOK ==
    \/ last.cmd = None /\ pos = 0 /\ seen = UpTo(0)
    \/ cmds = <<1, 1>> /\ pos \in 1..Items /\ item = pos /\ seen = UpTo(pos - 1)
    \/ cmds = <<2, 1>> /\ pos \in 1..Items /\ seen = UpTo(pos)

EachChosenOK ==
    /\ pos \in 1..Items /\ seen = UpTo(pos - 1)
    /\ \/ cmds = <<1, 1>> /\ state = "IN_LOOP_EACH_INIT"
       \/ cmds = <<2, 1>> /\ state # "IN_LOOP_EACH_INIT" /\ item = pos

EachOK ==
    PlainForEach(prog) =>
        /\ pc = "next" => EachNextOK
        /\ pc = "execute" => EachChosenOK
        /\ pc = "failed" => seen = UpTo(Items)

LEMMA UpToOK ==
    ASSUME NEW n \in Nat
    PROVE  UpTo(n) \in Seq(Nat) /\ Len(UpTo(n)) = n /\ Append(UpTo(n), n + 1) = UpTo(n + 1)
  <1>1. UpTo(n) \in [1..n -> Nat] /\ UpTo(n + 1) \in [1..(n + 1) -> Nat]
    BY DEF UpTo
  <1>2. UpTo(n) \in Seq(Nat) /\ UpTo(n + 1) \in Seq(Nat)
    BY <1>1, SeqDef
  <1>3. Len(UpTo(n)) = n /\ Len(UpTo(n + 1)) = n + 1
    BY <1>1, <1>2, LenProperties
  <1>4. /\ Append(UpTo(n), n + 1) \in Seq(Nat) /\ Len(Append(UpTo(n), n + 1)) = n + 1
        /\ \A k \in 1..n : Append(UpTo(n), n + 1)[k] = UpTo(n)[k]
        /\ Append(UpTo(n), n + 1)[n + 1] = n + 1
    BY <1>2, <1>3, AppendProperties
  <1>5. \A k \in 1..(n + 1) : Append(UpTo(n), n + 1)[k] = UpTo(n + 1)[k]
    <2>1. \A k \in 1..(n + 1) : k \in 1..n \/ k = n + 1
      OBVIOUS
    <2> QED
      BY <1>4, <2>1 DEF UpTo
  <1>6. Append(UpTo(n), n + 1) = UpTo(n + 1)
    BY <1>2, <1>3, <1>4, <1>5, SeqEqual
  <1> QED
    BY <1>2, <1>3, <1>6

\* What is known of a for-each program.
LEMMA EachProgram ==
    ASSUME prog \in Programs, Plain(prog), PlainForEach(prog)
    PROVE  /\ Len(prog) = 2 /\ DOMAIN prog = 1..2 /\ Items \in Nat
           /\ prog[1].type = "FOR_EACH_INIT" /\ prog[2].type = "FOR"
           /\ Len(prog[1].cmds) = 1 /\ Len(prog[2].cmds) = 1
           /\ IsLoop(prog) /\ After(1) = 2 /\ After(2) = 1
  <1>1. /\ Len(prog) = 2 /\ prog[1].type = "FOR_EACH_INIT" /\ prog[2].type = "FOR"
        /\ Len(prog[1].cmds) = 1 /\ Len(prog[2].cmds) = 1
    BY DEF PlainForEach, Single
  <1>2. DOMAIN prog = 1..2 /\ Items \in Nat
    BY <1>1, ProgramOK DEF Items
  <1>3. IsLoop(prog) /\ ~IsIf(prog) /\ Start(prog) = 1
    BY <1>1 DEF IsLoop, IsIf, Start
  <1> QED
    BY <1>1, <1>2, <1>3 DEF After

\* The language never lets a for-each end.
LEMMA EachGoesOn ==
    ASSUME prog \in Programs, Plain(prog), PlainForEach(prog), LastOK
    PROVE  Expected # Done
           /\ (last.cmd = None \/ last.cmd \in {<<1, 1>>, <<2, 1>>})
           /\ ~Final(<<1, 1>>) /\ ~Final(<<2, 1>>)
  <1>1. /\ Len(prog) = 2 /\ DOMAIN prog = 1..2
        /\ prog[1].type = "FOR_EACH_INIT" /\ prog[2].type = "FOR"
        /\ Len(prog[1].cmds) = 1 /\ Len(prog[2].cmds) = 1
    BY EachProgram
  <1>2. \A b \in 1..2, ok \in BOOLEAN : Fitting(prog[b], 1, ok) = {}
    BY <1>1 DEF Fitting
  <1>3. \A ok \in BOOLEAN : /\ NextCommand(prog, <<1, 1>>, ok) = <<2, 1>>
                            /\ NextCommand(prog, <<2, 1>>, ok) = <<1, 1>>
    BY <1>1, <1>2 DEF NextCommand, AfterList
  <1>4. last.cmd = None \/ (last.cmd \in {<<1, 1>>, <<2, 1>>} /\ last.ok \in BOOLEAN)
    <2>1. ASSUME NEW b \in 1..2, NEW i \in 1..Len(prog[b].cmds) PROVE (b = 1 \/ b = 2) /\ i = 1
      <3>1. b = 1 \/ b = 2
        OBVIOUS
      <3>2. Len(prog[b].cmds) = 1
        BY <1>1, <3>1
      <3>3. \A n : n = 1 => 1..n = {1}
        OBVIOUS
      <3> QED
        BY <3>1, <3>2, <3>3
    <2>2. CASE last.cmd = None
      BY <2>2
    <2>3. CASE last.cmd # None
      <3>1. PICK b \in 1..2 : \E i \in 1..Len(prog[b].cmds) :
                last.cmd = <<b, i>> /\ last.ok \in BOOLEAN
        BY <1>1, <2>3 DEF LastOK
      <3>2. PICK i \in 1..Len(prog[b].cmds) : last.cmd = <<b, i>> /\ last.ok \in BOOLEAN
        BY <3>1
      <3> QED
        BY <2>1, <3>2
    <2> QED
      BY <2>2, <2>3
  <1>5. <<1, 1>> # Done /\ <<2, 1>> # Done
    BY DEF Done
  <1>6. Expected # Done
    BY <1>3, <1>4, <1>5 DEF Expected, First
  <1>7. ~Final(<<1, 1>>) /\ ~Final(<<2, 1>>)
    BY <1>3, <1>5 DEF Final
  <1> QED
    BY <1>4, <1>6, <1>7

LEMMA EachInit ==
    ASSUME Init, \A p \in Programs : Plain(p)
    PROVE  EachOK
  <1>1. pc = "next" /\ last.cmd = None /\ pos = 0 /\ seen = <<>>
    BY DEF Init
  <1>2. UpTo(0) = <<>>
    BY UpToOK, EmptySeq
  <1> QED
    BY <1>1, <1>2 DEF EachOK, EachNextOK

\* vm_next chooses the body after a binding, and takes the next item otherwise.
LEMMA EachVmNext ==
    ASSUME Next0, PlainForEach(prog), EachNextOK, VmNext
    PROVE  EachOK'
  <1>1. /\ Loaded /\ Linked /\ LastOK /\ prog' = prog
        /\ Len(prog) = 2 /\ Items \in Nat /\ pos \in Nat
        /\ prog[1].type = "FOR_EACH_INIT" /\ prog[2].type = "FOR"
        /\ Len(prog[1].cmds) = 1 /\ Len(prog[2].cmds) = 1
        /\ After(1) = 2 /\ After(2) = 1
    <2>1. prog' = prog
      BY DEF VmNext, EnterConditions, NextCondition, ConditionsHold, IfConditionFails, ElifAndFails,
             ElifComparisonFails, IfBlock, ElifBlock, ElseBlock, LoopConditionFails, LoopBlock,
             ForInit, ForEach, ForIncrement, NormalStop, NormalNext, Stay, Choose, GiveUp,
             ReturnNull, TakeElse, TakeElif, TakeElseLast
    <2> QED
      BY <2>1, GraphOK, EachProgram DEF Next0, Loaded, Inv, ControlOK, TypeOK
  <1>2. Type(1) = "FOR_EACH_INIT" /\ Type(2) = "FOR"
    BY <1>1 DEF Linked
  <1>3. \/ last.cmd = None /\ FirstOK
        \/ \E b \in 1..2 : Between(b, 1)
    <2>1. ASSUME NEW b, NEW i, Between(b, i) PROVE b \in 1..2 /\ i = 1
      <3>1. b \in 1..2 /\ i \in 1..Len(prog[b].cmds)
        BY <1>1, <2>1 DEF Between
      <3>2. Len(prog[b].cmds) = 1
        BY <1>1, <3>1
      <3> QED
        BY <3>1, <3>2
    <2> QED
      BY <2>1, NextCases
  <1>4. CASE Between(1, 1)
    <2>1. cur_stmt = 2 /\ next_cmds = 1 /\ cmds = <<1, 1>> /\ last.cmd = <<1, 1>> /\ Ok
      BY <1>1, <1>4 DEF Between, Pointed, Sure, Ok
    <2>2. \E st : st # "IN_LOOP_EACH_INIT" /\ Choose(2, 1, st)
      <3>1. LoopBlock
        BY <1>2, <2>1 DEF VmNext, EnterConditions, NextCondition, ConditionsHold, IfConditionFails,
               ElifAndFails, ElifComparisonFails, IfBlock, ElifBlock, ElseBlock, LoopConditionFails,
               ForInit, ForEach, ForIncrement, NormalStop, NormalNext, BetweenConditions, At,
               Conditions
      <3> QED
        BY <2>1, <3>1 DEF LoopBlock, Stay
    <2>3. cmds' = <<2, 1>> /\ state' # "IN_LOOP_EACH_INIT" /\ pc' = "execute"
          /\ UNCHANGED <<pos, item, seen>>
      BY <2>2 DEF Choose, history
    <2>4. pos \in 1..Items /\ item = pos /\ seen = UpTo(pos - 1)
      BY <2>1 DEF EachNextOK, None
    <2> QED
      BY <1>1, <2>3, <2>4 DEF EachOK, EachChosenOK, Items
  <1>5. CASE (last.cmd = None /\ FirstOK) \/ Between(2, 1)
    <2>1. cur_stmt = 1 /\ (state = "NORMAL" <=> last.cmd = None)
      BY <1>1, <1>5 DEF FirstOK, Between, Pointed, States, None, Conditions
    <2>2. pos \in 0..Items /\ seen = UpTo(pos) /\ (state = "NORMAL" => pos = 0)
      <3>1. last.cmd = None \/ cmds = <<2, 1>>
        BY <1>5 DEF Between
      <3> QED
        BY <1>1, <1>5, <2>1, <3>1 DEF EachNextOK, Between, FirstOK, None
    <2>3. ForEach
      BY <1>2, <2>1 DEF VmNext, EnterConditions, NextCondition, ConditionsHold, IfConditionFails,
             ElifAndFails, ElifComparisonFails, IfBlock, ElifBlock, ElseBlock, LoopConditionFails,
             LoopBlock, ForInit, ForIncrement, NormalStop, NormalNext, BetweenConditions, At,
             Conditions
    <2>4. pos' = pos + 1 /\ seen' = seen
      BY <2>2, <2>3 DEF ForEach, history
    <2>5. CASE pos' <= Items
      <3>1. cmds' = <<1, 1>> /\ state' = "IN_LOOP_EACH_INIT" /\ pc' = "execute"
        BY <2>3, <2>5 DEF ForEach, Items
      <3>2. pos' \in 1..Items /\ seen' = UpTo(pos' - 1)
        BY <1>1, <2>2, <2>4, <2>5
      <3> QED
        BY <1>1, <3>1, <3>2 DEF EachOK, EachChosenOK, Items
    <2>6. CASE ~(pos' <= Items)
      <3>1. pc' = "failed"
        BY <2>3, <2>6 DEF ForEach, Items
      <3>2. pos = Items
        BY <1>1, <2>2, <2>4, <2>6
      <3> QED
        BY <1>1, <2>2, <2>4, <3>1, <3>2 DEF EachOK, Items
    <2> QED
      BY <2>5, <2>6
  <1>6. 1..2 = {1, 2}
    OBVIOUS
  <1> QED
    BY <1>3, <1>4, <1>5, <1>6

\* The binding takes the item at pos, and the body sees it.
LEMMA EachExecute ==
    ASSUME Inv, Loaded, PlainForEach(prog), EachChosenOK, Execute
    PROVE  EachOK'
  <1>1. /\ Linked /\ Items \in Nat /\ pos \in Nat /\ LastOK
        /\ prog[1].type = "FOR_EACH_INIT" /\ prog[2].type = "FOR" /\ Len(prog) = 2
    BY GraphOK, EachProgram DEF Loaded, Inv, TypeOK, ControlOK
  <1>2. Type(1) = "FOR_EACH_INIT" /\ Type(2) = "FOR"
    BY <1>1 DEF Linked
  <1>3. UNCHANGED <<prog, cmds, pos, state>>
    BY DEF Execute
  <1>4. last'.cmd = cmds
    BY DEF Execute
  <1>5. pc' \in {"next", "done"}
    BY DEF Execute
  <1>6. CASE cmds = <<1, 1>> /\ state = "IN_LOOP_EACH_INIT"
    <2>1. item' = pos /\ seen' = seen
      BY <1>1, <1>2, <1>6 DEF Execute, Bound
    <2> QED
      BY <1>3, <1>5, <1>6, <2>1 DEF EachOK, EachNextOK, EachChosenOK, Items
  <1>7. CASE cmds = <<2, 1>> /\ state # "IN_LOOP_EACH_INIT" /\ item = pos
    <2>1. seen' = Append(seen, pos)
      BY <1>1, <1>2, <1>7 DEF Execute
    <2>2. seen' = UpTo(pos)
      <3>1. pos - 1 \in Nat /\ (pos - 1) + 1 = pos /\ seen = UpTo(pos - 1)
        BY <1>1 DEF EachChosenOK
      <3> QED
        BY <2>1, <3>1, UpToOK
    <2> QED
      BY <1>3, <1>5, <1>7, <2>2 DEF EachOK, EachNextOK, EachChosenOK, Items
  <1> QED
    BY <1>6, <1>7 DEF EachChosenOK

LEMMA EachNext ==
    ASSUME Inv, EachOK, \A p \in Programs : Plain(p), [Next]_vars
    PROVE  EachOK'
  <1>1. Loaded
    BY DEF Loaded, Inv, TypeOK
  <1>2. CASE UNCHANGED vars
    BY <1>2 DEF EachOK, EachNextOK, EachChosenOK, Items, vars, vmData, history
  <1>3. CASE ~PlainForEach(prog)
    <2>1. prog' = prog
      BY DEF Next, Execute, Ended, vars,
             VmNext, EnterConditions, NextCondition, ConditionsHold, IfConditionFails, ElifAndFails,
             ElifComparisonFails, IfBlock, ElifBlock, ElseBlock, LoopConditionFails, LoopBlock,
             ForInit, ForEach, ForIncrement, NormalStop, NormalNext, Stay, Choose, GiveUp,
             ReturnNull, TakeElse, TakeElif, TakeElseLast
    <2> QED
      BY <1>3, <2>1 DEF EachOK
  <1>4. CASE PlainForEach(prog) /\ VmNext
    <2>1. pc = "next"
      BY <1>4 DEF VmNext, EnterConditions, NextCondition, ConditionsHold, IfConditionFails,
               ElifAndFails, ElifComparisonFails, IfBlock, ElifBlock, ElseBlock, LoopConditionFails,
               LoopBlock, ForInit, ForEach, ForIncrement, NormalStop, NormalNext,
               BetweenConditions, At
    <2> QED
      BY <1>1, <1>4, <2>1, EachVmNext DEF EachOK, Next0
  <1>5. CASE PlainForEach(prog) /\ Execute
    <2>1. pc = "execute"
      BY <1>5 DEF Execute
    <2> QED
      BY <1>1, <1>5, <2>1, EachExecute DEF EachOK
  <1> QED
    BY <1>2, <1>3, <1>4, <1>5 DEF Next, Ended

LEMMA EachItems ==
    ASSUME Inv, EachOK, \A p \in Programs : Plain(p)
    PROVE  EachItemOnce
  <1> SUFFICES ASSUME prog[1].type = "FOR_EACH_INIT"
               PROVE  /\ seen = [n \in 1..Len(seen) |-> n]
                      /\ pc \in {"done", "failed"} => Len(seen) = prog[1].items
    BY DEF EachItemOnce
  <1>1. Loaded
    BY DEF Loaded, Inv, TypeOK
  <1>2. PlainForEach(prog)
    BY <1>1 DEF Loaded, Plain, PlainIf, PlainWhile, PlainFor, PlainNormal, IfType
  <1>3. LastOK /\ pc \in {"next", "execute", "done", "failed"} /\ Items \in Nat /\ pos \in Nat
    BY <1>1, <1>2, EachProgram DEF Inv, ControlOK, TypeOK, Loaded
  <1>4. pc # "done"
    <2>1. last.cmd # None /\ last.cmd \in {<<1, 1>>, <<2, 1>>} => Type(last.cmd[1]) # "WHILE"
      BY <1>1, <1>2, GraphOK, EachProgram DEF Linked, Loaded
    <2>2. Expected # Done /\ (last.cmd = None \/ last.cmd \in {<<1, 1>>, <<2, 1>>})
      BY <1>1, <1>2, <1>3, EachGoesOn DEF Loaded
    <2> QED
      BY <2>1, <2>2 DEF Inv, ControlOK, Stopped
  <1>5. \E n \in Nat : seen = UpTo(n) /\ (pc = "failed" => n = Items)
    <2>1. CASE pc = "next"
      BY <1>2, <1>3, <2>1 DEF EachOK, EachNextOK
    <2>2. CASE pc = "execute"
      BY <1>2, <1>3, <2>2 DEF EachOK, EachChosenOK
    <2>3. CASE pc = "failed"
      BY <1>2, <1>3, <2>3 DEF EachOK
    <2> QED
      BY <1>3, <1>4, <2>1, <2>2, <2>3
  <1>6. PICK n \in Nat : seen = UpTo(n) /\ (pc = "failed" => n = Items)
    BY <1>5
  <1>7. Len(seen) = n
    BY <1>6, UpToOK
  <1> QED
    BY <1>4, <1>6, <1>7 DEF UpTo, Items

-----------------------------------------------------------------------------
(* The theorems.                                                           *)

\* Whatever its commands return, the virtual machine is where the language says (vm_next, and
\* the loop of vm_run), in every program of the plain shapes.
THEOREM Invariance ==
    ASSUME \A p \in Programs : Plain(p)
    PROVE  Spec => []Inv
  <1>1. Init => Inv
    BY InitOK DEF Init
  <1>2. Inv /\ [Next]_vars => Inv'
    BY StepOK
  <1> QED
    BY <1>1, <1>2, PTL DEF Spec

\* Every member of Vm_Data keeps its range, and vm_next never leaves a NULL statement or a
\* command that is not in its list behind.
THEOREM TypesHold ==
    ASSUME \A p \in Programs : Plain(p)
    PROVE  Spec => []TypeOK
  <1>1. \A p \in Programs : Plain(p)
    OBVIOUS
  <1>2. Spec => []Inv
    BY <1>1, Invariance
  <1>3. Inv => TypeOK
    BY DEF Inv
  <1> QED
    BY <1>2, <1>3, PTL

\* The loop of vm_run ends only where the program ends, or where a while loop's block failed.
THEOREM ProgramsAreRunToTheirEnd ==
    ASSUME \A p \in Programs : Plain(p)
    PROVE  Spec => []StopsAtEnd
  <1>1. \A p \in Programs : Plain(p)
    OBVIOUS
  <1>2. Spec => []Inv
    BY <1>1, Invariance
  <1>3. Inv => StopsAtEnd
    BY DEF Inv, ControlOK, Stopped, StopsAtEnd
  <1> QED
    BY <1>2, <1>3, PTL

\* The body of a for-each loop runs once for each item, in order, bound to that item, and the loop
\* ends only then: whatever the number of items, and whatever the body's runs return.
THEOREM ItemsAreBound ==
    ASSUME \A p \in Programs : Plain(p)
    PROVE  Spec => []EachItemOnce
  <1>1. \A p \in Programs : Plain(p)
    OBVIOUS
  <1>2. Spec => []Inv
    BY <1>1, Invariance
  <1>3. Init => EachOK
    BY <1>1, EachInit
  <1>4. Inv /\ EachOK /\ [Next]_vars => EachOK'
    BY <1>1, EachNext
  <1>5. Inv /\ EachOK => EachItemOnce
    BY <1>1, EachItems
  <1> QED
    BY <1>2, <1>3, <1>4, <1>5, PTL DEF Spec

\* Each command that vm_run executes is the one the language says comes next, but the last one
\* again where vm_next gave up.
THEOREM LanguageIsFollowed ==
    ASSUME \A p \in Programs : Plain(p)
    PROVE  Spec => FollowsLanguage
  <1>1. \A p \in Programs : Plain(p)
    OBVIOUS
  <1>2. Spec => []Inv
    BY <1>1, Invariance
  <1>3. Inv => (Runs /\ cmds # last.cmd => cmds = Expected)
    BY DEF Inv, ControlOK, ChosenOK, Runs
  <1> QED
    BY <1>2, <1>3, PTL DEF FollowsLanguage
=============================================================================
