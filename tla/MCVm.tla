-------------------------------- MODULE MCVm --------------------------------
(***************************************************************************)
(* The programs Vm is checked on.                                          *)
(***************************************************************************)
EXTENDS Vm

CONSTANTS MaxConditions,   \* commands in one list of conditions
          MaxCommands      \* commands in one and-or list elsewhere

Joined(join, math) == [join |-> join, math |-> math]
MCBlock(type, list) == [type |-> type, cmds |-> list]
One == <<Joined("none", FALSE)>>

\* One connective throughout.
Uniform(n, joins, math) ==
    UNION {{<<Joined("none", FALSE)>> \o [i \in 1..(k - 1) |-> Joined(j, m)] :
               j \in joins, m \in math} : k \in 1..n}

\* A list of conditions: all "||", or all "&&" with the later ones comparisons or not.
ConditionLists == Uniform(MaxConditions, {"and"}, BOOLEAN) \union
                  Uniform(MaxConditions, {"or"}, {FALSE})
PlainConditionLists == Uniform(MaxConditions, {"and", "or"}, {FALSE})

Concat(A, B) == {a \o b : a \in A, b \in B}
Blocks(type, lists) == {<<MCBlock(type, l)>> : l \in lists}

\* Elif conditions with a comparison among the later ones, except where the virtual
\* machine takes the else although another elif is left.
IfPrograms(bodies) ==
    LET elif(lists) == Concat(Blocks("ELIF_CONDITIONS", lists), Blocks("ELIF", bodies))
        plain == elif(PlainConditionLists)
        any == elif(ConditionLists)
        else == Blocks("ELSE", bodies)
    IN  Concat(Concat(Blocks("IF_CONDITIONS", ConditionLists), Blocks("IF", bodies)),
               {<<>>} \union else \union any \union Concat(any, any)
               \union Concat(any, else) \union Concat(Concat(plain, plain), else))

WhilePrograms(bodies) ==
    Concat(Blocks("WHILE_CONDITIONS", ConditionLists),
           Blocks("WHILE", bodies) \union Concat(Blocks("WHILE", bodies), Blocks("WHILE", bodies)))

ForPrograms(bodies) ==
    Concat(Concat(Blocks("FOR_INIT", {One}), Blocks("FOR_CONDITIONS", ConditionLists)),
           Concat(Blocks("FOR", bodies), Blocks("FOR_INCREMENT", {One})))

ForEachPrograms(bodies) ==
    {<<[type |-> "FOR_EACH_INIT", cmds |-> One, items |-> n]>> \o b :
        n \in 0..3, b \in Blocks("FOR", bodies)}

NormalPrograms == Blocks("NORMAL", Uniform(MaxCommands, {"and", "or"}, {FALSE}))

Structured(bodies) ==
    IfPrograms(bodies) \union WhilePrograms(bodies) \union ForPrograms(bodies)
    \union ForEachPrograms(bodies)

\* Lists of && in the blocks that handle them: a while loop's, and the else of an
\* if without elif.
AndPrograms ==
    LET lists == Uniform(MaxCommands, {"and"}, {FALSE})
    IN  Concat(Concat(Blocks("IF_CONDITIONS", ConditionLists), Blocks("IF", {One})),
               Blocks("ELSE", lists))
        \union WhilePrograms(lists)

\* What the virtual machine gets right: one connective in a list, and one command in
\* the block of an if or an elif.
PlainPrograms == Structured({One}) \union AndPrograms \union NormalPrograms

\* They have the shapes that the theorems of VmProofs ask for.
ASSUME PlainShapes == \A p \in PlainPrograms : Plain(p)
=============================================================================
