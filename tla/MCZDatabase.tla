---------------------------- MODULE MCZDatabase ----------------------------
(***************************************************************************)
(* A home directory with two directories below it and one elsewhere.       *)
(***************************************************************************)
EXTENDS ZDatabase, TLC

CONSTANTS s1, s2, home, dirA, dirB, tmp, homeTmp, none

MCPaths == {home, dirA, dirB, tmp, homeTmp}
MCDirectories == {home, dirA, dirB, tmp}

\* "a" and "b" are names in home, "/tmp" is absolute.
MCTargets == {"a", "b", "/tmp"}
MCResolve == [x \in MCPaths \X MCTargets |->
    CASE x[2] = "/tmp" -> tmp
      [] x[1] = home /\ x[2] = "a" -> dirA
      [] x[1] = home /\ x[2] = "b" -> dirB
      [] OTHER -> none]

\* What is stored for a text that resolves.  The text of tmp joined to any directory is
\* the path of nothing.
MCJoined == [x \in MCPaths \X MCTargets |->
    CASE x[2] = "/tmp" -> homeTmp
      [] x[2] = "a" -> dirA
      [] OTHER -> dirB]

\* A name matches the paths its letters are in; the path of nothing may score best.
MCFzf == [x \in MCTargets \X MCPaths |->
    CASE x = <<"a", dirA>> -> 3 [] x = <<"a", dirB>> -> 1
      [] x = <<"b", dirB>> -> 3 [] x = <<"/tmp", homeTmp>> -> 3 [] x = <<"a", homeTmp>> -> 4
      [] OTHER -> 0]

ASSUME NamesMatch == TargetsMatch

\* An earlier shell has been to dirA and to tmp, twice: by its path and by its name.
MCFirstFile == <<3, [path |-> dirA, rank |-> 1, last_accessed |-> 0],
                    [path |-> homeTmp, rank |-> 1, last_accessed |-> 0],
                    [path |-> tmp, rank |-> 1, last_accessed |-> 0]>>

\* The shells differ in nothing but their names.
ShellSymmetry == Permutations(Shells)
=============================================================================
