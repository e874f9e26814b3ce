----------------------------- MODULE MCHistory -----------------------------
(***************************************************************************)
(* Three letters; a line goes on from another, and one is of two lines.    *)
(* The file ends one line in a carriage return, and one is too long for    *)
(* the trie.                                                               *)
(* Every key hashes to the same entry of a table.                          *)
(***************************************************************************)
EXTENDS History, TLC

CONSTANTS s1, s2

MCNoKey == <<"NULL">>
MCHashIndex(key, capacity) == capacity - 1
MCRank == [x \in {"a", "b", "k"} |-> CASE x = "a" -> 1 [] x = "b" -> 2 [] OTHER -> 3]
MCLines == {<<"a">>, <<"a", "b">>, <<"a", "\n", "b">>}
MCCleanLine == <<"k">>
MCRemoveLine == <<"k", "a">>
MCAddLine == <<"k", "b">>
MCFirstFile ==
    <<"a", "b", "\n", "a", "a", "\n", "a", "b", "\r", "\n", "a", "b", "b", "b", "\n">>

\* The shells differ in nothing but their names.
ShellSymmetry == Permutations(Shells)
=============================================================================
