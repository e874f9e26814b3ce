----------------------------- MODULE MCEditor -----------------------------
(* A short alphabet: a letter, a space, brackets, a letter of two bytes whose capital *)
(* takes one.                                                                         *)
EXTENDS Editor, TLC

MCByte == {"a", "A", "L", "c", "I", " ", "(", ")", "^", "\n"}
MCLetter == <<"L", "c">>
MCRunes == {<<"a">>, <<" ">>, MCLetter}
MCLeading == {"L"}
MCContinuation == {"c"}
MCFollow == "L" :> 1
MCSeparators == {<<" ">>, <<"(">>, <<")">>, <<"^">>, <<"c">>}
MCOpen == <<"(">>
MCClose == <<")">>
MCUpper == (<<"a">> :> <<"A">>) @@ (MCLetter :> <<"I">>)
MCLower == (<<"A">> :> <<"a">>) @@ (<<"I">> :> MCLetter)
MCSuffixes == {<<"a", " ">>}
MCEscaped == <<"^">>
MCFirstHistory == << <<"a", " ", "L", "c">>, <<"(", "a", ")", " ", "L", "c">> >>

ASSUME GivenIsWhole == TextIsWhole
=============================================================================
