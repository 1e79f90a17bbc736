--------------------------- MODULE MCLanguageServer ---------------------------
(* Instances of LanguageServer for TLC.                                       *)
EXTENDS LanguageServer

CONSTANTS f1, f2

TwoFiles == {f1, f2}
OneOpen == {f1}
ImportsOther == <<f1, f2>>

\* A new line, or nothing: the name is in the text from the start.
Ascii == {<<>>, <<"n">>}

\* The file that is never opened may also bind the new name of a rename.
OnDisk == [f \in File |-> IF f = f1 THEN {<<"a">>} ELSE {<<"a">>, <<"n">>}]
Clash == {<<"n">>}
Lines == {<<"n", "n">>}
=============================================================================
