---------------------------- MODULE MCSoleInput ----------------------------
(* Small instances of SoleInput for TLC.                                   *)
EXTENDS SoleInput

\* One plain character per call, or two at once (a paste): "a" takes one byte in
\* utf-8, "e" (an accented letter of the extended ASCII set) two.
MCTexts == {<<"a">>, <<"e">>, <<"a", "e">>}
MCWidth == [s \in Symbol |-> IF s = "e" THEN 2 ELSE 1]
MCAscii == [s \in Symbol |-> 1]
=============================================================================
