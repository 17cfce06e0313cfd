---------------------------- MODULE MCMiniterm ----------------------------
(* Small instances of Miniterm for TLC.                                    *)
EXTENDS Miniterm

\* An empty file, and one with a blank line in the middle.
MCFiles == {<<>>, <<"text", "blank", "text">>}
=============================================================================
