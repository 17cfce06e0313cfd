---------------------------- MODULE MCConqueTerm ----------------------------
(* Small instances of ConqueTerm for TLC.                                  *)
EXTENDS ConqueTerm
=============================================================================
