--------------------------- MODULE MCConqueScreen ---------------------------
(* Small instances of ConqueScreen for TLC.                                *)
EXTENDS ConqueScreen

MCHeights == {2, 3}
=============================================================================
