--------------------------- MODULE MCSoleControl ---------------------------
(* SoleControl is finite once its bounds have values: the configurations   *)
(* of this module give them.                                               *)
EXTENDS SoleControl
=============================================================================
