---------------------------- MODULE MCSoleScreen ----------------------------
(* Small instances of SoleScreen for TLC.                                  *)
EXTENDS SoleScreen

\* A window that can be narrowed, kept and widened.
MCWidths == 1..3
=============================================================================
