----------------------------- MODULE MCUnixPty -----------------------------
(* Small instances of UnixPty for TLC.                                     *)
EXTENDS UnixPty

MCSlices == <<1, 2>>
=============================================================================
