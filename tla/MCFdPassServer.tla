--------------------------- MODULE MCFdPassServer ---------------------------
(* Small instances of FdPassServer for TLC.                                 *)
EXTENDS FdPassServer

=============================================================================
