------------------------- MODULE MCPrethreadServer -------------------------
(* Small instances of PrethreadServer for TLC.                              *)
EXTENDS PrethreadServer

=============================================================================
