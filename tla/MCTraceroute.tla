---------------------------- MODULE MCTraceroute ----------------------------
(* Traceroute alone, for TLC.                                               *)
EXTENDS Traceroute
=============================================================================
