---------------------------- MODULE MCAcceptPool ----------------------------
(* Small instances of AcceptPool for TLC: all nine programs at once.        *)
EXTENDS AcceptPool

MCServers == DOMAIN Loops
=============================================================================
