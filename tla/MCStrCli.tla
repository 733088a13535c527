------------------------------ MODULE MCStrCli ------------------------------
(* Small instances of StrCli for TLC: all twelve versions at once.          *)
EXTENDS StrCli

MCClients == DOMAIN Traits
=============================================================================
