---------------------------- MODULE MCWebThreads ----------------------------
(* Small instances of WebThreads for TLC.                                   *)
EXTENDS WebThreads
=============================================================================
