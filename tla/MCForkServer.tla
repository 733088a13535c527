---------------------------- MODULE MCForkServer ----------------------------
(* Small instances of ForkServer for TLC: one program of each kind.  The    *)
(* others have exactly the traits, so the states, of one of these.          *)
EXTENDS ForkServer

MCPrograms == {"tcpserv01", "tcpserv02", "tcpserv03", "tcpserv04", "udpservselect01",
               "tcp_serve", "threads_tcpserv02"}

ASSUME EveryKind == {Traits[p] : p \in MCPrograms} = {Traits[p] : p \in DOMAIN Traits}
=============================================================================
