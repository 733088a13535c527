----------------------------- MODULE MCPrograms -----------------------------
(* The name library, the sockets of sock, the daytime and the SCTP programs *)
(* on small instances.  They do not interact: each behaviour is one of      *)
(* them, and the variables of the others keep a state in which they ended.  *)
EXTENDS GetAddrInfo, SockOpen, Daytime, Sctp

VARIABLE suite   \* the program of this behaviour

mcVars == <<suite, gaiVars, openVars, dayVars, sctpVars>>

Init ==
    /\ suite \in {"getaddrinfo", "sockopen", "daytime", "sctp"}
    /\ IF suite = "getaddrinfo" THEN GaiInit ELSE GaiStart(CHOOSE g \in GaiImpls : TRUE)
    /\ IF suite = "sockopen" THEN SockInit ELSE SockStart("client", FALSE, {}, "exit")
    /\ IF suite = "daytime" THEN DayInit
       ELSE DayStart(CHOOSE c \in DayClients : TRUE, CHOOSE s \in DayServers : TRUE, "quit")
    /\ IF suite = "sctp" THEN SctpInit
       ELSE SctpStart(ServerOf(CHOOSE n \in SctpServers : TRUE, TRUE), 1, [c \in SctpClients |-> "strcli"], "died")

Next ==
    \/ suite = "getaddrinfo" /\ GaiNext /\ UNCHANGED <<suite, openVars, dayVars, sctpVars>>
    \/ suite = "sockopen" /\ SockNext /\ UNCHANGED <<suite, gaiVars, dayVars, sctpVars>>
    \/ suite = "daytime" /\ DayNext /\ UNCHANGED <<suite, gaiVars, openVars, sctpVars>>
    \/ suite = "sctp" /\ SctpNext /\ UNCHANGED <<suite, gaiVars, openVars, dayVars>>

Spec == Init /\ [][Next]_mcVars /\ SockFair /\ DayFair /\ SctpFair
=============================================================================
