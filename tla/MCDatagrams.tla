---------------------------- MODULE MCDatagrams ----------------------------
(* The programs that talk to an unreliable network and are interrupted by   *)
(* signals, on small instances.  They do not interact: each behaviour is    *)
(* one of them, and the variables of the others keep a state in which that  *)
(* program has ended.                                                       *)
EXTENDS SigioEcho, RttClient, BcastTimeout, Ping, Traceroute

VARIABLE suite   \* the program of this behaviour

mcVars == <<suite, sigioVars, rttVars, bcastVars, pingVars, traceVars>>

Init ==
    /\ suite \in {"sigio", "rtt", "bcast", "ping", "traceroute"}
    /\ IF suite = "sigio" THEN SigioInit ELSE SigioStart("error")
    /\ IF suite = "rtt" THEN RttInit ELSE RttStart("done", MaxNow)
    /\ IF suite = "bcast" THEN BcastInit ELSE BcastStart(CHOOSE p \in Progs : TRUE, "eof")
    /\ IF suite = "ping" THEN PingInit
       ELSE PingStart(CHOOSE p \in PingProgs : TRUE, CHOOSE o \in PingOpts : TRUE, "exit")
    /\ IF suite = "traceroute" THEN TrInit ELSE TrStart(CHOOSE f \in TrFamilies : TRUE, "exit")

Next ==
    \/ suite = "sigio" /\ SigioNext /\ UNCHANGED <<suite, rttVars, bcastVars, pingVars, traceVars>>
    \/ suite = "rtt" /\ RttNext /\ UNCHANGED <<suite, sigioVars, bcastVars, pingVars, traceVars>>
    \/ suite = "bcast" /\ BcastNext /\ UNCHANGED <<suite, sigioVars, rttVars, pingVars, traceVars>>
    \/ suite = "ping" /\ PingNext /\ UNCHANGED <<suite, sigioVars, rttVars, bcastVars, traceVars>>
    \/ suite = "traceroute" /\ TrNext /\ UNCHANGED <<suite, sigioVars, rttVars, bcastVars, pingVars>>

Spec == Init /\ [][Next]_mcVars /\ SigioFair /\ RttFair /\ BcastFair /\ PingFair /\ TrFair
=============================================================================
