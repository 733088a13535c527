----------------------------- MODULE MCSessions -----------------------------
(* The ICMP daemon, the heartbeat and the Web clients, on small instances.  *)
(* They do not interact: each behaviour is one of them, and the variables   *)
(* of the others keep a state in which their processes have ended.          *)
EXTENDS Icmpd, Heartbeat, WebThreads

VARIABLE suite   \* the programs of this behaviour

mcVars == <<suite, icmpVars, hbVars, webVars>>

Init ==
    /\ suite \in {"icmpd", "heartbeat", "web"}
    /\ IF suite = "icmpd" THEN IcmpInit
       ELSE IcmpStart([c \in IcmpClients |-> "v4"], CHOOSE n \in IcmpSizes : TRUE, "died")
    /\ IF suite = "heartbeat" THEN HbInit ELSE HbStart(Process("normal", "off"), Process("normal", "off"))
    /\ IF suite = "web" THEN WebInit ELSE WebStart(CHOOSE p \in Webs : TRUE, "done")

Next ==
    \/ suite = "icmpd" /\ IcmpNext /\ UNCHANGED <<suite, hbVars, webVars>>
    \/ suite = "heartbeat" /\ HbNext /\ UNCHANGED <<suite, icmpVars, webVars>>
    \/ suite = "web" /\ WebNext /\ UNCHANGED <<suite, icmpVars, hbVars>>

Spec == Init /\ [][Next]_mcVars /\ IcmpFair /\ HbFair
=============================================================================
