------------------------- MODULE MCMultiplexServer -------------------------
(* The programs that wait for many descriptors at once and then serve them  *)
(* in turn, the echo servers and sock, on small instances.  They do not     *)
(* interact: a behaviour is one of them, and the others have ended.         *)
EXTENDS MultiplexServer, SockLoop

VARIABLE suite   \* the program of this behaviour

mcVars == <<suite, vars, loopVars>>

MCInit ==
    /\ suite \in {"server", "sockloop"}
    /\ IF suite = "server" THEN Init
       ELSE /\ MultiplexStart("accept error")
            /\ prog = "select"
    /\ IF suite = "sockloop" THEN LoopInit ELSE LoopStart(CHOOSE p \in LoopProgs : TRUE, "died")

MCNext ==
    \/ suite = "server" /\ Next /\ UNCHANGED <<suite, loopVars>>
    \/ suite = "sockloop" /\ LoopNext /\ UNCHANGED <<suite, vars>>

MCSpec == MCInit /\ [][MCNext]_mcVars /\ WF_vars(ServerStep) /\ LoopFair
=============================================================================
