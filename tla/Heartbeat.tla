------------------------------ MODULE Heartbeat ------------------------------
(***************************************************************************)
(* oob/: an echo client and its server that find out with out-of-band data  *)
(* whether the other end is still there.  SIGALRM counts the seconds in     *)
(* nprobes and, in the client, sends a probe; SIGURG echoes it and sets     *)
(* nprobes back.  Neither signal blocks the other.  TCP keeps the last      *)
(* out-of-band byte only.                                                   *)
(***************************************************************************)
EXTENDS Integers

CONSTANTS HbMaxCli, HbMaxServ,   \* maxnprobes, maxnalarms
          HbFlight,              \* urgent notices under way that TCP does not merge
          HbMarks                \* bound: the ends a notice may reach before its byte does

ASSUME HbAssumption == HbMaxCli \in Nat \ {0} /\ HbMaxServ \in Nat \ {0} /\ HbFlight \in Nat \ {0}
                       /\ HbMarks \subseteq {"cli", "srv"}

VARIABLES hEnd,     \* the two processes
          hCut,     \* the network has failed
          hSpoilt,  \* the client's nprobes is more than it should be: sig_urg() ran inside
                    \* ++nprobes and what it reset is stored again, or a probe came before
                    \* the server's F_SETOWN
          hQuiet,   \* the server's SIGALRMs since it saw the last probe, or -1 if what
                    \* sig_urg() then reset was stored again
          hLate     \* SIGALRM came while alarm(0) was being called

hbVars == <<hEnd, hCut, hSpoilt, hQuiet, hLate>>

\* A process: its main program and, when that has ended, why; what runs, "main", "urg" or
\* "alrm"; where sig_urg() is; the nprobes that sig_alrm() has read and not stored yet, or
\* -1; nprobes; the alarm, "off", "set" or expired and "pending"; SIGURG is pending; the
\* out-of-band byte, "none" (or read already), "mark" (announced) or "byte"; urgent notices under way to it.
Process(pc, alarm) ==
    [pc |-> pc, top |-> "main", urgpc |-> "none", loaded |-> -1, nprobes |-> 0, alarm |-> alarm,
     urg |-> FALSE, oob |-> "none", in |-> 0]

Ends == {"cli", "srv"}
Peer(p) == IF p = "cli" THEN "srv" ELSE "cli"
Alive(p) == hEnd[p].pc \in {"start", "run", "off", "shut"}

heartbeat_cli == Process("run", "set")
HbStart(cli, srv) ==
    /\ hEnd = [p \in Ends |-> IF p = "cli" THEN cli ELSE srv]
    /\ hCut = FALSE /\ hSpoilt = FALSE /\ hQuiet = 0 /\ hLate = FALSE

HbInit == HbStart(heartbeat_cli, Process("start", "off"))

-----------------------------------------------------------------------------
(* The network                                                              *)

\* A segment with the urgent pointer arrives, perhaps without the byte; a byte that has not
\* been read is lost for it.
UrgArrives(p, oob) ==
    /\ Alive(p) /\ hEnd[p].pc # "start" /\ hEnd[p].in > 0
    /\ hEnd' = [hEnd EXCEPT ![p].in = @ - 1, ![p].urg = TRUE, ![p].oob = oob]
    /\ UNCHANGED <<hCut, hSpoilt, hQuiet, hLate>>

\* Before F_SETOWN nobody gets SIGURG for it.
UnheardProbe ==
    /\ hEnd["srv"].pc = "start" /\ hEnd["srv"].in > 0
    /\ hEnd' = [hEnd EXCEPT !["srv"].in = @ - 1, !["srv"].oob = "byte"] /\ hSpoilt' = TRUE
    /\ UNCHANGED <<hCut, hQuiet, hLate>>

ByteArrives(p) ==
    /\ Alive(p) /\ ~hCut /\ hEnd[p].oob = "mark"
    /\ hEnd' = [hEnd EXCEPT ![p].oob = "byte"]
    /\ UNCHANGED <<hCut, hSpoilt, hQuiet, hLate>>

Cut ==
    /\ ~hCut /\ hCut' = TRUE /\ hEnd' = [p \in Ends |-> [hEnd[p] EXCEPT !.in = 0]]
    /\ UNCHANGED <<hSpoilt, hQuiet, hLate>>

-----------------------------------------------------------------------------
(* The signal handlers                                                      *)

\* What the process goes on with when a handler returns: the other one, if it was interrupted
Below(e, done) == IF done = "urg" /\ e.loaded # -1 THEN "alrm"
                  ELSE IF done = "alrm" /\ e.urgpc # "none" THEN "urg" ELSE "main"

\* A signal is delivered, also on top of the handler of the other one.
DeliverUrg(p) ==
    /\ Alive(p) /\ hEnd[p].urg /\ hEnd[p].urgpc = "none"
    /\ hEnd' = [hEnd EXCEPT ![p].urg = FALSE, ![p].top = "urg", ![p].urgpc = "recv"]
    /\ UNCHANGED <<hCut, hSpoilt, hQuiet, hLate>>

\* The alarm expires, and sig_alrm() runs up to the reading of nprobes.
DeliverAlrm(p) ==
    /\ Alive(p) /\ hEnd[p].alarm # "off" /\ hEnd[p].loaded = -1
    /\ hEnd' = [hEnd EXCEPT ![p].alarm = "off", ![p].top = "alrm", ![p].loaded = hEnd[p].nprobes]
    /\ UNCHANGED <<hCut, hSpoilt, hQuiet, hLate>>

\* Send() with MSG_OOB by p, which is then e.  After a shutdown() it ends in SIGPIPE, and so
\* it may when the other end has gone.
SendOob(p, e) ==
    \/ /\ e.pc # "shut"
       /\ hEnd' = [hEnd EXCEPT ![p] = e, ![Peer(p)].in = IF hCut \/ ~Alive(Peer(p)) \/ @ = HbFlight THEN @ ELSE @ + 1]
    \/ /\ e.pc = "shut" \/ (~Alive(Peer(p)) /\ ~hCut)
       /\ hEnd' = [hEnd EXCEPT ![p] = Process("sigpipe", "off")]

\* recv() with MSG_OOB: EWOULDBLOCK is no error, but a byte that has been read already is one.
RecvOob(p) ==
    LET e == hEnd[p] IN
    /\ Alive(p) /\ e.top = "urg" /\ e.urgpc = "recv"
    /\ hEnd' = [hEnd EXCEPT ![p] =
                   IF e.oob \in {"byte", "mark"}
                   THEN [e EXCEPT !.urgpc = IF p = "srv" THEN "send" ELSE "reset",
                                  !.oob = IF @ = "byte" THEN "none" ELSE @]
                   ELSE Process("recverr", "off")]
    /\ UNCHANGED <<hCut, hSpoilt, hQuiet, hLate>>

\* The server's sig_urg() sends the byte back, whatever it is.
EchoOob ==
    /\ Alive("srv") /\ hEnd["srv"].top = "urg" /\ hEnd["srv"].urgpc = "send"
    /\ SendOob("srv", [hEnd["srv"] EXCEPT !.urgpc = "reset"])
    /\ UNCHANGED <<hCut, hSpoilt, hQuiet, hLate>>

\* nprobes = 0
Zero(n) == 0
UrgReturns(p) ==
    LET e == hEnd[p] IN
    /\ Alive(p) /\ e.top = "urg" /\ e.urgpc = "reset"
    /\ hEnd' = [hEnd EXCEPT ![p] = [e EXCEPT !.nprobes = Zero(@), !.urgpc = "none", !.top = Below(e, "urg")]]
    /\ hSpoilt' = IF p = "cli" THEN e.loaded > 0 ELSE hSpoilt
    /\ hQuiet' = IF p = "cli" THEN hQuiet ELSE IF e.loaded > 0 THEN -1 ELSE 0
    /\ UNCHANGED <<hCut, hLate>>

\* sig_alrm() from ++nprobes to alarm(nsec), for the next second
Counted_NoAlarm(e) == [e EXCEPT !.nprobes = e.loaded + 1, !.loaded = -1, !.top = Below(e, "alrm")]
Counted(e) == [e EXCEPT !.nprobes = e.loaded + 1, !.loaded = -1, !.top = Below(e, "alrm"), !.alarm = "set"]

sig_alrm_cli ==
    LET e == hEnd["cli"] IN
    /\ Alive("cli") /\ e.top = "alrm"
    /\ IF e.loaded + 1 > HbMaxCli THEN hEnd' = [hEnd EXCEPT !["cli"] = Process("unreachable", "off")]
       ELSE SendOob("cli", Counted(e))
    /\ UNCHANGED <<hCut, hSpoilt, hQuiet, hLate>>

\* The server's sends nothing.
sig_alrm_serv ==
    LET e == hEnd["srv"] IN
    /\ Alive("srv") /\ e.top = "alrm"
    /\ hEnd' = [hEnd EXCEPT !["srv"] = IF e.loaded + 1 > HbMaxServ THEN Process("noprobes", "off") ELSE Counted(e)]
    /\ hQuiet' = IF hQuiet = -1 THEN -1 ELSE hQuiet + 1
    /\ UNCHANGED <<hCut, hSpoilt, hLate>>

-----------------------------------------------------------------------------
(* The main programs                                                        *)

InMain(p) == Alive(p) /\ hEnd[p].top = "main"

\* F_SETOWN and alarm(), before str_echo() begins
heartbeat_serv ==
    /\ InMain("srv") /\ hEnd["srv"].pc = "start"
    /\ hEnd' = [hEnd EXCEPT !["srv"].pc = "run", !["srv"].alarm = "set"]
    /\ UNCHANGED <<hCut, hSpoilt, hQuiet, hLate>>

\* str_cli(): the end of standard input and alarm(0), which does not take back a SIGALRM that
\* has been generated meanwhile,
AlarmOff ==
    /\ InMain("cli") /\ hEnd["cli"].pc = "run"
    /\ hLate' \in BOOLEAN
    /\ hEnd' = [hEnd EXCEPT !["cli"].pc = "off", !["cli"].alarm = IF hLate' THEN "pending" ELSE "off"]
    /\ UNCHANGED <<hCut, hSpoilt, hQuiet>>

\* and Shutdown().
Shutdown ==
    /\ InMain("cli") /\ hEnd["cli"].pc = "off" /\ hEnd' = [hEnd EXCEPT !["cli"].pc = "shut"]
    /\ UNCHANGED <<hCut, hSpoilt, hQuiet, hLate>>

\* Readline() returns 0, in str_cli() or in str_echo(): the other end has shut down or ended.
ReadEof(p) ==
    /\ InMain(p) /\ hEnd[p].pc \in {"run", "shut"}
    /\ ~hCut /\ hEnd[Peer(p)].pc \notin {"start", "run", "off"} /\ hEnd[p].in = 0
    /\ hEnd' = [hEnd EXCEPT ![p] = Process(IF p = "cli" /\ @.pc = "run" THEN "premature" ELSE "normal", "off")]
    /\ UNCHANGED <<hCut, hSpoilt, hQuiet, hLate>>

HbHandlers(p) ==
    \/ DeliverUrg(p) \/ RecvOob(p) \/ UrgReturns(p) \/ DeliverAlrm(p)
    \/ p = "cli" /\ sig_alrm_cli
    \/ p = "srv" /\ (sig_alrm_serv \/ EchoOob)
HbMain(p) == ReadEof(p) \/ (p = "cli" /\ Shutdown) \/ (p = "srv" /\ heartbeat_serv)

HbNext ==
    \/ \E p \in Ends : HbHandlers(p) \/ HbMain(p) \/ ByteArrives(p)
                       \/ UrgArrives(p, "byte") \/ (p \in HbMarks /\ UrgArrives(p, "mark"))
    \/ AlarmOff \/ Cut \/ UnheardProbe

\* Timers expire, signals are delivered and the processes run; the network owes nothing.
HbFair == \A p \in Ends : WF_hbVars(HbHandlers(p)) /\ WF_hbVars(HbMain(p))

HbSpec == HbInit /\ [][HbNext]_hbVars /\ HbFair

-----------------------------------------------------------------------------
(* Properties.                                                              *)

\* The client does not call a server unreachable that has answered all it was sent: unless
\* the network has failed, the server has ended, sig_urg() has interrupted ++nprobes
\* (heartbeatcli.c:43), or a probe came before F_SETOWN (heartbeatserv.c:19), a probe or its
\* answer is still under way (heartbeatcli.c:32-37, heartbeatserv.c:31-37).  The server says
\* that there are no probes only after maxnalarms alarms and one more without any
\* (heartbeatserv.c:44), unless sig_urg() has interrupted its ++nprobes; whether the client
\* was merely slow is a matter of time and not looked at.  Nor does SIGPIPE end a client that
\* has turned the heartbeat off, but for a SIGALRM that came during alarm(0)
\* (strcliselect02.c:39-40).
Becomes(p, why) == hEnd[p].pc # why /\ hEnd'[p].pc = why
HbTruthful ==
    [][/\ Becomes("cli", "unreachable") =>
             \/ hCut \/ ~Alive("srv") \/ hSpoilt
             \/ \E p \in Ends : hEnd[p].in > 0 \/ hEnd[p].urg \/ hEnd[p].urgpc # "none"
       /\ Becomes("srv", "noprobes") => hQuiet = -1 \/ hQuiet >= HbMaxServ
       /\ Becomes("cli", "sigpipe") => ~Alive("srv") \/ hLate]_hbVars

\* The verdicts are true, and after a failure of the network both ends stop (heartbeatcli.c:43-46, heartbeatserv.c:44-47),
\* except for a client that has turned its heartbeat off and waits for ever
\* (strcliselect02.c:39).
HbVerdicts == HbTruthful /\ (hCut ~> ~Alive("srv") /\ hEnd["cli"].pc # "run")
=============================================================================
