----------------------------- MODULE Traceroute -----------------------------
(***************************************************************************)
(* traceroute/: probes with a growing TTL, three to a hop, and for each one *)
(* a wait of three seconds for the ICMP error it causes.  The raw socket    *)
(* also gets the late answers to earlier probes and the errors of other     *)
(* processes; the wait ends with SIGALRM, whose handler only sets a flag.   *)
(***************************************************************************)
EXTENDS Integers

CONSTANTS TrFamilies,  \* which of recv_v4() and recv_v6() to look at
          TrHops,      \* hops to the destination
          TrMaxTtl,    \* max_ttl
          TrProbes     \* nprobes

ASSUME TrAssumption ==
    /\ TrFamilies \subseteq {"v4", "v6"}
    /\ TrHops \in Nat \ {0} /\ TrMaxTtl \in Nat \ {0} /\ TrProbes \in Nat \ {0}

VARIABLES tFam,    \* the address family
          tPc,     \* "send", "test", "enter", "recv", "matched" or "exit"
          tTtl, tProbe, tSeq,
          tGot,    \* gotalarm
          tArmed,  \* the alarm is running
          tNet,    \* ICMP errors that may still arrive
          tRet,    \* ret
          tDone,   \* done
          tShown   \* the last probe reported and its result

traceVars == <<tFam, tPc, tTtl, tProbe, tSeq, tGot, tArmed, tNet, tRet, tDone, tShown>>

\* The return values: -3, -2, -1, and any ICMP code.
Timeout == -3
InTransit == -2
PortUnreach == -1
OtherCode == 0
AnyRet == {Timeout, InTransit, PortUnreach, OtherCode}

NoProbe == [seq |-> 0, ret |-> Timeout]

TrStart(fam, where) ==
    /\ tFam = fam /\ tPc = where /\ tTtl = 1 /\ tProbe = 0 /\ tSeq = 0
    /\ tGot = TRUE /\ tArmed = FALSE                 \* sig_alrm() is called once by hand
    /\ tNet = {} /\ tRet = Timeout /\ tDone = 0 /\ tShown = NoProbe

TrInit == \E fam \in TrFamilies : TrStart(fam, "send")

-----------------------------------------------------------------------------
(* The network                                                              *)

\* What a probe may cause: nothing, an error of a router on the way, the port
\* unreachable error of the destination, or some other unreachable error.
TtlOf(seq) == (seq - 1) \div TrProbes + 1
Answers(seq) ==
    {[seq |-> seq, ret |-> r] : r \in IF TtlOf(seq) < TrHops THEN {InTransit, OtherCode} ELSE {PortUnreach, OtherCode}}

\* An ICMP error for another process (seq 0), and one too short to show its UDP ports.
Foreign == {[seq |-> 0, ret |-> r] : r \in {InTransit, PortUnreach}}

-----------------------------------------------------------------------------
(* traceloop()                                                              *)

StartWait_NoAlarm == tGot' = FALSE /\ UNCHANGED tArmed
StartWait == tGot' = FALSE /\ tArmed' = TRUE

\* Send the next probe and enter recv_v4() or recv_v6(): gotalarm = 0, alarm(3).
SendProbe ==
    /\ tPc = "send" /\ tTtl <= TrMaxTtl /\ ~(tProbe = 0 /\ tDone > 0)
    /\ tSeq' = tSeq + 1
    /\ \E answer \in {{}} \cup {{a} : a \in Answers(tSeq + 1)} : tNet' = tNet \cup answer
    /\ StartWait /\ tPc' = "test"
    /\ UNCHANGED <<tFam, tTtl, tProbe, tRet, tDone, tShown>>

\* Print the result; the next probe, and after the last one the next TTL.
Report(code) ==
    /\ tShown' = [seq |-> tSeq, ret |-> code]
    /\ tDone' = IF code = PortUnreach THEN tDone + 1 ELSE tDone
    /\ tProbe' = (tProbe + 1) % TrProbes
    /\ tTtl' = IF tProbe + 1 = TrProbes THEN tTtl + 1 ELSE tTtl
    /\ tPc' = "send"

EndTrace ==
    /\ tPc = "send" /\ tPc' = "exit"
    /\ tTtl > TrMaxTtl \/ (tProbe = 0 /\ tDone > 0)
    /\ UNCHANGED <<tFam, tTtl, tProbe, tSeq, tGot, tArmed, tNet, tRet, tDone, tShown>>

-----------------------------------------------------------------------------
(* recv_v4() and recv_v6()                                                  *)

\* The flag is tested first, recvfrom() is called afterwards.
TestAlarm ==
    /\ tPc = "test"
    /\ IF tGot THEN Report(Timeout) ELSE tPc' = "enter" /\ UNCHANGED <<tTtl, tProbe, tDone, tShown>>
    /\ UNCHANGED <<tFam, tSeq, tGot, tArmed, tNet, tRet>>

EnterRecv ==
    /\ tPc = "enter" /\ tPc' = "recv"
    /\ UNCHANGED <<tFam, tTtl, tProbe, tSeq, tGot, tArmed, tNet, tRet, tDone, tShown>>

\* SIGALRM sets the flag and interrupts recvfrom(), if the process is in it.
sig_alrm_trace ==
    /\ tArmed /\ tArmed' = FALSE /\ tGot' = TRUE
    /\ tPc' = IF tPc = "recv" THEN "test" ELSE tPc
    /\ UNCHANGED <<tFam, tTtl, tProbe, tSeq, tNet, tRet, tDone, tShown>>

\* The UDP header inside the ICMP error holds the destination port of the probe.
MatchesProbe_SameHost(m) == m.seq # 0
MatchesProbe(m) == m.seq = tSeq

recv_v4(m) ==
    IF MatchesProbe(m) THEN tRet' = m.ret /\ tPc' = "matched" ELSE tPc' = "test" /\ UNCHANGED tRet

\* recv_v6() leaves the loop at every time exceeded error: the if at line 49 has no braces,
\* and when it is not for this probe ret has no value.
recv_v6(m) ==
    CASE MatchesProbe(m) -> tRet' = m.ret /\ tPc' = "matched"
      [] ~MatchesProbe(m) /\ m.ret = InTransit -> tRet' \in AnyRet /\ tPc' = "matched"
      [] OTHER -> tPc' = "test" /\ UNCHANGED tRet

Arrive(m) ==
    /\ tPc = "recv"
    /\ IF tFam = "v4" THEN recv_v4(m) ELSE recv_v6(m)
    /\ tNet' = tNet \ {m}
    /\ UNCHANGED <<tFam, tTtl, tProbe, tSeq, tGot, tArmed, tDone, tShown>>

\* A message that is too short, or not one of the two errors
ArriveOther ==
    /\ tPc = "recv" /\ tPc' = "test"
    /\ UNCHANGED <<tFam, tTtl, tProbe, tSeq, tGot, tArmed, tNet, tRet, tDone, tShown>>

\* alarm(0) and return
ReturnRecv ==
    /\ tPc = "matched" /\ tArmed' = FALSE /\ tRet' = Timeout
    /\ Report(tRet)
    /\ UNCHANGED <<tFam, tSeq, tGot, tNet>>

TrMain == SendProbe \/ EndTrace \/ TestAlarm \/ EnterRecv \/ ReturnRecv

TrNext == TrMain \/ sig_alrm_trace \/ ArriveOther \/ \E m \in tNet \cup Foreign : Arrive(m)

TrFair == WF_traceVars(TrMain) /\ WF_traceVars(sig_alrm_trace)

TrSpec == TrInit /\ [][TrNext]_traceVars /\ TrFair

-----------------------------------------------------------------------------
(* Properties.                                                              *)

\* What recv_v4.c:5-10 returns for a probe is what happened to that very probe: a late
\* answer to an earlier one is never taken for its own, and the trace is not at its
\* destination before a probe has got there (traceloop.c:71-72).
TraceTruthful ==
    tFam = "v4" =>
       /\ tShown.ret # Timeout => tShown \in Answers(tShown.seq)
       /\ tDone > 0 => TtlOf(tSeq) >= TrHops

\* The trace ends, even if no answer ever comes, unless SIGALRM came between the test of
\* gotalarm and recvfrom() (recv_v4.c:25-28): then recvfrom() waits for a message that
\* need not come.
TraceEnds == <>(tPc = "exit" \/ (tPc \in {"enter", "recv"} /\ tGot /\ ~tArmed))

\* recv_v6.c:5-10: the caller is done only when the destination's port unreachable error
\* has come, that is when a probe has got as far as the destination.
V6DoneAtDestination == tDone > 0 => TtlOf(tSeq) >= TrHops
=============================================================================
