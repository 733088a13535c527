-------------------------------- MODULE Ping --------------------------------
(***************************************************************************)
(* The two ping programs: ping/bsdping.c, which counts replies in a table   *)
(* of bits, and the ping/ of the book for IPv4 and IPv6.  SIGALRM sends the *)
(* requests while the main program is anywhere in its receive loop; the raw *)
(* socket delivers every ICMP message of the host, late, twice or never.    *)
(***************************************************************************)
EXTENDS Integers, FiniteSets

CONSTANTS PingProgs,   \* which programs to look at
          PingSlots,   \* mx_dup_ck, and the values of the 16-bit icmp_seq
          PingMaxSent, \* bound: requests sent
          PingMaxGot   \* bound: replies read

ASSUME PingAssumption ==
    /\ PingProgs \subseteq {"bsdping", "ping4", "ping6"}
    /\ PingSlots \in Nat \ {0} /\ PingMaxSent \in Nat /\ PingMaxGot \in Nat

VARIABLES pProg, pOpt,   \* the program and its options
          pPc,           \* where the main program is
          pSent,         \* ntransmitted, nsent
          pRecv, pRep,   \* nreceived, nrepeats
          pTbl,          \* rcvd_tbl: the slots whose bit is set
          pByte,         \* the byte SET() has read and not written back
          pPkt,          \* the reply being processed: the number of its request
          pNet,          \* requests whose reply may still arrive
          pAlrm,         \* what SIGALRM does: "off", "onalrm", "onint", "sig_alrm"
          pTimer,        \* the timer that sends it: "off", "interval", "once"
          pGot, pSeen,   \* replies of ours read; requests they were for
          pSpoilt        \* a reply was a whole table late, or a CLR() was overwritten

pingVars == <<pProg, pOpt, pPc, pSent, pRecv, pRep, pTbl, pByte, pPkt, pNet, pAlrm, pTimer,
              pGot, pSeen, pSpoilt>>

\* The options that matter: -c count (0: none), -f, -i (which alone changes the period of
\* the timer only), -l preload.
PingOpts == {o \in [count : 0 .. 2, flood : BOOLEAN, interval : BOOLEAN, preload : 0 .. 1] : o.interval => o.flood}
NoPkt == PingMaxSent + 1
Slot(n) == n % PingSlots

PingStart(prog, opt, where) ==
    /\ pProg = prog /\ pOpt = opt /\ pPc = where
    /\ pSent = 0 /\ pRecv = 0 /\ pRep = 0 /\ pTbl = {} /\ pByte = {} /\ pPkt = NoPkt
    /\ pNet = {} /\ pAlrm = "off" /\ pTimer = "off" /\ pGot = 0 /\ pSeen = {} /\ pSpoilt = FALSE

PingInit == \E prog \in PingProgs, opt \in PingOpts : PingStart(prog, opt, "start")

-----------------------------------------------------------------------------
(* Sending                                                                  *)

\* pinger(): clear the bit of the new sequence number, then send; the network may lose it.
pinger_NoClear == pSent < PingMaxSent /\ pSent' = pSent + 1 /\ pNet' \in {pNet, pNet \cup {pSent}} /\ UNCHANGED pTbl
pinger ==
    /\ pSent < PingMaxSent
    /\ pSent' = pSent + 1
    /\ pTbl' = pTbl \ {Slot(pSent)}
    /\ pNet' \in {pNet, pNet \cup {pSent}}

\* send_v4() and send_v6() keep no table.
send_v4 == pSent < PingMaxSent /\ pSent' = pSent + 1 /\ pNet' \in {pNet, pNet \cup {pSent}}
send_v6 == pSent < PingMaxSent /\ pSent' = pSent + 1 /\ pNet' \in {pNet, pNet \cup {pSent}}

\* main() of bsdping: the options, then the preloaded requests, before any handler is set.
BeginPing ==
    /\ pPc = "start" /\ pProg = "bsdping"
    /\ pPc' = IF pOpt.flood /\ pOpt.interval THEN "exit" ELSE "preload"
    /\ UNCHANGED <<pProg, pOpt, pSent, pRecv, pRep, pTbl, pByte, pPkt, pNet, pAlrm, pTimer, pGot, pSeen, pSpoilt>>

Preload ==
    /\ pPc = "preload" /\ pSent < pOpt.preload /\ pinger
    /\ UNCHANGED <<pProg, pOpt, pPc, pRecv, pRep, pByte, pPkt, pAlrm, pTimer, pGot, pSeen, pSpoilt>>

SetTimer ==
    /\ pPc = "preload" /\ pSent = pOpt.preload
    /\ pPc' = "top"
    /\ IF pOpt.flood THEN UNCHANGED <<pAlrm, pTimer>> ELSE pAlrm' = "onalrm" /\ pTimer' = "interval"
    /\ UNCHANGED <<pProg, pOpt, pSent, pRecv, pRep, pTbl, pByte, pPkt, pNet, pGot, pSeen, pSpoilt>>

\* onalrm(): send, or after the last request leave the rest to onint() in a while.
onalrm_KeepsHandler ==
    IF pOpt.count = 0 \/ pSent < pOpt.count THEN pinger /\ UNCHANGED <<pAlrm, pTimer>>
    ELSE pTimer' = "once" /\ UNCHANGED <<pAlrm, pSent, pTbl, pNet>>
onalrm ==
    IF pOpt.count = 0 \/ pSent < pOpt.count THEN pinger /\ UNCHANGED <<pAlrm, pTimer>>
    ELSE pAlrm' = "onint" /\ pTimer' = "once" /\ UNCHANGED <<pSent, pTbl, pNet>>

\* sig_alrm(): send the next request and set the alarm for the one after it.
sig_alrm ==
    /\ IF pProg = "ping4" THEN send_v4 ELSE send_v6
    /\ pTimer' = "once" /\ UNCHANGED <<pTbl, pAlrm>>

\* SIGALRM interrupts the main program wherever it is.
Alarm ==
    /\ pTimer # "off" /\ pPc # "exit"
    /\ \/ pAlrm = "onalrm" /\ onalrm /\ UNCHANGED pPc
       \/ pAlrm = "onint" /\ pPc' = "exit" /\ pTimer' = "off" /\ UNCHANGED <<pSent, pTbl, pNet, pAlrm>>
       \/ pAlrm = "sig_alrm" /\ sig_alrm /\ UNCHANGED pPc
    /\ UNCHANGED <<pProg, pOpt, pRecv, pRep, pByte, pPkt, pGot, pSeen, pSpoilt>>

\* SIGINT: onint() prints the summary and the signal ends the process.
onint ==
    /\ pPc \notin {"start", "preload", "exit"} /\ pProg = "bsdping"
    /\ pPc' = "exit" /\ pTimer' = "off"
    /\ UNCHANGED <<pProg, pOpt, pSent, pRecv, pRep, pTbl, pByte, pPkt, pNet, pAlrm, pGot, pSeen, pSpoilt>>

\* main() and readloop() of the book's ping: the first request is sent by calling sig_alrm().
readloop ==
    /\ pPc = "start" /\ pProg # "bsdping"
    /\ pPc' = "recv" /\ pAlrm' = "sig_alrm" /\ pTimer' = "once"
    /\ IF pProg = "ping4" THEN send_v4 ELSE send_v6
    /\ UNCHANGED <<pProg, pOpt, pRecv, pRep, pTbl, pByte, pPkt, pGot, pSeen, pSpoilt>>

-----------------------------------------------------------------------------
(* Receiving                                                                *)

\* The flood loop sends and waits a moment; otherwise recvfrom() blocks.
FloodSend ==
    /\ pPc = "top"
    /\ IF pOpt.flood THEN pinger /\ pPc' \in {"top", "recv"} ELSE pPc' = "recv" /\ UNCHANGED <<pSent, pTbl, pNet>>
    /\ UNCHANGED <<pProg, pOpt, pRecv, pRep, pByte, pPkt, pAlrm, pTimer, pGot, pSeen, pSpoilt>>

\* A reply, after which the network may hold another copy of it; the book's ping prints it.
Receive(n) ==
    /\ pPc = "recv" /\ n \in pNet /\ pGot < PingMaxGot
    /\ pNet' \in {pNet, pNet \ {n}}
    /\ IF pProg = "bsdping" THEN pPc' = "pr_pack" /\ pPkt' = n /\ UNCHANGED <<pGot, pSeen>>
       ELSE pGot' = pGot + 1 /\ pSeen' = pSeen \cup {n} /\ UNCHANGED <<pPc, pPkt>>
    /\ UNCHANGED <<pProg, pOpt, pSent, pRecv, pRep, pTbl, pByte, pAlrm, pTimer, pSpoilt>>

\* A message for another process, not an echo reply or too short: pr_pack(), proc_v4() and
\* proc_v6() print it at most.
Ignore ==
    /\ pPc = "recv" /\ pPc' = IF pProg = "bsdping" THEN "check" ELSE "recv"
    /\ UNCHANGED <<pProg, pOpt, pSent, pRecv, pRep, pTbl, pByte, pPkt, pNet, pAlrm, pTimer, pGot, pSeen, pSpoilt>>

\* pr_pack(): the reply is counted before the table is asked.
CountReply ==
    /\ pPc = "pr_pack" /\ pPc' = "tst"
    /\ pRecv' = pRecv + 1 /\ pGot' = pGot + 1 /\ pSeen' = pSeen \cup {pPkt}
    /\ UNCHANGED <<pProg, pOpt, pSent, pRep, pTbl, pByte, pPkt, pNet, pAlrm, pTimer, pSpoilt>>

Late(n) == n + PingSlots < pSent

\* TST(): a duplicate, or SET() reads the byte of its bit.
TestBit ==
    /\ pPc = "tst" /\ pSpoilt' = (pSpoilt \/ Late(pPkt))
    /\ IF Slot(pPkt) \in pTbl
       THEN pRep' = pRep + 1 /\ pRecv' = pRecv - 1 /\ pPc' = "check" /\ UNCHANGED pByte
       ELSE pByte' = pTbl /\ pPc' = "set" /\ UNCHANGED <<pRecv, pRep>>
    /\ UNCHANGED <<pProg, pOpt, pSent, pTbl, pPkt, pNet, pAlrm, pTimer, pGot, pSeen>>

\* SET() writes the byte back: a CLR() of the handler in between is lost, unless the machine
\* sets the bit in one instruction.
SetBit ==
    /\ pPc = "set" /\ pPc' = "check"
    /\ pTbl' \in {pByte \cup {Slot(pPkt)}, pTbl \cup {Slot(pPkt)}}
    /\ pSpoilt' = (pSpoilt \/ Late(pPkt) \/ pTbl' # pTbl \cup {Slot(pPkt)})
    /\ pByte' = {} /\ pPkt' = NoPkt
    /\ UNCHANGED <<pProg, pOpt, pSent, pRecv, pRep, pNet, pAlrm, pTimer, pGot, pSeen>>

CheckCount ==
    /\ pPc = "check"
    /\ IF pOpt.count # 0 /\ pRecv >= pOpt.count THEN pPc' = "exit" /\ pTimer' = "off" ELSE pPc' = "top" /\ UNCHANGED pTimer
    /\ pPkt' = NoPkt
    /\ UNCHANGED <<pProg, pOpt, pSent, pRecv, pRep, pTbl, pByte, pNet, pAlrm, pGot, pSeen, pSpoilt>>

PingMain == BeginPing \/ Preload \/ SetTimer \/ readloop \/ FloodSend \/ CountReply \/ TestBit \/ SetBit \/ CheckCount

PingNext == PingMain \/ Alarm \/ onint \/ Ignore \/ \E n \in 0 .. PingMaxSent : Receive(n)

\* The program runs when it can and the kernel delivers SIGALRM when the timer expires.
PingFair == WF_pingVars(PingMain) /\ WF_pingVars(Alarm)

PingSpec == PingInit /\ [][PingNext]_pingVars /\ PingFair

-----------------------------------------------------------------------------
(* Properties.                                                              *)

\* Whatever SIGALRM interrupts, nreceived is the number of requests answered and nrepeats
\* the number of further answers to them (bsdping.c:484-508), unless a reply came a whole
\* table late or SET() overwrote a CLR() (bsdping.c:506 and 419); a summary printed
\* by a handler in the middle of pr_pack() may count a duplicate as received.
PingCounts ==
    /\ pProg = "bsdping" => pRecv + pRep = pGot
    /\ pProg = "bsdping" /\ ~pSpoilt =>
          pRecv - Cardinality(pSeen) \in (IF pPkt = NoPkt THEN {0} ELSE {0, 1})
    /\ \A n \in pSeen : n < pSent

\* bsdping -c ends, however many replies are lost: after the last request onalrm() hands
\* SIGALRM to onint() (bsdping.c:372-394).  With -f nothing stops the loop before enough
\* replies have come.
PingEnds == pProg = "bsdping" /\ pOpt.count > 0 /\ ~pOpt.flood ~> pPc = "exit"
=============================================================================
