---------------------------- MODULE NetworkProofs ----------------------------
(***************************************************************************)
(* Proofs for the programs that talk to an unreliable network: traceroute, *)
(* ping, the reliable UDP client, the broadcast clients and the UDP server *)
(* with signal-driven I/O; and for what is built element by element: the   *)
(* copy loops of sock and the lists of getaddrinfo().                      *)
(***************************************************************************)
EXTENDS SigioEcho, RttClient, BcastTimeout, Ping, Traceroute, SockLoop, GetAddrInfo,
        FiniteSetTheorems, SequenceTheorems, WellFoundedInduction, TLAPS

-----------------------------------------------------------------------------
(* Arithmetic                                                               *)

\* A quotient does not get smaller when the dividend grows.
LEMMA QuotientGrows ==
    ASSUME NEW d \in Nat \ {0}, NEW a \in Nat
    PROVE  a \div d \in Nat /\ (a + 1) \div d \in Nat /\ a \div d <= (a + 1) \div d
<1> DEFINE p == a \div d
           q == (a + 1) \div d
<1>1. p \in Int /\ q \in Int
  OBVIOUS
<1>2. a >= d * p /\ a < d * p + d
  OBVIOUS
<1>3. a + 1 >= d * q /\ a + 1 < d * q + d
  OBVIOUS
<1> HIDE DEF p, q
<1>4. p <= q
  <2> SUFFICES ASSUME q + 1 <= p PROVE FALSE
    BY <1>1
  <2>1. d * (q + 1) <= d * p
    BY <1>1
  <2>2. d * (q + 1) = d * q + d
    BY <1>1
  <2> QED
    BY <1>1, <1>2, <1>3, <2>1, <2>2
<1>5. p >= 0
  <2> SUFFICES ASSUME p + 1 <= 0 PROVE FALSE
    BY <1>1
  <2>1. d * (p + 1) <= 0
    BY <1>1
  <2>2. d * (p + 1) = d * p + d
    BY <1>1
  <2> QED
    BY <1>1, <1>2, <2>1, <2>2
<1> QED
  BY <1>1, <1>4, <1>5 DEF p, q

\* A multiple of d that is smaller than d is 0.
LEMMA SmallMultiple ==
    ASSUME NEW d \in Nat \ {0}, NEW z \in Int, d * z < d, -d < d * z
    PROVE  z = 0
<1>1. ~(1 <= z)
  <2> SUFFICES ASSUME 1 <= z PROVE FALSE
    OBVIOUS
  <2>1. d * 1 <= d * z
    OBVIOUS
  <2> QED
    BY <2>1
<1>2. ~(z <= -1)
  <2> SUFFICES ASSUME z <= -1 PROVE FALSE
    OBVIOUS
  <2>1. d * z <= d * (-1)
    OBVIOUS
  <2> QED
    BY <2>1
<1> QED
  BY <1>1, <1>2

\* Division with remainder.
LEMMA Divided ==
    ASSUME NEW d \in Nat \ {0}, NEW a \in Int
    PROVE  \E p \in Int, r \in 0 .. d - 1 : a = d * p + r /\ r = a % d
<1>1. PICK p, r : p = a \div d /\ r = a % d
  OBVIOUS
<1>2. p \in Int /\ r \in Int /\ 0 <= r /\ r < d
  BY <1>1
<1>3. a = d * p + r
  BY <1>1, <1>2
<1>4. r \in 0 .. d - 1
  BY <1>2
<1> QED
  BY <1>1, <1>2, <1>3, <1>4

\* Numbers with the same remainder are at least the divisor apart.
LEMMA SameRemainder ==
    ASSUME NEW d \in Nat \ {0}, NEW m \in Nat, NEW n \in Nat, m <= n, n < m + d, m % d = n % d
    PROVE  m = n
<1>0. m \in Int /\ n \in Int
  OBVIOUS
<1>1. PICK p \in Int, r \in 0 .. d - 1 : m = d * p + r /\ r = m % d
  BY <1>0, Divided
<1>2. PICK q \in Int, s \in 0 .. d - 1 : n = d * q + s /\ s = n % d
  BY <1>0, Divided
<1>3. n - m = d * (q - p) /\ q - p \in Int
  <2>1. n - m = d * q - d * p /\ d * q \in Int /\ d * p \in Int
    BY <1>1, <1>2
  <2>2. d * q - d * p = d * (q - p)
    OBVIOUS
  <2> QED
    BY <2>1, <2>2
<1>4. q - p = 0
  <2>1. d * (q - p) < d /\ -d < d * (q - p)
    BY <1>3
  <2> QED
    BY <1>3, <2>1, SmallMultiple
<1>5. n - m = d * 0
  BY <1>3, <1>4
<1> QED
  BY <1>5

-----------------------------------------------------------------------------
(* traceroute                                                               *)

\* What a probe caused is one of its answers, and only probes that were sent cause any.
TrNetTrue == \A m \in tNet : m \in Answers(m.seq) /\ m.seq \in 1 .. tSeq

\* In recv_v4() a probe is under way; what the loop is left with is an answer to it.
TrProbing == tPc \notin {"send", "exit"} => tSeq > 0
TrMatched == tFam = "v4" /\ tPc = "matched" => [seq |-> tSeq, ret |-> tRet] \in Answers(tSeq)
TrReached == tFam = "v4" /\ tDone > 0 => tSeq > 0 /\ TtlOf(tSeq) >= TrHops
TrReported == tFam = "v4" /\ tShown.ret # Timeout => tShown \in Answers(tShown.seq)

TrInv ==
    /\ tSeq \in Nat /\ tDone \in Nat
    /\ TrNetTrue /\ TrProbing /\ TrMatched /\ TrReached /\ TrReported

\* An answer carries the number of its probe, and port unreachable errors come only from
\* the destination (recv_v4.c:64-70).
LEMMA AnswerOf ==
    ASSUME NEW q, NEW m \in Answers(q)
    PROVE  m.seq = q /\ m = [seq |-> q, ret |-> m.ret] /\ (m.ret = PortUnreach => ~(TtlOf(q) < TrHops))
<1>1. PICK r : m = [seq |-> q, ret |-> r] /\ r \in (IF TtlOf(q) < TrHops THEN {InTransit, OtherCode} ELSE {PortUnreach, OtherCode})
  BY DEF Answers
<1>2. m.ret = r /\ m.seq = q
  BY <1>1
<1>3. m.ret = PortUnreach => ~(TtlOf(q) < TrHops)
  BY <1>1, <1>2 DEF InTransit, OtherCode, PortUnreach
<1> QED
  BY <1>1, <1>2, <1>3

\* The TTL never gets smaller from one probe to the next (traceloop.c:32-41).
LEMMA TtlGrows ==
    ASSUME NEW s \in Nat, s > 0
    PROVE  TtlOf(s) \in Nat /\ TtlOf(s + 1) \in Nat /\ TtlOf(s) <= TtlOf(s + 1)
<1>1. s - 1 \in Nat /\ TrProbes \in Nat \ {0} /\ (s - 1) + 1 = (s + 1) - 1
  BY TrAssumption
<1>2. (s - 1) \div TrProbes \in Nat /\ ((s - 1) + 1) \div TrProbes \in Nat
      /\ (s - 1) \div TrProbes <= ((s - 1) + 1) \div TrProbes
  BY <1>1, QuotientGrows
<1> QED
  BY <1>1, <1>2 DEF TtlOf
-----------------------------------------------------------------------------

LEMMA TrInvInit == TrInit => TrInv
  BY DEF TrInit, TrStart, TrInv, TrNetTrue, TrProbing, TrMatched, TrReached, TrReported, NoProbe

\* Printing a result keeps the truth, if the result is a timeout or an answer to the probe.
LEMMA ReportKeeps ==
    ASSUME TrInv, NEW code, Report(code), tSeq > 0, tFam' = tFam, tSeq' = tSeq, tNet' = tNet,
           tFam = "v4" => code = Timeout \/ [seq |-> tSeq, ret |-> code] \in Answers(tSeq)
    PROVE  TrInv'
<1>1. tSeq' \in Nat /\ tDone' \in Nat
  BY DEF TrInv, Report
<1>2. TrNetTrue' /\ TrProbing' /\ TrMatched'
  BY DEF TrInv, Report, TrNetTrue, TrProbing, TrMatched, Answers, TtlOf
<1>3. TrReached'
  <2>1. CASE tDone' = tDone
    BY <2>1 DEF TrInv, TrReached
  <2>2. CASE tDone' # tDone
    <3> SUFFICES ASSUME tFam = "v4" PROVE tSeq > 0 /\ TtlOf(tSeq) >= TrHops
      BY DEF TrReached
    <3>1. code = PortUnreach
      BY <2>2 DEF Report
    <3>2. [seq |-> tSeq, ret |-> code] \in Answers(tSeq)
      BY <3>1 DEF PortUnreach, Timeout
    <3>3. ~(TtlOf(tSeq) < TrHops)
      BY <3>1, <3>2, AnswerOf
    <3>4. TtlOf(tSeq) \in Nat
      BY TtlGrows DEF TrInv
    <3> QED
      BY <3>3, <3>4, TrAssumption
  <2> QED
    BY <2>1, <2>2
<1>4. TrReported'
  BY DEF TrReported, Report
<1> QED
  BY <1>1, <1>2, <1>3, <1>4 DEF TrInv

LEMMA TrInvNext == TrInv /\ [TrNext]_traceVars => TrInv'
<1> SUFFICES ASSUME TrInv, [TrNext]_traceVars PROVE TrInv'
  OBVIOUS
<1> USE DEF TrInv
<1>1. CASE SendProbe
  <2>1. PICK answer \in {{}} \cup {{a} : a \in Answers(tSeq + 1)} : tNet' = tNet \cup answer
    BY <1>1 DEF SendProbe
  <2>2. tSeq' = tSeq + 1 /\ tSeq' \in Nat /\ tDone' \in Nat
    BY <1>1 DEF SendProbe
  <2>3. \A m \in answer : m \in Answers(m.seq) /\ m.seq = tSeq + 1
    BY <2>1, AnswerOf
  <2>4. TrNetTrue'
    BY <2>1, <2>2, <2>3 DEF TrNetTrue, Answers, TtlOf
  <2>5. TrReached'
    <3> SUFFICES ASSUME tFam' = "v4", tDone' > 0 PROVE tSeq' > 0 /\ TtlOf(tSeq') >= TrHops
      BY DEF TrReached, TtlOf
    <3>1. tSeq > 0 /\ TtlOf(tSeq) >= TrHops
      BY <1>1 DEF SendProbe, TrReached
    <3>2. TtlOf(tSeq) \in Nat /\ TtlOf(tSeq + 1) \in Nat /\ TtlOf(tSeq) <= TtlOf(tSeq + 1)
      BY <3>1, TtlGrows
    <3> QED
      BY <2>2, <3>1, <3>2, TrAssumption
  <2>6. TrProbing' /\ TrMatched' /\ TrReported'
    BY <1>1, <2>2 DEF SendProbe, TrProbing, TrMatched, TrReported, Answers, TtlOf
  <2> QED
    BY <2>2, <2>4, <2>5, <2>6
<1>2. CASE TestAlarm
  <2>1. tSeq > 0 /\ tFam' = tFam /\ tSeq' = tSeq /\ tNet' = tNet
    BY <1>2 DEF TestAlarm, TrProbing
  <2>2. CASE tGot
    <3>1. Report(Timeout)
      BY <1>2, <2>2 DEF TestAlarm
    <3> QED
      BY <2>1, <3>1, ReportKeeps
  <2>3. CASE ~tGot
    BY <1>2, <2>1, <2>3 DEF TestAlarm, TrNetTrue, TrProbing, TrMatched, TrReached, TrReported, Answers, TtlOf
  <2> QED
    BY <2>2, <2>3
<1>3. CASE ReturnRecv
  <2>1. tSeq > 0 /\ tFam' = tFam /\ tSeq' = tSeq /\ tNet' = tNet /\ Report(tRet)
    BY <1>3 DEF ReturnRecv, TrProbing
  <2>2. tFam = "v4" => tRet = Timeout \/ [seq |-> tSeq, ret |-> tRet] \in Answers(tSeq)
    BY <1>3 DEF ReturnRecv, TrMatched
  <2> QED
    BY <2>1, <2>2, ReportKeeps
<1>4. CASE EndTrace \/ EnterRecv \/ sig_alrm_trace \/ ArriveOther \/ UNCHANGED traceVars
  <2>1. UNCHANGED <<tFam, tSeq, tNet, tRet, tDone, tShown>>
    BY <1>4 DEF EndTrace, EnterRecv, sig_alrm_trace, ArriveOther, traceVars
  <2>2. tPc' = tPc \/ (tPc = "send" /\ tPc' = "exit") \/ (tPc = "enter" /\ tPc' = "recv") \/ (tPc = "recv" /\ tPc' = "test")
    BY <1>4 DEF EndTrace, EnterRecv, sig_alrm_trace, ArriveOther, traceVars
  <2> QED
    BY <2>1, <2>2 DEF TrNetTrue, TrProbing, TrMatched, TrReached, TrReported, Answers, TtlOf
<1>5. ASSUME NEW m \in tNet \cup Foreign, Arrive(m) PROVE TrInv'
  <2>1. UNCHANGED <<tFam, tSeq, tDone, tShown>> /\ tSeq > 0 /\ tNet' = tNet \ {m}
    BY <1>5 DEF Arrive, TrProbing
  <2>2. TrNetTrue' /\ TrProbing' /\ TrReached' /\ TrReported'
    BY <2>1 DEF TrNetTrue, TrProbing, TrReached, TrReported, Answers, TtlOf
  <2>3. TrMatched'
    <3> SUFFICES ASSUME tFam = "v4", tPc' = "matched" PROVE [seq |-> tSeq, ret |-> tRet'] \in Answers(tSeq)
      BY <2>1 DEF TrMatched, Answers, TtlOf
    <3>1. m.seq = tSeq /\ tRet' = m.ret
      BY <1>5 DEF Arrive, recv_v4, MatchesProbe
    <3>2. m \in tNet
      BY <2>1, <3>1 DEF Foreign
    <3>3. m \in Answers(tSeq)
      BY <3>1, <3>2 DEF TrNetTrue
    <3> QED
      BY <3>1, <3>3, AnswerOf
  <2> QED
    BY <2>1, <2>2, <2>3
<1> QED
  BY <1>1, <1>2, <1>3, <1>4, <1>5 DEF TrNext, TrMain

\* recv_v4() takes for the answer to a probe only what that probe caused, and the trace stops
\* only at the destination, for any number of hops, probes and late answers.
THEOREM TraceIsTruthful == TrSpec => []TraceTruthful
<1>1. TrInv => TraceTruthful
  BY DEF TrInv, TrReached, TrReported, TraceTruthful
<1> QED
  BY <1>1, TrInvInit, TrInvNext, PTL DEF TrSpec
-----------------------------------------------------------------------------
(* ping                                                                     *)

\* The main program holds no reply; it has one that it has not finished with.
Idle == {"start", "preload", "top", "recv"}
Packed == {"pr_pack", "tst", "set"}

PingTypes ==
    /\ pSent \in 0 .. PingMaxSent /\ pRecv \in Int /\ pRep \in Int /\ pGot \in Int
    /\ pPkt \in Nat /\ pSeen \subseteq 0 .. pSent - 1 /\ pNet \subseteq 0 .. pSent - 1
    /\ pPc \in Packed => pPkt < pSent
    /\ pPc \in Idle => pPkt = NoPkt

\* nreceived and the number of requests answered; it is one ahead when a duplicate has
\* been counted and its bit not been looked at.
PingCounted ==
    /\ pRecv - Cardinality(pSeen) \in {0, 1}
    /\ pPc \notin {"tst", "exit"} \/ pPkt = NoPkt => pRecv = Cardinality(pSeen)
    /\ pPc = "tst" /\ ~Late(pPkt) => (Slot(pPkt) \in pTbl <=> pRecv # Cardinality(pSeen))

\* The reply whose bit is looked at has been counted.
PingReading == pPc \in {"tst", "set"} => pPkt \in pSeen

\* For the requests the table has room for, a bit is set if the request has been answered.
PingMarked ==
    pPc # "exit" =>
       \A n \in 0 .. pSent - 1 :
          ~Late(n) /\ (pPc \in {"tst", "set"} => n # pPkt) => (Slot(n) \in pTbl <=> n \in pSeen)

\* sig_alrm() is the handler of the book's ping.
PingHandler == pAlrm = "sig_alrm" => pProg # "bsdping"

PingInv ==
    /\ PingTypes /\ PingReading /\ PingHandler /\ pSpoilt \in BOOLEAN
    /\ pProg = "bsdping" => pRecv + pRep = pGot
    /\ pProg = "bsdping" /\ pSpoilt = FALSE => PingCounted /\ PingMarked

\* Two requests that have the same bit are a whole table apart (bsdping.c:91-95).
LEMMA SlotApart ==
    ASSUME NEW m \in Nat, NEW n \in Nat, m <= n, n < m + PingSlots, Slot(m) = Slot(n)
    PROVE  m = n
  BY PingAssumption, SameRemainder DEF Slot

LEMMA SeenFinite ==
    ASSUME PingInv
    PROVE  IsFiniteSet(pSeen) /\ Cardinality(pSeen) \in Nat
<1>1. pSent - 1 \in Int
  BY PingAssumption DEF PingInv, PingTypes
<1>2. IsFiniteSet(0 .. pSent - 1)
  BY <1>1, FS_Interval
<1>3. IsFiniteSet(pSeen)
  BY <1>2, FS_Subset DEF PingInv, PingTypes
<1> QED
  BY <1>3, FS_CardinalityType

LEMMA PingInvInit == PingInit => PingInv
<1> SUFFICES ASSUME NEW p \in PingProgs, NEW opt \in PingOpts, PingStart(p, opt, "start") PROVE PingInv
  BY DEF PingInit
<1>1. Cardinality(pSeen) = 0
  BY FS_EmptySet DEF PingStart
<1>2. PingTypes
  BY PingAssumption DEF PingStart, PingTypes, Idle, Packed, NoPkt
<1>3. PingCounted /\ PingMarked
  BY <1>1 DEF PingStart, PingCounted, PingMarked
<1>4. pRecv + pRep = pGot
  BY DEF PingStart
<1>5. PingReading /\ PingHandler /\ pSpoilt \in BOOLEAN
  BY DEF PingReading, PingHandler, PingStart
<1> QED
  BY <1>2, <1>3, <1>4, <1>5 DEF PingInv

\* What SIGALRM may do to the requests while the main program is anywhere.
PingSends ==
    \/ UNCHANGED <<pSent, pTbl, pNet>>
    \/ pinger
    \/ pProg # "bsdping" /\ pSent' = pSent + 1 /\ pSent < PingMaxSent /\ pNet' \in {pNet, pNet \cup {pSent}}

LEMMA SendsTypes ==
    ASSUME PingInv, PingSends
    PROVE  /\ pSent' \in 0 .. PingMaxSent /\ pSent' >= pSent
           /\ pNet' \subseteq 0 .. pSent' - 1 /\ pSeen \subseteq 0 .. pSent' - 1
<1>1. pSent \in Nat /\ pSent <= PingMaxSent /\ pNet \subseteq 0 .. pSent - 1 /\ pSeen \subseteq 0 .. pSent - 1
  BY PingAssumption DEF PingInv, PingTypes
<1>2. CASE UNCHANGED <<pSent, pTbl, pNet>>
  BY <1>1, <1>2, PingAssumption
<1>3. CASE pSent' = pSent + 1 /\ pSent < PingMaxSent /\ pNet' \in {pNet, pNet \cup {pSent}}
  <2>1. pSent' \in 0 .. PingMaxSent /\ pSent' >= pSent /\ pSent' - 1 = pSent
    BY <1>1, <1>3, PingAssumption
  <2>2. \A n \in pNet \cup {pSent} : n \in 0 .. pSent
    BY <1>1
  <2>3. \A n \in pSeen : n \in 0 .. pSent
    BY <1>1
  <2>4. pNet' \subseteq pNet \cup {pSent}
    BY <1>3
  <2> QED
    BY <2>1, <2>2, <2>3, <2>4
<1> QED
  BY <1>2, <1>3 DEF PingSends, pinger

\* A new request takes the bit of one that is a whole table older, and of no other.
LEMMA SendsMark ==
    ASSUME PingInv, PingSends, pProg = "bsdping", NEW n \in 0 .. pSent - 1, ~Late(n)'
    PROVE  ~Late(n) /\ (Slot(n) \in pTbl' <=> Slot(n) \in pTbl)
<1>1. CASE UNCHANGED <<pSent, pTbl, pNet>>
  BY <1>1 DEF Late
<1>2. CASE pinger
  <2>1. pSent' = pSent + 1 /\ pTbl' = pTbl \ {Slot(pSent)} /\ pSent \in Nat
    BY <1>2 DEF pinger, PingInv, PingTypes
  <2>2. pSent < n + PingSlots /\ n <= pSent /\ n \in Nat /\ n # pSent
    BY <2>1, PingAssumption DEF Late
  <2>3. Slot(n) # Slot(pSent)
    BY <2>1, <2>2, SlotApart
  <2> QED
    BY <2>1, <2>2, <2>3, PingAssumption DEF Late
<1> QED
  BY <1>1, <1>2 DEF PingSends

LEMMA SendsKeep ==
    ASSUME PingInv, PingSends, PingHandler', UNCHANGED <<pProg, pRecv, pRep, pGot, pPkt, pSeen, pSpoilt>>,
           \/ pPc' = pPc
           \/ pPc' = "exit" 
           \/ pPc \in Idle /\ pPc' \in Idle \cup {"check"}
    PROVE  PingInv'
<1>1. PingTypes'
  <2>1. pPc' \in Packed => pPkt' < pSent'
    <3>1. pPc' \in Packed => pPc \in Packed
      BY DEF Packed, Idle
    <3>2. pSent' \in Int /\ pSent' >= pSent
      BY SendsTypes, PingAssumption
    <3> QED
      BY <3>1, <3>2, PingAssumption DEF PingInv, PingTypes
  <2>2. pPc' \in Idle => pPkt' = NoPkt'
    BY DEF PingInv, PingTypes, Idle, NoPkt
  <2> QED
    BY <2>1, <2>2, SendsTypes DEF PingInv, PingTypes
<1>2. ASSUME pProg = "bsdping", pSpoilt = FALSE PROVE PingCounted' /\ PingMarked'
  <2>1. PingCounted /\ PingMarked
    BY <1>2 DEF PingInv
  <2>2. Cardinality(pSeen) \in Nat /\ pRecv \in Int
    BY SeenFinite DEF PingInv, PingTypes
  <2>3. pPc = "tst" => pPkt \in 0 .. pSent - 1
    BY PingAssumption DEF PingInv, PingTypes, Packed
  <2>3a. pPc \in {"tst", "set"} => pPkt # NoPkt
    BY PingAssumption DEF PingInv, PingTypes, Packed, NoPkt
  <2>4. PingCounted'
    <3>1. (pRecv - Cardinality(pSeen) \in {0, 1})'
      BY <2>1 DEF PingCounted
    <3>2. (pPc \notin {"tst", "exit"} \/ pPkt = NoPkt => pRecv = Cardinality(pSeen))'
      BY <2>1, <2>3a DEF PingCounted, Idle, NoPkt
    <3>3. (pPc = "tst" /\ ~Late(pPkt) => (Slot(pPkt) \in pTbl <=> pRecv # Cardinality(pSeen)))'
      <4> SUFFICES ASSUME pPc' = "tst", ~Late(pPkt)'
                   PROVE  Slot(pPkt) \in pTbl' <=> pRecv # Cardinality(pSeen)
        BY DEF Slot
      <4>1. pPc = "tst"
        BY DEF Idle
      <4>2. ~Late(pPkt) /\ (Slot(pPkt) \in pTbl' <=> Slot(pPkt) \in pTbl)
        BY <1>2, <2>3, <4>1, SendsMark
      <4> QED
        BY <2>1, <4>1, <4>2 DEF PingCounted
    <3> QED
      BY <3>1, <3>2, <3>3 DEF PingCounted
  <2>5. PingMarked'
    <3> SUFFICES ASSUME pPc' # "exit", NEW n \in 0 .. pSent' - 1, ~Late(n)', pPc' \in {"tst", "set"} => n # pPkt
                 PROVE  Slot(n) \in pTbl' <=> n \in pSeen
      BY DEF PingMarked, Slot
    <3>1. CASE n < pSent
      <4>1. n \in 0 .. pSent - 1
        BY <3>1, PingAssumption DEF PingInv, PingTypes
      <4>2. ~Late(n) /\ (Slot(n) \in pTbl' <=> Slot(n) \in pTbl)
        BY <1>2, <4>1, SendsMark
      <4> QED
        BY <2>1, <4>1, <4>2 DEF PingMarked, Idle
    <3>2. CASE ~(n < pSent)
      <4>1. pinger /\ n = pSent
        BY <1>2, <3>2 DEF PingSends, pinger, PingInv, PingTypes
      <4>2. n \notin pSeen /\ Slot(n) \notin pTbl'
        BY <4>1 DEF pinger, PingInv, PingTypes
      <4> QED
        BY <4>2
    <3> QED
      BY <3>1, <3>2
  <2> QED
    BY <2>4, <2>5
<1>3. PingReading'
  BY DEF PingInv, PingReading, Idle
<1> QED
  BY <1>1, <1>2, <1>3 DEF PingInv
-----------------------------------------------------------------------------

\* pr_pack() counts the reply before it looks at the table.
LEMMA CountKeeps == ASSUME PingInv, CountReply PROVE PingInv'
<1> USE DEF CountReply
<1>1. pPkt \in 0 .. pSent - 1 /\ pSent \in Nat /\ pRecv \in Int /\ pGot \in Int
  BY PingAssumption DEF PingInv, PingTypes, Packed
<1>2. PingTypes'
  <2>1. pSeen' \subseteq 0 .. pSent - 1
    BY <1>1 DEF PingInv, PingTypes
  <2>2. pPc' \in Packed => pPkt' < pSent'
    BY <1>1
  <2>3. pPc' \notin Idle
    BY DEF Idle
  <2> QED
    BY <1>1, <2>1, <2>2, <2>3 DEF PingInv, PingTypes
<1>3. pProg' = "bsdping" => pRecv' + pRep' = pGot'
  BY DEF PingInv, PingTypes
<1>4. ASSUME pProg = "bsdping", pSpoilt = FALSE PROVE PingCounted' /\ PingMarked'
  <2>1. PingCounted /\ PingMarked
    BY <1>4 DEF PingInv
  <2>2. IsFiniteSet(pSeen) /\ Cardinality(pSeen) \in Nat
    BY SeenFinite
  <2>3. pRecv = Cardinality(pSeen)
    BY <2>1 DEF PingCounted
  <2>4. Cardinality(pSeen') = IF pPkt \in pSeen THEN Cardinality(pSeen) ELSE Cardinality(pSeen) + 1
    BY <2>2, FS_AddElement
  <2>5. ~Late(pPkt) => (Slot(pPkt) \in pTbl <=> pPkt \in pSeen)
    BY <1>1, <2>1 DEF PingMarked
  <2>6. pPkt # NoPkt
    BY <1>1, PingAssumption DEF NoPkt, PingInv, PingTypes
  <2>7. pRecv' = Cardinality(pSeen') \/ pRecv' = Cardinality(pSeen') + 1
    BY <1>1, <2>2, <2>3, <2>4
  <2>8. pRecv' # Cardinality(pSeen') <=> pPkt \in pSeen
    BY <1>1, <2>2, <2>3, <2>4
  <2>9. Cardinality(pSeen') \in Nat
    BY <2>2, <2>4
  <2>10. (Late(pPkt)' <=> Late(pPkt)) /\ Slot(pPkt)' = Slot(pPkt) /\ NoPkt' = NoPkt
    BY DEF Late, Slot, NoPkt
  <2>11. PingCounted'
    BY <1>1, <2>5, <2>6, <2>7, <2>8, <2>9, <2>10 DEF PingCounted
  <2>12. PingMarked'
    BY <2>1 DEF PingMarked, Late, Slot
  <2> QED
    BY <2>11, <2>12
<1> QED
  BY <1>2, <1>3, <1>4 DEF PingInv, PingReading, PingHandler

\* The bit tells whether the reply is the first to its request.
LEMMA TestKeeps == ASSUME PingInv, TestBit PROVE PingInv'
<1> USE DEF TestBit
<1>1. pPkt \in 0 .. pSent - 1 /\ pSent \in Nat /\ pRecv \in Int /\ pRep \in Int /\ pGot \in Int
  BY PingAssumption DEF PingInv, PingTypes, Packed
<1>2. PingTypes'
  <2>1. pPc' \in Packed => pPkt' < pSent'
    BY <1>1
  <2>2. pPc' \notin Idle
    BY DEF Idle
  <2>3. pRecv' \in Int /\ pRep' \in Int
    BY <1>1
  <2> QED
    BY <1>1, <2>1, <2>2, <2>3 DEF PingInv, PingTypes
<1>3. pProg' = "bsdping" => pRecv' + pRep' = pGot'
  BY <1>1 DEF PingInv
<1>4. ASSUME pProg = "bsdping", pSpoilt' = FALSE PROVE PingCounted' /\ PingMarked'
  <2>1. pSpoilt = FALSE /\ ~Late(pPkt)
    BY <1>4 DEF PingInv
  <2>2. PingCounted /\ PingMarked
    BY <1>4, <2>1 DEF PingInv
  <2>3. Cardinality(pSeen) \in Nat
    BY SeenFinite
  <2>4. Slot(pPkt) \in pTbl <=> pRecv # Cardinality(pSeen)
    BY <2>1, <2>2 DEF PingCounted
  <2>5. pRecv = Cardinality(pSeen) \/ pRecv = Cardinality(pSeen) + 1
    BY <1>1, <2>2, <2>3 DEF PingCounted
  <2>6. pPkt \in pSeen
    BY DEF PingInv, PingReading
  <2>7. pRecv' = Cardinality(pSeen')
    BY <1>1, <2>3, <2>4, <2>5
  <2>8. PingCounted'
    BY <2>3, <2>7 DEF PingCounted
  <2>9. PingMarked'
    <3> SUFFICES ASSUME NEW n \in 0 .. pSent - 1, ~Late(n), pPc' = "set" => n # pPkt
                 PROVE  Slot(n) \in pTbl <=> n \in pSeen
      BY DEF PingMarked, Late, Slot
    <3>1. CASE n = pPkt
      BY <2>6, <3>1
    <3>2. CASE n # pPkt
      BY <2>2, <3>2 DEF PingMarked
    <3> QED
      BY <3>1, <3>2
  <2> QED
    BY <2>8, <2>9
<1>5. pSpoilt' \in BOOLEAN
  OBVIOUS
<1>6. PingReading' /\ PingHandler'
  BY DEF PingInv, PingReading, PingHandler
<1> QED
  BY <1>2, <1>3, <1>4, <1>5, <1>6 DEF PingInv
\* SET() marks the request, unless it spoils the table by that.
LEMMA SetKeeps == ASSUME PingInv, SetBit PROVE PingInv'
<1> USE DEF SetBit
<1>1. pPkt \in 0 .. pSent - 1 /\ pSent \in Nat /\ pRecv \in Int /\ NoPkt \in Nat
  BY PingAssumption DEF PingInv, PingTypes, Packed, NoPkt
<1>2. PingTypes' /\ PingReading'
  BY <1>1 DEF PingInv, PingTypes, PingReading, Packed, Idle, NoPkt
<1>3. ASSUME pProg = "bsdping", pSpoilt' = FALSE PROVE PingCounted' /\ PingMarked'
  <2>1. pSpoilt = FALSE /\ ~Late(pPkt) /\ pTbl' = pTbl \cup {Slot(pPkt)}
    BY <1>3 DEF PingInv
  <2>2. PingCounted /\ PingMarked
    BY <1>3, <2>1 DEF PingInv
  <2>3. Cardinality(pSeen) \in Nat
    BY SeenFinite
  <2>4. PingCounted'
    BY <1>1, <2>2, <2>3 DEF PingCounted
  <2>5. PingMarked'
    <3> SUFFICES ASSUME NEW n \in 0 .. pSent - 1, ~Late(n)
                 PROVE  Slot(n) \in pTbl' <=> n \in pSeen
      BY DEF PingMarked, Late, Slot
    <3>1. CASE n = pPkt
      BY <2>1, <3>1 DEF PingInv, PingReading
    <3>2. CASE n # pPkt
      <4>1. Slot(n) # Slot(pPkt)
        <5>1. n < pPkt + PingSlots /\ pPkt < n + PingSlots /\ n \in Nat /\ pPkt \in Nat
          BY <1>1, <2>1, PingAssumption DEF Late
        <5> QED
          BY <3>2, <5>1, SlotApart
      <4> QED
        BY <2>1, <2>2, <3>2, <4>1 DEF PingMarked
    <3> QED
      BY <3>1, <3>2
  <2> QED
    BY <2>4, <2>5
<1>4. pSpoilt' \in BOOLEAN /\ PingHandler'
  BY DEF PingInv, PingHandler
<1> QED
  BY <1>2, <1>3, <1>4 DEF PingInv

\* A reply is one to a request that was sent, and the number of its request is kept.
LEMMA ReceiveKeeps == ASSUME PingInv, NEW n \in 0 .. PingMaxSent, Receive(n) PROVE PingInv'
<1> USE DEF Receive
<1>1. n \in 0 .. pSent - 1 /\ pSent \in Nat /\ pGot \in Int
  BY PingAssumption DEF PingInv, PingTypes
<1>2. pNet' \subseteq 0 .. pSent - 1 /\ pSeen' \subseteq 0 .. pSent - 1
  BY <1>1 DEF PingInv, PingTypes
<1>3. PingTypes'
  <2>1. CASE pProg = "bsdping"
    BY <1>1, <1>2, <2>1 DEF PingInv, PingTypes, Packed, Idle
  <2>2. CASE pProg # "bsdping"
    BY <1>1, <1>2, <2>2 DEF PingInv, PingTypes, Packed, Idle, NoPkt
  <2> QED
    BY <2>1, <2>2
<1>4. PingReading' /\ PingHandler' /\ pSpoilt' = pSpoilt /\ pProg' = pProg
  BY DEF PingInv, PingReading, PingHandler
<1>5. ASSUME pProg = "bsdping", pSpoilt = FALSE PROVE PingCounted' /\ PingMarked'
  <2>1. PingCounted /\ PingMarked /\ pPc' = "pr_pack"
    BY <1>5 DEF PingInv
  <2>2. UNCHANGED <<pSent, pRecv, pSeen, pTbl>>
    BY <1>5
  <2>3. pRecv = Cardinality(pSeen)
    BY <2>1 DEF PingCounted
  <2>4. PingCounted'
    BY <2>1, <2>2, <2>3 DEF PingCounted
  <2>5. PingMarked'
    BY <2>1, <2>2 DEF PingMarked, Late, Slot
  <2> QED
    BY <2>4, <2>5
<1> QED
  BY <1>3, <1>4, <1>5 DEF PingInv

LEMMA CheckKeeps == ASSUME PingInv, CheckCount PROVE PingInv'
<1> USE DEF CheckCount
<1>1. PingTypes' /\ PingReading' /\ PingHandler' /\ pSpoilt' = pSpoilt
  BY PingAssumption DEF PingInv, PingTypes, PingReading, PingHandler, Packed, Idle, NoPkt
<1>2. ASSUME pProg = "bsdping", pSpoilt = FALSE PROVE PingCounted' /\ PingMarked'
  <2>1. PingCounted /\ PingMarked
    BY <1>2 DEF PingInv
  <2>2. UNCHANGED <<pSent, pRecv, pSeen, pTbl>> /\ pPc' \in {"exit", "top"}
    OBVIOUS
  <2>3. PingCounted'
    BY <2>1, <2>2 DEF PingCounted
  <2>4. PingMarked'
    BY <2>1, <2>2 DEF PingMarked, Late, Slot
  <2> QED
    BY <2>3, <2>4
<1> QED
  BY <1>1, <1>2 DEF PingInv

LEMMA PingInvNext == PingInv /\ [PingNext]_pingVars => PingInv'
<1> SUFFICES ASSUME PingInv, [PingNext]_pingVars PROVE PingInv'
  OBVIOUS
<1>1. CASE BeginPing \/ SetTimer \/ onint \/ Ignore \/ UNCHANGED pingVars
  <2>1. PingSends /\ UNCHANGED <<pProg, pRecv, pRep, pGot, pPkt, pSeen, pSpoilt>>
    BY <1>1 DEF BeginPing, SetTimer, onint, Ignore, pingVars, PingSends
  <2>2. pPc' = pPc \/ pPc' = "exit" \/ (pPc \in Idle /\ pPc' \in Idle \cup {"check"})
    BY <1>1 DEF BeginPing, SetTimer, onint, Ignore, pingVars, Idle
  <2>3. PingHandler'
    BY <1>1 DEF BeginPing, SetTimer, onint, Ignore, pingVars, PingInv, PingHandler
  <2> QED
    BY <2>1, <2>2, <2>3, SendsKeep
<1>2. CASE Preload \/ readloop \/ FloodSend
  <2>1. PingSends /\ UNCHANGED <<pProg, pRecv, pRep, pGot, pPkt, pSeen, pSpoilt>>
    BY <1>2 DEF Preload, readloop, FloodSend, send_v4, send_v6, PingSends
  <2>2. pPc' = pPc \/ (pPc \in Idle /\ pPc' \in Idle \cup {"check"})
    BY <1>2 DEF Preload, readloop, FloodSend, Idle
  <2>3. PingHandler'
    BY <1>2 DEF Preload, readloop, FloodSend, PingInv, PingHandler
  <2> QED
    BY <2>1, <2>2, <2>3, SendsKeep
<1>3. CASE Alarm
  <2>1. PingHandler /\ PingHandler'
    BY <1>3 DEF Alarm, onalrm, sig_alrm, PingInv, PingHandler
  <2>2. PingSends /\ UNCHANGED <<pProg, pRecv, pRep, pGot, pPkt, pSeen, pSpoilt>> /\ (pPc' = pPc \/ pPc' = "exit")
    BY <1>3, <2>1 DEF Alarm, onalrm, sig_alrm, send_v4, send_v6, PingSends, PingHandler
  <2> QED
    BY <2>1, <2>2, SendsKeep
<1> QED
  BY <1>1, <1>2, <1>3, CountKeeps, TestKeeps, SetKeeps, ReceiveKeeps, CheckKeeps DEF PingNext, PingMain

\* However often SIGALRM interrupts pr_pack(), bsdping counts each request answered once and
\* each further answer as a repetition, for any size of its table, and so does its summary
\* but for a duplicate it is about to look up.
THEOREM PingCountsRight == PingSpec => []PingCounts
<1>1. PingInv => PingCounts
  <2> SUFFICES ASSUME PingInv PROVE PingCounts
    OBVIOUS
  <2>1. \A n \in pSeen : n < pSent
    BY PingAssumption DEF PingInv, PingTypes
  <2>2. Cardinality(pSeen) \in Nat /\ pRecv \in Int
    BY SeenFinite DEF PingInv, PingTypes
  <2>3. pProg = "bsdping" /\ ~pSpoilt => pRecv - Cardinality(pSeen) \in (IF pPkt = NoPkt THEN {0} ELSE {0, 1})
    <3> SUFFICES ASSUME pProg = "bsdping", ~pSpoilt
                 PROVE  pRecv - Cardinality(pSeen) \in (IF pPkt = NoPkt THEN {0} ELSE {0, 1})
      OBVIOUS
    <3>1. pSpoilt = FALSE
      BY DEF PingInv
    <3>2. PingCounted
      BY <3>1 DEF PingInv
    <3> QED
      BY <2>2, <3>2 DEF PingCounted
  <2> QED
    BY <2>1, <2>3 DEF PingInv, PingCounts
<1> QED
  BY <1>1, PingInvInit, PingInvNext, PTL DEF PingSpec
-----------------------------------------------------------------------------
(* The reliable UDP client                                                  *)

\* Requests and replies say which line they carry and when they were sent.
RttSent ==
    /\ reqs \subseteq Datagram /\ reps \subseteq reqs
    /\ \A m \in reqs : m.line = m.seq /\ m.ts = rtt_ts(m.at) /\ m.at <= now

\* What dg_send_recv() holds is a reply, and at the end of its loop one to this request.
RttHeld ==
    /\ recvhdr \in reqs \cup {NoDatagram}
    /\ rpc = "got" => recvhdr \in reqs /\ recvhdr.seq = seq
    /\ rpc \in {"send", "recv", "got"} => seq > 0

\* The estimators; between requests the RTO is within its bounds, and until dg_send_recv()
\* gives up it has been doubled at most RTT_MAXNREXMT times.
RttInfo == [srtt : Nat, rttvar : Nat, rto : Nat, nrexmt : 0 .. RTT_MAXNREXMT + 1]
RttTimer ==
    /\ rttinfo \in RttInfo
    /\ rpc # "quit" => rttinfo.nrexmt <= RTT_MAXNREXMT
    /\ rpc \in {"idle", "done"} => rttinfo.rto <= RTT_RXTMAX * Unit
    /\ rttinfo.rto >= RTT_RXTMIN * Unit
    /\ rttinfo.rto <= RTT_RXTMAX * Unit * 2 ^ rttinfo.nrexmt

RttInv ==
    /\ now \in 0 .. MaxNow /\ seq \in 0 .. NRequests /\ rttinit \in {0, 1} /\ deadline \in Nat
    /\ rpc \in {"idle", "send", "recv", "got", "done", "quit"}
    /\ RttSent /\ RttHeld /\ RttTimer /\ ReplyMatches /\ SampleExact
    /\ sample.ms \in Nat /\ sample.real \in Nat

\* The difference of two timestamps is right though one of them has wrapped around
\* (rtt.c:48-52, dg_send_recv.c:90).
LEMMA WrappedDifference ==
    ASSUME NEW a \in Nat, NEW b \in Nat, b <= a, a - b < TsMod
    PROVE  (rtt_ts(a) - rtt_ts(b)) % TsMod = a - b
<1>0. TsMod \in Nat \ {0} /\ a \in Int /\ b \in Int
  BY RttAssumption
<1>1. PICK p \in Int, r \in 0 .. TsMod - 1 : a = TsMod * p + r /\ r = a % TsMod
  BY <1>0, Divided
<1>2. PICK q \in Int, s \in 0 .. TsMod - 1 : b = TsMod * q + s /\ s = b % TsMod
  BY <1>0, Divided
<1>3. r - s \in Int
  OBVIOUS
<1>4. PICK k \in Int, t \in 0 .. TsMod - 1 : r - s = TsMod * k + t /\ t = (r - s) % TsMod
  BY <1>0, <1>3, Divided
<1> DEFINE P == TsMod * p
           Q == TsMod * q
           K == TsMod * k
           Z == TsMod * (p - q + k)
<1>5. P \in Int /\ Q \in Int /\ K \in Int /\ Z \in Int /\ P - Q + K = Z
  BY <1>0
<1>6. a = P + r /\ b = Q + s /\ r - s = K + t
  BY <1>1, <1>2, <1>4
<1> HIDE DEF P, Q, K
<1>7. a - b - t = Z
  BY <1>5, <1>6 DEF Z
<1>8. p - q + k = 0
  <2>1. Z < TsMod /\ -TsMod < Z
    BY <1>0, <1>4, <1>5, <1>7
  <2>2. p - q + k \in Int
    OBVIOUS
  <2> QED
    BY <1>0, <2>1, <2>2, SmallMultiple DEF Z
<1>9. a - b = t
  BY <1>0, <1>7, <1>8
<1> QED
  BY <1>1, <1>2, <1>4, <1>9 DEF rtt_ts

\* rtt_minmax() keeps the RTO between its bounds (rtt.c:18-27).
LEMMA MinMax ==
    ASSUME NEW r \in Int
    PROVE  /\ rtt_minmax(r) \in Nat
           /\ RTT_RXTMIN * Unit <= rtt_minmax(r) /\ rtt_minmax(r) <= RTT_RXTMAX * Unit
<1>1. Unit \in Nat \ {0} /\ RTT_RXTMIN \in Nat /\ RTT_RXTMAX \in Nat /\ RTT_RXTMIN <= RTT_RXTMAX
  BY PowerLaws, RttAssumption
<1>2. RTT_RXTMIN * Unit \in Nat /\ RTT_RXTMAX * Unit \in Nat /\ RTT_RXTMIN * Unit <= RTT_RXTMAX * Unit
  BY <1>1
<1> QED
  BY <1>2 DEF rtt_minmax
\* rtt_stop() keeps the estimators natural and the RTO between its bounds (rtt.c:85-102).
LEMMA StopInfo ==
    ASSUME NEW r \in RttInfo, NEW s \in Nat
    PROVE  /\ rtt_stop(r, s) \in RttInfo /\ rtt_stop(r, s).nrexmt = r.nrexmt
           /\ RTT_RXTMIN * Unit <= rtt_stop(r, s).rto /\ rtt_stop(r, s).rto <= RTT_RXTMAX * Unit
<1> DEFINE delta == s * Unit - r.srtt
           srtt == r.srtt + delta \div 8
           var == r.rttvar + (Abs(delta) - r.rttvar) \div 4
           rto == rtt_minmax(RTT_RTOCALC(srtt, var))
<1>1. s * Unit \in Nat /\ r.srtt \in Nat /\ r.rttvar \in Nat /\ r.nrexmt \in 0 .. RTT_MAXNREXMT + 1
  BY PowerLaws DEF RttInfo
<1>2. delta \in Int /\ delta >= -r.srtt
  BY <1>1
<1>3. Abs(delta) \in Nat
  BY <1>2 DEF Abs
<1>4. srtt \in Nat
  <2> HIDE DEF delta
  <2> QED BY <1>1, <1>2
<1>5. var \in Nat
  <2> HIDE DEF delta
  <2> QED BY <1>1, <1>3
<1> HIDE DEF srtt, var
<1>6. RTT_RTOCALC(srtt, var) \in Int
  BY <1>4, <1>5 DEF RTT_RTOCALC
<1>7. rto \in Nat /\ RTT_RXTMIN * Unit <= rto /\ rto <= RTT_RXTMAX * Unit
  BY <1>6, MinMax
<1> HIDE DEF rto
<1>8. rtt_stop(r, s) = [r EXCEPT !.srtt = srtt, !.rttvar = var, !.rto = rto]
  BY DEF rtt_stop, srtt, var, rto
<1>9. rtt_stop(r, s) = [srtt |-> srtt, rttvar |-> var, rto |-> rto, nrexmt |-> r.nrexmt]
  BY <1>8 DEF RttInfo
<1> QED
  BY <1>1, <1>4, <1>5, <1>7, <1>9 DEF RttInfo

LEMMA InitInfo ==
    /\ rtt_init \in RttInfo /\ rtt_init.nrexmt = 0
    /\ RTT_RXTMIN * Unit <= rtt_init.rto /\ rtt_init.rto <= RTT_RXTMAX * Unit
<1> DEFINE var == (3 * Unit) \div 4
           rto == rtt_minmax(RTT_RTOCALC(0, var))
<1>1. var \in Nat
  BY PowerLaws
<1> HIDE DEF var
<1>2. RTT_RTOCALC(0, var) \in Int
  BY <1>1 DEF RTT_RTOCALC
<1>3. rto \in Nat /\ RTT_RXTMIN * Unit <= rto /\ rto <= RTT_RXTMAX * Unit
  BY <1>2, MinMax
<1> HIDE DEF rto
<1>4. rtt_init = [srtt |-> 0, rttvar |-> var, rto |-> rto, nrexmt |-> 0]
  BY DEF rtt_init, var, rto
<1> QED
  BY <1>1, <1>3, <1>4, RttAssumption DEF RttInfo

\* An RTO within the bounds is one that has been doubled no more often than allowed.
LEMMA NotDoubled ==
    ASSUME NEW n \in 0 .. RTT_MAXNREXMT, NEW x \in Nat, x <= RTT_RXTMAX * Unit
    PROVE  x <= RTT_RXTMAX * Unit * 2 ^ n
<1>1. PICK u \in Nat, e \in Nat : u = RTT_RXTMAX * Unit /\ e = 2 ^ n /\ e >= 1
  BY PowerLaws, RttAssumption
<1>2. u * 1 <= u * e
  BY <1>1
<1> QED
  BY <1>1, <1>2

\* rtt_timeout() doubles the RTO and counts that (rtt.c:110-122).
LEMMA TimeoutInfo ==
    ASSUME NEW r \in RttInfo, r.nrexmt <= RTT_MAXNREXMT,
           RTT_RXTMIN * Unit <= r.rto, r.rto <= RTT_RXTMAX * Unit * 2 ^ r.nrexmt,
           NEW s, s = rtt_timeout(r)[1]
    PROVE  /\ s \in RttInfo /\ s.nrexmt = r.nrexmt + 1
           /\ RTT_RXTMIN * Unit <= s.rto /\ s.rto <= RTT_RXTMAX * Unit * 2 ^ s.nrexmt
<1>1. r.rto \in Nat /\ r.nrexmt \in 0 .. RTT_MAXNREXMT /\ r.srtt \in Nat /\ r.rttvar \in Nat
  BY RttAssumption DEF RttInfo
<1>2. s = [srtt |-> r.srtt, rttvar |-> r.rttvar, rto |-> 2 * r.rto, nrexmt |-> r.nrexmt + 1]
  BY DEF rtt_timeout, RttInfo
<1>3. s \in RttInfo /\ s.nrexmt = r.nrexmt + 1 /\ s.rto = 2 * r.rto
  BY <1>1, <1>2, RttAssumption DEF RttInfo
<1>a. 2 ^ r.nrexmt \in Nat /\ 2 ^ (r.nrexmt + 1) = 2 * 2 ^ r.nrexmt
  BY <1>1, PowerLaws
<1>b. RTT_RXTMAX * Unit \in Nat /\ RTT_RXTMIN * Unit \in Nat
  BY PowerLaws, RttAssumption
<1>4. PICK u \in Nat, e \in Nat, v \in Nat :
         u = RTT_RXTMAX * Unit /\ e = 2 ^ r.nrexmt /\ 2 ^ (r.nrexmt + 1) = 2 * e /\ v = RTT_RXTMIN * Unit
  BY <1>a, <1>b
<1>5. u * (2 * e) = 2 * (u * e) /\ u * e \in Nat
  <2>1. \A i, j \in Nat : i * (2 * j) = 2 * (i * j) /\ i * j \in Nat
    OBVIOUS
  <2> QED
    BY <2>1
<1>6. r.rto <= u * e /\ v <= r.rto
  BY <1>4
<1>7. 2 * r.rto <= u * (2 * e) /\ v <= 2 * r.rto
  BY <1>1, <1>4, <1>5, <1>6
<1> QED
  BY <1>3, <1>4, <1>7

\* rtt_start() is a number of seconds (rtt.c:70-77).
LEMMA StartType ==
    ASSUME NEW r \in RttInfo PROVE rtt_start(r) \in Nat
<1>0. r.rto \in Nat /\ Unit \in Nat \ {0} /\ Unit \div 2 \in Nat
  BY PowerLaws DEF RttInfo
<1>1. PICK u \in Nat \ {0}, x \in Nat : u = Unit /\ x = r.rto + Unit \div 2
  BY <1>0
<1>2. x \div u \in Nat
  BY QuotientGrows
<1> QED
  BY <1>1, <1>2 DEF rtt_start
-----------------------------------------------------------------------------

LEMMA RttInvInit == RttInit => RttInv
<1> SUFFICES ASSUME RttInit PROVE RttInv
  OBVIOUS
<1> USE DEF RttInit, RttStart
<1>1. RttTimer
  <2>1. rttinfo.rto <= RTT_RXTMAX * Unit * 2 ^ rttinfo.nrexmt
    <3>1. 0 \in 0 .. RTT_MAXNREXMT /\ rtt_init.rto \in Nat
      BY InitInfo, RttAssumption DEF RttInfo
    <3> QED
      BY <3>1, InitInfo, NotDoubled
  <2> QED
    BY <2>1, InitInfo, RttAssumption DEF RttTimer
<1>2. RttSent /\ RttHeld
  BY DEF RttSent, RttHeld
<1>3. ReplyMatches /\ SampleExact /\ sample.ms \in Nat /\ sample.real \in Nat
  BY DEF ReplyMatches, SampleExact
<1> QED
  BY <1>1, <1>2, <1>3, RttAssumption DEF RttInv

LEMMA RttInvNext == RttInv /\ [RttNext]_rttVars => RttInv'
<1> SUFFICES ASSUME RttInv, [RttNext]_rttVars PROVE RttInv'
  OBVIOUS
<1> USE RttAssumption
<1>1. CASE Tick
  <2>1. now' \in 0 .. MaxNow /\ now' = now + 1 /\ now \in Nat
    BY <1>1 DEF Tick, RttInv
  <2>2. RttSent'
    <3>1. \A m \in reqs : m.at \in Nat
      BY DEF RttInv, RttSent, Datagram
    <3> QED
      BY <1>1, <2>1, <3>1 DEF Tick, RttInv, RttSent, rtt_ts, Datagram
  <2>3. RttHeld' /\ RttTimer' /\ ReplyMatches' /\ SampleExact'
    BY <1>1 DEF Tick, RttInv, RttHeld, RttTimer, ReplyMatches, SampleExact, NoDatagram, RttInfo, Unit
  <2> QED
    BY <1>1, <2>1, <2>2, <2>3 DEF Tick, RttInv
<1>2. CASE Echo
  <2>1. RttSent'
    BY <1>2 DEF Echo, RttInv, RttSent, rtt_ts, Datagram
  <2>2. RttHeld' /\ RttTimer' /\ ReplyMatches' /\ SampleExact'
    BY <1>2 DEF Echo, RttInv, RttHeld, RttTimer, ReplyMatches, SampleExact, NoDatagram, RttInfo, Unit
  <2> QED
    BY <1>2, <2>1, <2>2 DEF Echo, RttInv
<1>3. CASE Call
  <2>1. PICK r \in RttInfo : /\ r = (IF rttinit = 0 THEN rtt_init ELSE rttinfo)
                            /\ r.rto >= RTT_RXTMIN * Unit /\ r.rto <= RTT_RXTMAX * Unit
    BY <1>3, InitInfo DEF Call, RttInv, RttTimer
  <2>2. rttinfo' = [srtt |-> r.srtt, rttvar |-> r.rttvar, rto |-> r.rto, nrexmt |-> 0]
    BY <1>3, <2>1 DEF Call, rtt_newpack, RttInfo
  <2>3. rttinfo' \in RttInfo /\ rttinfo'.nrexmt = 0 /\ rttinfo'.rto = r.rto
    BY <2>2 DEF RttInfo
  <2>4. rttinfo'.rto <= RTT_RXTMAX * Unit * 2 ^ rttinfo'.nrexmt
    <3>1. 0 \in 0 .. RTT_MAXNREXMT /\ r.rto \in Nat
      BY DEF RttInfo
    <3> QED
      BY <2>1, <2>3, <3>1, NotDoubled
  <2>5. RttTimer'
    BY <1>3, <2>1, <2>3, <2>4 DEF Call, RttTimer, RttInfo, Unit
  <2>6. RttSent' /\ RttHeld' /\ ReplyMatches' /\ SampleExact'
    BY <1>3 DEF Call, RttInv, RttSent, RttHeld, ReplyMatches, SampleExact, NoDatagram, rtt_ts, Datagram
  <2>7. seq' \in 0 .. NRequests
    BY <1>3 DEF Call, RttInv
  <2> QED
    BY <1>3, <2>5, <2>6, <2>7 DEF Call, RttInv
<1>4. CASE RttEof \/ UNCHANGED rttVars
  <2>1. UNCHANGED <<now, reqs, reps, rttinit, rttinfo, seq, recvhdr, deadline, printed, sample>>
    BY <1>4 DEF RttEof, rttVars
  <2>2. rpc' = rpc \/ (rpc = "idle" /\ rpc' = "done")
    BY <1>4 DEF RttEof, rttVars
  <2>3. RttSent' /\ RttHeld' /\ ReplyMatches' /\ SampleExact'
    BY <2>1, <2>2 DEF RttInv, RttSent, RttHeld, ReplyMatches, SampleExact, NoDatagram, rtt_ts, Datagram
  <2>4. RttTimer'
    BY <2>1, <2>2 DEF RttInv, RttTimer, RttInfo, Unit
  <2> QED
    BY <2>1, <2>2, <2>3, <2>4 DEF RttInv
<1>5. CASE SendAgain
  <2> DEFINE m == [seq |-> seq, ts |-> TimeStamp, line |-> seq, at |-> now]
  <2>1. now \in Nat /\ now \in 0 .. MaxNow /\ seq \in 1 .. NRequests
    BY <1>5 DEF SendAgain, RttInv, RttHeld
  <2>2. TimeStamp \in 0 .. TsMod - 1 /\ TimeStamp = rtt_ts(now)
    BY <2>1 DEF TimeStamp, rtt_ts
  <2>3. m \in Datagram /\ m.line = m.seq /\ m.ts = rtt_ts(m.at) /\ m.at <= now
    BY <2>1, <2>2 DEF Datagram
  <2>4. reqs' = reqs \cup {m} /\ reps' = reps /\ now' = now
    BY <1>5 DEF SendAgain
  <2> HIDE DEF m
  <2>5. RttSent'
    <3>1. \A k : rtt_ts(k)' = rtt_ts(k)
      BY DEF rtt_ts
    <3> QED
      BY <2>3, <2>4, <3>1 DEF RttInv, RttSent, Datagram, rtt_ts
  <2>6. RttHeld' /\ RttTimer' /\ ReplyMatches' /\ SampleExact'
    BY <1>5, <2>4 DEF SendAgain, RttInv, RttHeld, RttTimer, ReplyMatches, SampleExact, NoDatagram, RttInfo, Unit
  <2>7. deadline' \in Nat
    BY <1>5, <2>1, StartType DEF SendAgain, StartTimer, RttInv, RttTimer
  <2> QED
    BY <1>5, <2>5, <2>6, <2>7 DEF SendAgain, RttInv
<1>6. CASE Recvmsg
  <2>1. PICK m \in reps : recvhdr' = m /\ rpc' = IF Matches(m) THEN "got" ELSE "recv"
    BY <1>6 DEF Recvmsg
  <2>2. m \in reqs
    BY DEF RttInv, RttSent
  <2>3. RttHeld'
    BY <1>6, <2>1, <2>2 DEF Recvmsg, RttInv, RttHeld, Matches, NoDatagram
  <2>4. RttSent' /\ ReplyMatches' /\ SampleExact'
    BY <1>6 DEF Recvmsg, RttInv, RttSent, ReplyMatches, SampleExact, rtt_ts, Datagram
  <2>5. RttTimer'
    BY <1>6, <2>1 DEF Recvmsg, RttInv, RttTimer, RttInfo, Unit
  <2> QED
    BY <1>6, <2>1, <2>3, <2>4, <2>5 DEF Recvmsg, RttInv
<1>7. CASE Stop
  <2> DEFINE ms == (rtt_ts(now) - recvhdr.ts) % TsMod
  <2>1. /\ now \in Nat /\ recvhdr \in reqs /\ recvhdr \in Datagram /\ recvhdr.seq = seq
        /\ recvhdr.line = seq /\ recvhdr.ts = rtt_ts(recvhdr.at) /\ recvhdr.at <= now
    BY <1>7 DEF Stop, RttInv, RttHeld, RttSent
  <2>2. recvhdr.at \in Nat /\ recvhdr.ts \in Int /\ rtt_ts(now) \in Int
    BY <2>1 DEF Datagram, rtt_ts
  <2>3. ms \in Nat
    BY <2>2
  <2>4. now - recvhdr.at < TsMod => ms = now - recvhdr.at
    BY <2>1, <2>2, WrappedDifference
  <2>5. sample' = [ms |-> ms, real |-> now - recvhdr.at] /\ rttinfo' = rtt_stop(rttinfo, ms)
    BY <1>7 DEF Stop
  <2> HIDE DEF ms
  <2>6. SampleExact' /\ sample'.ms \in Nat /\ sample'.real \in Nat
    BY <2>1, <2>2, <2>3, <2>4, <2>5 DEF SampleExact
  <2>7. ReplyMatches'
    BY <1>7, <2>1 DEF Stop, RttInv, ReplyMatches
  <2>8. /\ rttinfo' \in RttInfo /\ rttinfo'.nrexmt = rttinfo.nrexmt
        /\ RTT_RXTMIN * Unit <= rttinfo'.rto /\ rttinfo'.rto <= RTT_RXTMAX * Unit
    BY <2>3, <2>5, StopInfo DEF RttInv, RttTimer
  <2>9. rttinfo'.nrexmt \in 0 .. RTT_MAXNREXMT
    BY <1>7, <2>8 DEF Stop, RttInv, RttTimer, RttInfo
  <2>10. rttinfo'.rto <= RTT_RXTMAX * Unit * 2 ^ rttinfo'.nrexmt
    BY <2>8, <2>9, NotDoubled DEF RttInfo
  <2>11. RttTimer'
    BY <1>7, <2>8, <2>9, <2>10 DEF Stop, RttTimer, RttInfo, Unit
  <2>12. RttSent' /\ RttHeld'
    BY <1>7 DEF Stop, RttInv, RttSent, RttHeld, NoDatagram, rtt_ts, Datagram
  <2> QED
    BY <1>7, <2>6, <2>7, <2>11, <2>12 DEF Stop, RttInv
<1>8. CASE RttAlarm
  <2>1. rttinfo \in RttInfo /\ rttinfo.nrexmt <= RTT_MAXNREXMT /\ rttinfo.rto >= RTT_RXTMIN * Unit
        /\ rttinfo.rto <= RTT_RXTMAX * Unit * 2 ^ rttinfo.nrexmt
    BY <1>8 DEF RttAlarm, RttInv, RttTimer
  <2>2. rttinfo' = rtt_timeout(rttinfo)[1]
    BY <1>8 DEF RttAlarm
  <2>3. /\ rttinfo' \in RttInfo /\ rttinfo'.nrexmt = rttinfo.nrexmt + 1
        /\ RTT_RXTMIN * Unit <= rttinfo'.rto /\ rttinfo'.rto <= RTT_RXTMAX * Unit * 2 ^ rttinfo'.nrexmt
    BY <2>1, <2>2, TimeoutInfo
  <2>4. \/ rpc' = "quit" /\ rttinit' = 0
        \/ rpc' = "send" /\ rttinit' = rttinit /\ ~(rttinfo.nrexmt + 1 > RTT_MAXNREXMT)
    BY <1>8 DEF RttAlarm, rtt_timeout
  <2>5. RttTimer'
    BY <2>1, <2>3, <2>4 DEF RttTimer, RttInfo, Unit
  <2>6. RttSent' /\ RttHeld' /\ ReplyMatches' /\ SampleExact'
    BY <1>8, <2>4 DEF RttAlarm, RttInv, RttSent, RttHeld, ReplyMatches, SampleExact, NoDatagram, rtt_ts, Datagram
  <2> QED
    BY <1>8, <2>4, <2>5, <2>6 DEF RttAlarm, RttInv
<1> QED
  BY <1>1, <1>2, <1>3, <1>4, <1>5, <1>6, <1>7, <1>8 DEF RttNext, RttStep

\* dg_send_recv() prints the reply to the line it sent, measures the round trip of the very
\* copy that was answered and keeps its timer within the backoff, for every order, loss and
\* duplication of datagrams, wherever the timestamp wraps around.
THEOREM ReplyIsExact == RttSpec => []ReplyExact
<1>1. RttInv => ReplyExact
  <2> SUFFICES ASSUME RttInv PROVE ReplyExact
    OBVIOUS
  <2>1. recvhdr \in Datagram \cup {NoDatagram}
    BY DEF RttInv, RttSent, RttHeld
  <2>2. RttTypes
    BY <2>1 DEF RttInv, RttSent, RttTimer, RttInfo, RttTypes
  <2> QED
    BY <2>2 DEF RttInv, RttTimer, ReplyExact, BackoffBounded
<1> QED
  BY <1>1, RttInvInit, RttInvNext, PTL DEF RttSpec
-----------------------------------------------------------------------------
(* The broadcast clients                                                    *)

\* A timer that is running or a byte in the pipe belongs to the line whose replies are
\* waited for; the byte is written only when the timer is off.
BcastInv ==
    /\ BcastTypes /\ rbuf <= replies
    /\ bpc \in {"fgets", "eof"} => alarm = "off" /\ pipe = 0
    /\ pipe # 0 => prog = "bcast6" /\ alarm = "off"

LEMMA BcastInvInit == BcastInit => BcastInv
<1> SUFFICES ASSUME NEW p \in Progs, BcastStart(p, "fgets") PROVE BcastInv
  BY DEF BcastInit
<1>1. masked \in BOOLEAN
  BY DEF BcastStart
<1>2. prog \in Progs /\ rbuf = 0 /\ replies = 0 /\ pipe = 0 /\ lines = 0 /\ alarm = "off" /\ bpc = "fgets"
  BY DEF BcastStart
<1> QED
  BY <1>1, <1>2, BcastAssumption DEF BcastInv, BcastTypes

LEMMA BcastInvNext == BcastInv /\ [BcastNext]_bcastVars => BcastInv'
<1> SUFFICES ASSUME BcastInv, [BcastNext]_bcastVars PROVE BcastInv'
  OBVIOUS
<1>1. masked' \in BOOLEAN
  BY DEF BcastInv, BcastTypes, BcastNext, BcastStep, Reply, Expire, DeliverAlrm, JustReturn, Jump, WriteByte,
         SendLine, BcastEof, Unblock, EnterWait, GotReply, SelectReturns, bcastVars
<1>2. /\ prog \in Progs /\ bpc \in {"fgets", "top", "call", "sleep", "eof"} /\ lines \in 0 .. NLines
      /\ alarm \in {"off", "set", "pending"} /\ pipe \in 0 .. 1 /\ rbuf \in 0 .. MaxReplies
      /\ replies \in 0 .. MaxReplies /\ rbuf <= replies
      /\ (bpc \in {"fgets", "eof"} => alarm = "off" /\ pipe = 0)
      /\ (pipe # 0 => prog = "bcast6" /\ alarm = "off")
  BY DEF BcastInv, BcastTypes
<1>3. CASE Reply \/ Expire \/ UNCHANGED bcastVars
  BY <1>1, <1>2, <1>3, BcastAssumption DEF BcastInv, BcastTypes, Reply, Expire, bcastVars
<1>4. CASE SendLine \/ BcastEof \/ Unblock \/ EnterWait
  BY <1>1, <1>2, <1>4, BcastAssumption DEF BcastInv, BcastTypes, SendLine, BcastEof, Unblock, EnterWait, TwoCalls
<1>5. CASE GotReply
  BY <1>1, <1>2, <1>5, BcastAssumption DEF BcastInv, BcastTypes, GotReply
<1>6. CASE SelectReturns
  BY <1>1, <1>2, <1>6, BcastAssumption DEF BcastInv, BcastTypes, SelectReturns, ReadPipe
<1>7. CASE DeliverAlrm
  <2>1. CASE JustReturn
    BY <1>1, <1>2, <1>7, <2>1, BcastAssumption DEF BcastInv, BcastTypes, DeliverAlrm, Deliverable, JustReturn
  <2>2. CASE Jump \/ WriteByte
    BY <1>1, <1>2, <1>7, <2>2, BcastAssumption DEF BcastInv, BcastTypes, DeliverAlrm, Deliverable, Jump, WriteByte
  <2> QED
    BY <1>7, <2>1, <2>2 DEF DeliverAlrm
<1> QED
  BY <1>3, <1>4, <1>5, <1>6, <1>7 DEF BcastNext, BcastStep

\* No broadcast client reads the next line with a timer still running or an expiry left in
\* its pipe, which would cut the next wait short, for any number of lines and replies.
THEOREM NoWaitCutShort == BcastSpec => []NoStaleTimeout
<1>1. BcastInv => NoStaleTimeout
  BY DEF BcastInv, NoStaleTimeout
<1> QED
  BY <1>1, BcastInvInit, BcastInvNext, PTL DEF BcastSpec

-----------------------------------------------------------------------------
(* The UDP echo server with signal-driven I/O                               *)

MainPlaces == {"setup", "async", "nonblock", "check", "suspend", "send", "advance", "block", "dec"}

\* Datagrams the main loop has left behind in the ring
Passed == Len(sent) - (IF mpc = "advance" THEN 1 ELSE 0)

\* The two indexes are the two counts, reduced to the ring, and the slots between them hold
\* the datagrams read and not sent.
RingHolds ==
    /\ iput = Len(received) % QSIZE /\ iget = Passed % QSIZE
    /\ \A k \in Len(sent) + 1 .. Len(received) : dg[(k - 1) % QSIZE] = received[k]

\* sig_io() runs only where SIGIO is not blocked, and has read no more than is queued.
InSigio == inHandler => ~Blocked /\ nread <= nqueue

SigioInv ==
    /\ NqueueExact
    /\ Len(sent) <= Len(received) /\ \A k \in 1 .. Len(sent) : sent[k] = received[k]
    /\ mpc = "send" => Len(sent) < Len(received)
    /\ mpc = "advance" => Len(sent) > 0
    /\ RingHolds /\ InSigio

\* if (++i >= QSIZE) i = 0 keeps an index the count, reduced to the ring (dgecho01.c:67,97).
LEMMA BumpCounts ==
    ASSUME NEW n \in Nat PROVE Bump(n % QSIZE) = (n + 1) % QSIZE
<1>0. QSIZE \in Nat \ {0} /\ n \in Int /\ n + 1 \in Int
  BY SigioAssumption
<1>1. PICK p \in Int, r \in 0 .. QSIZE - 1 : n = QSIZE * p + r /\ r = n % QSIZE
  BY <1>0, Divided
<1>2. PICK q \in Int, s \in 0 .. QSIZE - 1 : n + 1 = QSIZE * q + s /\ s = (n + 1) % QSIZE
  BY <1>0, Divided
<1> DEFINE P == QSIZE * p
           Q == QSIZE * q
<1>3. P \in Int /\ Q \in Int /\ n = P + r /\ n + 1 = Q + s /\ Q - P = r + 1 - s
  BY <1>0, <1>1, <1>2
<1>4. QSIZE * (q - p) = Q - P /\ QSIZE * (q - p - 1) = Q - P - QSIZE
  BY <1>0
<1> HIDE DEF P, Q
<1>5. CASE r + 1 < QSIZE
  <2>1. QSIZE * (q - p) < QSIZE /\ -QSIZE < QSIZE * (q - p) /\ q - p \in Int
    <3>1. r + 1 - s < QSIZE /\ -QSIZE < r + 1 - s
      BY <1>0, <1>5
    <3> QED
      BY <1>3, <1>4, <3>1
  <2>2. q - p = 0
    BY <1>0, <2>1, SmallMultiple
  <2>3. r + 1 - s = QSIZE * 0
    BY <1>3, <1>4, <2>2
  <2>4. r + 1 = s
    BY <1>0, <2>3
  <2>5. Bump(r) = r + 1
    BY <1>0, <1>5 DEF Bump
  <2> QED
    BY <1>1, <1>2, <2>4, <2>5
<1>6. CASE ~(r + 1 < QSIZE)
  <2>1. r + 1 = QSIZE
    BY <1>0, <1>6
  <2>2. -s < QSIZE /\ -QSIZE < -s /\ q - p - 1 \in Int /\ QSIZE * (q - p - 1) = -s
    BY <1>0, <1>3, <1>4, <2>1
  <2>3. q - p - 1 = 0
    BY <1>0, <2>2, SmallMultiple
  <2>4. -s = QSIZE * 0
    BY <2>2, <2>3
  <2>5. s = 0
    BY <1>0, <2>4
  <2>6. Bump(r) = 0
    BY <1>0, <1>6 DEF Bump
  <2> QED
    BY <1>1, <1>2, <2>5, <2>6
<1> QED
  BY <1>5, <1>6
LEMMA SigioInvInit == SigioInit => SigioInv
<1> SUFFICES ASSUME SigioInit PROVE SigioInv
  OBVIOUS
<1> USE SigioAssumption DEF SigioInit, SigioStart
<1>1. pending \in BOOLEAN /\ inHandler \in BOOLEAN /\ InSigio
  BY DEF InSigio
<1>2. 0 % QSIZE = 0
  OBVIOUS
<1>3. NqueueExact
  BY <1>1 DEF NqueueExact, SigioTypes, SlotsInUse, Slots, Dgrams
<1>4. RingHolds
  BY <1>2 DEF RingHolds, Passed
<1> QED
  BY <1>1, <1>3, <1>4 DEF SigioInv

\* What the proof uses of the state
LEMMA SigioFacts ==
    ASSUME SigioInv
    PROVE  /\ Len(sent) \in Nat /\ Len(received) \in Nat /\ Len(sent) <= Len(received)
           /\ nqueue \in 0 .. QSIZE /\ nqueue = SlotsInUse /\ Passed \in Nat /\ Passed <= Len(sent)
           /\ received \in Seq(Dgrams) /\ sent \in Seq(Dgrams) /\ sockbuf \in Seq(Dgrams)
           /\ dg \in [Slots -> Dgrams \cup {0}]
<1>1. /\ received \in Seq(Dgrams) /\ sent \in Seq(Dgrams) /\ sockbuf \in Seq(Dgrams)
      /\ dg \in [Slots -> Dgrams \cup {0}] /\ nqueue \in 0 .. QSIZE /\ nqueue = SlotsInUse
      /\ Len(sent) <= Len(received)
  BY DEF SigioInv, NqueueExact, SigioTypes
<1>2. Len(sent) \in Nat /\ Len(received) \in Nat
  BY <1>1
<1>3. Passed \in Nat /\ Passed <= Len(sent)
  BY <1>2 DEF SigioInv, Passed
<1> QED
  BY <1>1, <1>2, <1>3

\* The ring slot the handler fills is not one of those still to be sent.
LEMMA RecvKeeps == ASSUME SigioInv, HandlerRecv PROVE SigioInv'
<1> USE SigioAssumption DEF HandlerRecv
<1> DEFINE d == Head(sockbuf)
<1>1. d \in Dgrams /\ sockbuf' \in Seq(Dgrams) /\ Len(sockbuf') <= Len(sockbuf)
  BY SigioFacts
<1>2. received' = Append(received, d) /\ UNCHANGED <<arrived, pending, iget, mpc, inHandler, sent, early, exitBy>>
  OBVIOUS
<1>3. received' \in Seq(Dgrams) /\ Len(received') = Len(received) + 1 /\ received'[Len(received) + 1] = d
      /\ \A k \in 1 .. Len(received) : received'[k] = received[k]
  BY <1>1, <1>2, SigioFacts
<1>4. nqueue < QSIZE /\ nqueue' = nqueue + 1 /\ nqueue \in Nat /\ nread' = nread + 1 /\ nread \in Nat /\ nread <= nqueue
  BY SigioFacts DEF SigioInv, InSigio, Overflow, NqueueExact, SigioTypes
<1>5. iput \in Slots /\ iput' \in Slots /\ iput = Len(received) % QSIZE /\ iput' = (Len(received) + 1) % QSIZE
  <2>1. iput \in Slots /\ iput = Len(received) % QSIZE /\ iput' = Bump(iput)
    BY DEF SigioInv, NqueueExact, SigioTypes, RingHolds
  <2>2. iput' \in Slots
    BY <2>1 DEF Slots, Bump
  <2> QED
    BY <2>1, <2>2, BumpCounts, SigioFacts
<1>6. dg' = [dg EXCEPT ![iput] = d] /\ dg' \in [Slots -> Dgrams \cup {0}]
  BY <1>1, <1>5, SigioFacts
<1>7. SlotsInUse' = SlotsInUse + 1
  BY <1>2, <1>3, SigioFacts DEF SlotsInUse
<1>8. NqueueExact'
  <2>1. nqueue' = SlotsInUse'
    BY <1>4, <1>7, SigioFacts
  <2>2. nqueue' \in 0 .. QSIZE /\ nread' \in 0 .. QSIZE
    BY <1>4
  <2>3. pending' \in BOOLEAN /\ inHandler' \in BOOLEAN
    BY DEF SigioInv, NqueueExact, SigioTypes
  <2>4. Len(sockbuf') <= RcvBuf
    <3>1. Len(sockbuf) \in Nat /\ Len(sockbuf') \in Nat /\ Len(sockbuf) <= RcvBuf
      BY <1>1, SigioFacts DEF SigioInv, NqueueExact, SigioTypes
    <3> QED
      BY <1>1, <3>1
  <2>5. SigioTypes'
    <3>1. (arrived \in 0 .. NDgrams /\ sockbuf \in Seq(Dgrams) /\ Len(sockbuf) <= RcvBuf /\ pending \in BOOLEAN)'
      BY <1>1, <2>3, <2>4 DEF SigioInv, NqueueExact, SigioTypes, Dgrams
    <3>2. (dg \in [Slots -> Dgrams \cup {0}] /\ iget \in Slots /\ iput \in Slots /\ nqueue \in 0 .. QSIZE)'
      BY <1>5, <1>6, <2>2 DEF SigioInv, NqueueExact, SigioTypes, Dgrams, Slots
    <3>3. (/\ mpc \in MainPlaces /\ inHandler \in BOOLEAN /\ nread \in 0 .. QSIZE
           /\ received \in Seq(Dgrams) /\ sent \in Seq(Dgrams) /\ early \in 0 .. NDgrams /\ exitBy \in {"running", "overflow", "error"})'
      BY <1>3, <2>2, <2>3 DEF SigioInv, NqueueExact, SigioTypes, Dgrams, MainPlaces
    <3> QED
      BY <3>1, <3>2, <3>3 DEF SigioTypes, MainPlaces
  <2> QED
    BY <2>1, <2>5 DEF NqueueExact
<1>9. Passed' = Passed
  BY DEF Passed
<1>10. \A k \in Len(sent) + 1 .. Len(received) + 1 : dg'[(k - 1) % QSIZE] = received'[k]
  <2> SUFFICES ASSUME NEW k \in Len(sent) + 1 .. Len(received) + 1 PROVE dg'[(k - 1) % QSIZE] = received'[k]
    OBVIOUS
  <2>1. CASE k = Len(received) + 1
    BY <1>3, <1>5, <1>6, <2>1, SigioFacts
  <2>2. CASE k # Len(received) + 1
    <3>1. k \in Len(sent) + 1 .. Len(received) /\ k - 1 \in Nat /\ k \in 1 .. Len(received)
      BY <2>2, SigioFacts
    <3>2. Len(received) - Len(sent) <= nqueue
      BY SigioFacts DEF SlotsInUse
    <3>3. k - 1 <= Len(received) /\ Len(received) < (k - 1) + QSIZE /\ k - 1 # Len(received)
      BY <1>4, <3>1, <3>2, SigioFacts
    <3>4. (k - 1) % QSIZE # iput
      BY <1>5, <3>1, <3>3, SameRemainder, SigioFacts
    <3>5. (k - 1) % QSIZE \in Slots
      BY <3>1 DEF Slots
    <3>6. dg'[(k - 1) % QSIZE] = dg[(k - 1) % QSIZE]
      BY <1>6, <3>4, <3>5, SigioFacts
    <3> QED
      BY <1>3, <3>1, <3>6 DEF SigioInv, RingHolds
  <2> QED
    BY <2>1, <2>2
<1>11. RingHolds'
  BY <1>2, <1>3, <1>5, <1>9, <1>10 DEF SigioInv, RingHolds
<1>12. InSigio'
  BY <1>2, <1>4 DEF SigioInv, InSigio, Blocked
<1>13. Len(sent') <= Len(received') /\ \A k \in 1 .. Len(sent') : sent'[k] = received'[k]
  <2>1. sent' = sent /\ Len(sent) <= Len(received') /\ \A k \in 1 .. Len(sent) : k \in 1 .. Len(received)
    BY <1>2, <1>3, SigioFacts
  <2>2. \A k \in 1 .. Len(sent) : sent[k] = received[k]
    BY DEF SigioInv
  <2>3. \A k \in 1 .. Len(received) : received'[k] = received[k]
    BY <1>3
  <2> QED
    BY <2>1, <2>2, <2>3, Zenon
<1> QED
  BY <1>2, <1>3, <1>8, <1>11, <1>12, <1>13, SigioFacts DEF SigioInv

\* The main loop sends the oldest datagram that is in the ring.
LEMMA SendKeeps == ASSUME SigioInv, SendTo PROVE SigioInv'
<1> USE SigioAssumption DEF SendTo, MainRuns
<1>1. UNCHANGED <<arrived, sockbuf, pending, dg, iget, iput, nqueue, inHandler, nread, received, early, exitBy>>
      /\ mpc = "send" /\ mpc' = "advance" /\ inHandler = FALSE
  BY DEF SigioInv, NqueueExact, SigioTypes
<1>2. Len(sent) < Len(received) /\ Passed = Len(sent) /\ iget = Len(sent) % QSIZE
  BY <1>1, SigioFacts DEF SigioInv, Passed, RingHolds
<1>3. dg[iget] = received[Len(sent) + 1]
  <2>1. Len(sent) + 1 \in Len(sent) + 1 .. Len(received) /\ (Len(sent) + 1) - 1 = Len(sent)
    BY <1>2, SigioFacts
  <2> QED
    BY <1>2, <2>1 DEF SigioInv, RingHolds
<1>4. received[Len(sent) + 1] \in Dgrams
  BY <1>2, SigioFacts
<1>5. /\ sent' = Append(sent, received[Len(sent) + 1]) /\ sent' \in Seq(Dgrams) /\ Len(sent') = Len(sent) + 1
      /\ \A k \in 1 .. Len(sent) : sent'[k] = sent[k]
      /\ sent'[Len(sent) + 1] = received[Len(sent) + 1]
  BY <1>3, <1>4, SigioFacts
<1>6. NqueueExact'
  <2>1. SlotsInUse' = SlotsInUse
    BY <1>1, <1>5, SigioFacts DEF SlotsInUse
  <2>2. pending' \in BOOLEAN /\ inHandler' \in BOOLEAN
    BY <1>1 DEF SigioInv, NqueueExact, SigioTypes
  <2> QED
    BY <1>1, <1>5, <2>1, <2>2 DEF SigioInv, NqueueExact, SigioTypes
<1>7. Passed' = Passed
  BY <1>1, <1>2, <1>5, SigioFacts DEF Passed
<1>8. RingHolds'
  BY <1>1, <1>5, <1>7, SigioFacts DEF SigioInv, RingHolds
<1>9. InSigio'
  BY <1>1 DEF InSigio
<1>10. Len(sent') <= Len(received') /\ \A k \in 1 .. Len(sent') : sent'[k] = received'[k]
  BY <1>1, <1>2, <1>5, SigioFacts DEF SigioInv
<1> QED
  BY <1>1, <1>5, <1>6, <1>8, <1>9, <1>10, SigioFacts DEF SigioInv

\* Only then does it move on.
LEMMA AdvanceKeeps == ASSUME SigioInv, Advance PROVE SigioInv'
<1> USE SigioAssumption DEF Advance, MainRuns
<1>1. UNCHANGED <<arrived, sockbuf, pending, dg, iput, nqueue, inHandler, nread, received, sent, early, exitBy>>
      /\ mpc = "advance" /\ mpc' = "block" /\ inHandler = FALSE
  BY DEF SigioInv, NqueueExact, SigioTypes
<1>2. Passed = Len(sent) - 1 /\ Passed' = Len(sent) /\ Passed + 1 = Len(sent)
  BY <1>1, SigioFacts DEF Passed
<1>3. iget \in Slots /\ iget' = Bump(iget) /\ iget = Passed % QSIZE
  BY DEF SigioInv, NqueueExact, SigioTypes, RingHolds
<1>4. iget' \in Slots /\ iget' = Passed' % QSIZE
  <2>1. iget' \in Slots
    BY <1>3 DEF Slots, Bump
  <2>2. Passed \in Nat
    BY SigioFacts
  <2>3. Bump(Passed % QSIZE) = (Passed + 1) % QSIZE
    BY <2>2, BumpCounts
  <2> QED
    BY <1>2, <1>3, <2>1, <2>3
<1>5. NqueueExact'
  <2>1. SlotsInUse' = SlotsInUse
    BY <1>1 DEF SlotsInUse
  <2>2. pending' \in BOOLEAN /\ inHandler' \in BOOLEAN
    BY <1>1 DEF SigioInv, NqueueExact, SigioTypes
  <2> QED
    BY <1>1, <1>4, <2>1, <2>2 DEF SigioInv, NqueueExact, SigioTypes
<1>6. RingHolds'
  BY <1>1, <1>4 DEF SigioInv, RingHolds
<1> QED
  BY <1>1, <1>5, <1>6 DEF SigioInv, InSigio
LEMMA SigioInvNext == SigioInv /\ [SigioNext]_sigioVars => SigioInv'
<1> SUFFICES ASSUME SigioInv, [SigioNext]_sigioVars PROVE SigioInv'
  OBVIOUS
<1> USE SigioAssumption
<1>0. /\ pending \in BOOLEAN /\ inHandler \in BOOLEAN
      /\ mpc \in MainPlaces /\ exitBy \in {"running", "overflow", "error"}
      /\ arrived \in 0 .. NDgrams /\ early \in 0 .. NDgrams
  BY DEF SigioInv, NqueueExact, SigioTypes, MainPlaces
\* Steps that change neither the ring nor where the main loop is
<1>1. CASE DgramArrives \/ DeliverSigio \/ HandlerOverflow \/ IoError \/ UNCHANGED sigioVars
  <2>1. UNCHANGED <<dg, iget, iput, nqueue, mpc, received, sent>>
    BY <1>1 DEF DgramArrives, DeliverSigio, HandlerOverflow, IoError, sigioVars
  <2>2. pending' \in BOOLEAN /\ inHandler' \in BOOLEAN /\ exitBy' \in {"running", "overflow", "error"} /\ early' = early
    BY <1>0, <1>1 DEF DgramArrives, DeliverSigio, HandlerOverflow, IoError, sigioVars
  <2>3. arrived' \in 0 .. NDgrams /\ sockbuf' \in Seq(Dgrams) /\ Len(sockbuf') <= RcvBuf
    <3>1. CASE DgramArrives
      <4>1. arrived' \in 1 .. NDgrams /\ arrived' \in Dgrams
        BY <3>1 DEF DgramArrives, SigioInv, NqueueExact, SigioTypes, Dgrams
      <4>2. sockbuf \in Seq(Dgrams) /\ Len(sockbuf) \in Nat /\ Len(sockbuf) <= RcvBuf
        BY SigioFacts DEF SigioInv, NqueueExact, SigioTypes
      <4>3. CASE sockbuf' = sockbuf
        BY <4>1, <4>2, <4>3
      <4>4. CASE sockbuf' # sockbuf
        <5>1. sockbuf' = Append(sockbuf, arrived') /\ Len(sockbuf) < RcvBuf
          BY <3>1, <4>4 DEF DgramArrives
        <5>2. sockbuf' \in Seq(Dgrams) /\ Len(sockbuf') = Len(sockbuf) + 1
          BY <4>1, <4>2, <5>1
        <5> QED
          BY <4>1, <4>2, <5>1, <5>2
      <4> QED
        BY <4>3, <4>4
    <3>2. CASE ~DgramArrives
      BY <1>1, <3>2 DEF DeliverSigio, HandlerOverflow, IoError, sigioVars, SigioInv, NqueueExact, SigioTypes, Dgrams
    <3> QED
      BY <3>1, <3>2
  <2>4. InSigio' /\ nread' \in 0 .. QSIZE
    BY <1>0, <1>1, SigioFacts DEF DgramArrives, DeliverSigio, HandlerOverflow, IoError, sigioVars, SigioInv, InSigio,
          Blocked, NqueueExact, SigioTypes
  <2>5. SigioTypes'
    BY <2>1, <2>2, <2>3, <2>4 DEF SigioInv, NqueueExact, SigioTypes, Slots, Dgrams
  <2>6. SlotsInUse' = SlotsInUse /\ Passed' = Passed
    BY <2>1 DEF SlotsInUse, Passed
  <2>7. RingHolds'
    BY <2>1, <2>6 DEF SigioInv, RingHolds
  <2> QED
    BY <2>1, <2>4, <2>5, <2>6, <2>7 DEF SigioInv, NqueueExact
\* Steps of the main loop, and the return of the handler to it
<1>2. CASE HandlerReturn \/ StartStep \/ Check \/ SigHup \/ Block \/ Decrement
  <2>1. UNCHANGED <<arrived, sockbuf, pending, dg, iget, iput, received, sent, exitBy>>
    BY <1>2 DEF HandlerReturn, StartStep, Check, SigHup, Block, Decrement
  <2>2. inHandler' = FALSE /\ early' \in 0 .. NDgrams
    BY <1>0, <1>2 DEF HandlerReturn, StartStep, Check, SigHup, Block, Decrement, MainRuns
  <2>3. mpc' \in MainPlaces
    BY <1>0, <1>2 DEF HandlerReturn, Resume, StartStep, Check, SigHup, Block, Decrement, MainPlaces
  <2>4. nread' \in 0 .. QSIZE
    BY <1>2 DEF HandlerReturn, StartStep, Check, SigHup, Block, Decrement, SigioInv, NqueueExact, SigioTypes
  <2>5. nqueue' = SlotsInUse' /\ nqueue' \in 0 .. QSIZE
    <3>1. CASE Decrement
      <4>1. nqueue' = nqueue - 1 /\ mpc = "dec" /\ mpc' = "check"
        BY <3>1 DEF Decrement, OneLess
      <4>2. SlotsInUse = Len(received) - Len(sent) + 1 /\ SlotsInUse' = Len(received) - Len(sent)
        BY <2>1, <4>1, SigioFacts DEF SlotsInUse
      <4> QED
        BY <4>1, <4>2, SigioFacts
    <3>2. CASE ~Decrement
      <4>1. nqueue' = nqueue /\ (mpc' \in {"advance", "block", "dec"} <=> mpc \in {"advance", "block", "dec"})
        BY <1>2, <3>2 DEF HandlerReturn, Resume, StartStep, Check, SigHup, Block
      <4>2. SlotsInUse' = SlotsInUse
        BY <2>1, <4>1 DEF SlotsInUse
      <4> QED
        BY <4>1, <4>2, SigioFacts
    <3> QED
      BY <3>1, <3>2
  <2>6. SigioTypes'
    <3>1. inHandler' \in BOOLEAN /\ pending' \in BOOLEAN
      BY <1>0, <2>1, <2>2
    <3> QED
      BY <2>1, <2>2, <2>3, <2>4, <2>5, <3>1 DEF SigioInv, NqueueExact, SigioTypes, Slots, Dgrams, MainPlaces
  <2>7. mpc' = "send" => Len(sent) < Len(received)
    <3>1. CASE Check
      BY <3>1, SigioFacts DEF Check, SlotsInUse
    <3>2. CASE ~Check
      BY <1>2, <3>2 DEF HandlerReturn, Resume, StartStep, SigHup, Block, Decrement, SigioInv
    <3> QED
      BY <3>1, <3>2
  <2>8. mpc' = "advance" <=> mpc = "advance"
    BY <1>2 DEF HandlerReturn, Resume, StartStep, Check, SigHup, Block, Decrement
  <2>9. Passed' = Passed
    BY <2>1, <2>8 DEF Passed
  <2>10. RingHolds'
    BY <2>1, <2>9 DEF SigioInv, RingHolds
  <2> QED
    BY <2>1, <2>2, <2>5, <2>6, <2>7, <2>8, <2>10 DEF SigioInv, InSigio, NqueueExact
<1> QED
  BY <1>1, <1>2, RecvKeeps, SendKeeps, AdvanceKeeps DEF SigioNext, HandlerStep, MainStep

\* The echo server returns the datagrams in the order in which its handler read them, each
\* once and unchanged, and nqueue is exact whenever SIGIO interrupts the main loop, for every
\* size of the ring.
THEOREM EchoIsExact == SigioSpec => [](EchoInOrder /\ NqueueExact)
<1>1. SigioInv => EchoInOrder /\ NqueueExact
  <2> SUFFICES ASSUME SigioInv PROVE EchoInOrder /\ NqueueExact
    OBVIOUS
  <2> DEFINE first == SubSeq(received, 1, Len(sent))
  <2>1. first \in Seq(Dgrams) /\ Len(first) = Len(sent) /\ \A k \in 1 .. Len(sent) : first[k] = received[k]
    BY SigioFacts
  <2>2. sent = first
    BY <2>1, SigioFacts DEF SigioInv
  <2> QED
    BY <2>2 DEF SigioInv, EchoInOrder
<1> QED
  BY <1>1, SigioInvInit, SigioInvNext, PTL DEF SigioSpec

-----------------------------------------------------------------------------
(* Sequences of sequences, one after the other                              *)

\* A set of natural numbers that is not empty has a least member.
LEMMA LeastOf ==
    ASSUME NEW T, T \subseteq Nat, T # {}
    PROVE  \E x \in T : \A y \in T : x <= y
<1>1. PICK x \in T : \A y \in T : ~(<<y, x>> \in OpToRel(<, Nat))
  BY NatLessThanWellFounded, WFMin
<1>2. \A y \in T : ~(y < x)
  BY <1>1 DEF OpToRel
<1> QED
  BY <1>2

\* Concatenation is associative.
LEMMA Regroup ==
    ASSUME NEW S, NEW s \in Seq(S), NEW t \in Seq(S), NEW u \in Seq(S)
    PROVE  (s \o t) \o u = s \o (t \o u)
BY ConcatAssociative

\* f is the function FlattenSeq() computes, for the first n of the sequences ss.
FlatStep(f, ss, ix) == IF ix = 1 THEN ss[ix] ELSE f[ix - 1] \o ss[ix]
Flattens(f, ss, n) == f = [ix \in 1 .. n |-> FlatStep(f, ss, ix)]

\* There is such a function.
LEMMA FlattenExists ==
    ASSUME NEW ss, NEW m \in Nat
    PROVE  \E f : Flattens(f, ss, m)
<1> DEFINE Wrong == {n \in Nat : ~\E f : Flattens(f, ss, n)}
<1> SUFFICES ASSUME Wrong # {} PROVE FALSE
  OBVIOUS
<1>1. PICK n \in Wrong : \A k \in Wrong : n <= k
  BY LeastOf
<1>2. n # 0
  <2> SUFFICES Flattens([ix \in 1 .. 0 |-> 0], ss, 0)
    OBVIOUS
  <2> QED
    BY DEF Flattens
<1>3. n - 1 \in Nat /\ n - 1 \notin Wrong
  BY <1>1, <1>2
<1>4. PICK f : Flattens(f, ss, n - 1)
  BY <1>3
<1> DEFINE g == [ix \in 1 .. n |-> FlatStep(f, ss, ix)]
<1>5. ASSUME NEW ix \in 1 .. n PROVE FlatStep(g, ss, ix) = FlatStep(f, ss, ix)
  <2>1. CASE ix = 1
    BY <2>1 DEF FlatStep
  <2>2. CASE ix # 1
    <3>1. ix - 1 \in 1 .. n - 1 /\ ix - 1 \in 1 .. n
      BY <2>2
    <3>2. f[ix - 1] = FlatStep(f, ss, ix - 1)
      BY <1>4, <3>1 DEF Flattens
    <3>3. g[ix - 1] = FlatStep(f, ss, ix - 1)
      BY <3>1
    <3>4. g[ix - 1] = f[ix - 1]
      BY <3>2, <3>3
    <3> HIDE DEF g
    <3> QED
      BY <2>2, <3>4, Zenon DEF FlatStep
  <2> QED
    BY <2>1, <2>2
<1>6. Flattens(g, ss, n)
  BY <1>5 DEF Flattens
<1> QED
  BY <1>1, <1>6

\* What FlattenSeq() returns is the last value of that function.
LEMMA FlattenIs ==
    ASSUME NEW ss, Len(ss) \in Nat, Len(ss) # 0
    PROVE  \E f : Flattens(f, ss, Len(ss)) /\ FlattenSeq(ss) = f[Len(ss)]
<1> DEFINE f == CHOOSE f : f = [ix \in 1 .. Len(ss) |-> IF ix = 1 THEN ss[ix] ELSE f[ix - 1] \o ss[ix]]
<1>1. \E h : h = [ix \in 1 .. Len(ss) |-> IF ix = 1 THEN ss[ix] ELSE h[ix - 1] \o ss[ix]]
  BY FlattenExists, Zenon DEF Flattens, FlatStep
<1>2. f = [ix \in 1 .. Len(ss) |-> IF ix = 1 THEN ss[ix] ELSE f[ix - 1] \o ss[ix]]
  BY <1>1, Zenon
<1>3. FlattenSeq(ss) = f[Len(ss)]
  BY Zenon DEF FlattenSeq
<1> QED
  BY <1>2, <1>3, Zenon DEF Flattens, FlatStep

\* The parts are sequences, and what follows does not matter.
LEMMA FlattenParts ==
    ASSUME NEW S, NEW m \in Nat, NEW ss, \A ix \in 1 .. m : ss[ix] \in Seq(S), NEW f, Flattens(f, ss, m)
    PROVE  \A ix \in 1 .. m : f[ix] \in Seq(S)
<1> DEFINE Wrong == {ix \in 1 .. m : f[ix] \notin Seq(S)}
<1> SUFFICES ASSUME Wrong # {} PROVE FALSE
  OBVIOUS
<1>0. Wrong \subseteq Nat
  OBVIOUS
<1>1. PICK ix \in Wrong : \A k \in Wrong : ix <= k
  BY <1>0, LeastOf
<1>2. f[ix] = FlatStep(f, ss, ix) /\ ix \in 1 .. m
  BY <1>1 DEF Flattens
<1>3. CASE ix = 1
  BY <1>2, <1>3 DEF FlatStep
<1>4. CASE ix # 1
  <2>1. ix - 1 \in 1 .. m /\ ix - 1 \notin Wrong
    BY <1>1, <1>2, <1>4
  <2>2. f[ix - 1] \in Seq(S) /\ ss[ix] \in Seq(S)
    BY <2>1, <1>2
  <2>3. f[ix] = f[ix - 1] \o ss[ix]
    BY <1>2, <1>4 DEF FlatStep
  <2>4. f[ix - 1] \o ss[ix] \in Seq(S)
    BY <2>2, ConcatProperties
  <2> QED
    BY <1>1, <2>3, <2>4
<1> QED
  BY <1>3, <1>4

Agree(f, g, m) == \A ix \in 1 .. m : f[ix] = g[ix]

\* Two flattenings of sequences that agree up to m agree up to m.
LEMMA FlattenSame ==
    ASSUME NEW m \in Nat, NEW n \in Nat, m <= n, NEW ss, NEW tt, Agree(ss, tt, m),
           NEW f, NEW g, Flattens(f, ss, m), Flattens(g, tt, n)
    PROVE  Agree(f, g, m)
<1> DEFINE Wrong == {ix \in 1 .. m : f[ix] # g[ix]}
<1> SUFFICES ASSUME Wrong # {} PROVE FALSE
  BY DEF Agree
<1>0. Wrong \subseteq Nat
  OBVIOUS
<1>1. PICK ix \in Wrong : \A k \in Wrong : ix <= k
  BY <1>0, LeastOf
<1>a. ix \in 1 .. m /\ ix \in 1 .. n
  BY <1>1
<1>b. f[ix] = FlatStep(f, ss, ix)
  BY <1>a, Zenon DEF Flattens
<1>c. g[ix] = FlatStep(g, tt, ix)
  BY <1>a, Zenon DEF Flattens
<1>2. f[ix] = FlatStep(f, ss, ix) /\ g[ix] = FlatStep(g, tt, ix) /\ ix \in 1 .. m
  BY <1>a, <1>b, <1>c
<1>3. CASE ix = 1
  BY <1>1, <1>2, <1>3 DEF FlatStep, Agree
<1>4. CASE ix # 1
  <2>1. ix - 1 \in 1 .. m /\ ix - 1 \notin Wrong
    BY <1>1, <1>2, <1>4
  <2>2. f[ix - 1] = g[ix - 1] /\ ss[ix] = tt[ix]
    BY <2>1, <1>2 DEF Agree
  <2> QED
    BY <1>1, <1>2, <1>4, <2>2 DEF FlatStep
<1> QED
  BY <1>3, <1>4

\* FlattenSeq() concatenates.
LEMMA FlattenEmpty == FlattenSeq(<<>>) = <<>>
BY DEF FlattenSeq

\* What is flattened is a sequence of elements.
LEMMA FlattenType ==
    ASSUME NEW S, NEW ss \in Seq(Seq(S))
    PROVE  FlattenSeq(ss) \in Seq(S)
<1>0. Len(ss) \in Nat /\ \A ix \in 1 .. Len(ss) : ss[ix] \in Seq(S)
  OBVIOUS
<1>1. CASE Len(ss) = 0
  <2>1. ss = <<>>
    BY <1>1, EmptySeq
  <2>2. FlattenSeq(ss) = <<>>
    BY <2>1, FlattenEmpty
  <2> QED
    BY <2>2
<1>2. CASE Len(ss) # 0
  <2>1. PICK f : Flattens(f, ss, Len(ss)) /\ FlattenSeq(ss) = f[Len(ss)]
    BY <1>0, <1>2, FlattenIs
  <2>2. \A ix \in 1 .. Len(ss) : f[ix] \in Seq(S)
    BY <1>0, <2>1, FlattenParts
  <2> QED
    BY <1>0, <1>2, <2>1, <2>2
<1> QED
  BY <1>1, <1>2

\* Flattening one more sequence adds it at the end.
LEMMA FlattenAppend ==
    ASSUME NEW S, NEW ss \in Seq(Seq(S)), NEW t \in Seq(S)
    PROVE  FlattenSeq(Append(ss, t)) = FlattenSeq(ss) \o t
<1> DEFINE tt == Append(ss, t)
           n == Len(ss)
<1>0. n \in Nat /\ Len(tt) = n + 1 /\ tt[n + 1] = t /\ \A ix \in 1 .. n : ss[ix] = tt[ix]
  OBVIOUS
<1>a. FlattenSeq(Append(ss, t)) = FlattenSeq(tt)
  OBVIOUS
<1>b. n = 0 => ss = <<>>
  BY EmptySeq
<1>c. n # 0 => \E f : Flattens(f, ss, n) /\ FlattenSeq(ss) = f[n]
  BY FlattenIs
<1> HIDE DEF tt, n
<1>d. \E g : Flattens(g, tt, n + 1) /\ FlattenSeq(tt) = g[n + 1]
  <2>1. Len(tt) \in Nat /\ Len(tt) # 0
    BY <1>0
  <2>2. \E g : Flattens(g, tt, Len(tt)) /\ FlattenSeq(tt) = g[Len(tt)]
    BY <2>1, FlattenIs, Zenon
  <2> QED
    BY <1>0, <2>2, Zenon
<1>1. PICK g : Flattens(g, tt, n + 1) /\ FlattenSeq(tt) = g[n + 1]
  BY <1>d
<1>2. n + 1 \in 1 .. n + 1 /\ n + 1 \in Nat /\ n <= n + 1
  BY <1>0
<1>3. g[n + 1] = FlatStep(g, tt, n + 1)
  BY <1>1, <1>2, Zenon DEF Flattens
<1>4. CASE n = 0
  <2>1. FlattenSeq(tt) = t
    BY <1>0, <1>1, <1>3, <1>4 DEF FlatStep
  <2>2. FlattenSeq(ss) \o t = t
    BY <1>b, <1>4, FlattenEmpty
  <2> QED
    BY <1>a, <2>1, <2>2
<1>5. CASE n # 0
  <2>1. PICK f : Flattens(f, ss, n) /\ FlattenSeq(ss) = f[n]
    BY <1>5, <1>c
  <2>2. \A ix \in 1 .. n : f[ix] = g[ix]
    <3> DEFINE k == n + 1
    <3>1. Flattens(f, ss, n) /\ Flattens(g, tt, k) /\ n \in Nat /\ k \in Nat /\ n <= k
      BY <1>0, <1>1, <2>1
    <3>2. Agree(ss, tt, n)
      BY <1>0 DEF Agree
    <3> HIDE DEF k
    <3>3. Agree(f, g, n)
      BY <3>1, <3>2, FlattenSame
    <3> QED
      BY <3>3 DEF Agree
  <2>3. f[n] = g[n]
    BY <1>0, <1>5, <2>2
  <2>4. g[n + 1] = g[n] \o t
    BY <1>0, <1>3, <1>5 DEF FlatStep
  <2> QED
    BY <1>a, <1>1, <2>1, <2>3, <2>4
<1> QED
  BY <1>4, <1>5

\* A single sequence is flattened to itself.
LEMMA FlattenOne ==
    ASSUME NEW S, NEW t \in Seq(S)
    PROVE  FlattenSeq(<<t>>) = t
<1>1. <<>> \in Seq(Seq(S)) /\ <<t>> = Append(<<>>, t)
  OBVIOUS
<1>2. FlattenSeq(<<t>>) = <<>> \o t
  BY <1>1, FlattenAppend, FlattenEmpty
<1> QED
  BY <1>2

\* The length of a sequence with one element more.
LEMMA AppendLength == ASSUME NEW S, NEW s \in Seq(S), NEW e \in S PROVE Len(s) \in Nat /\ Len(Append(s, e)) = Len(s) + 1
OBVIOUS

\* Flattening distributes over concatenation.
LEMMA FlattenConcat ==
    ASSUME NEW S, NEW ss \in Seq(Seq(S)), NEW tt \in Seq(Seq(S))
    PROVE  FlattenSeq(ss \o tt) = FlattenSeq(ss) \o FlattenSeq(tt)
<1> DEFINE Differs(u) == FlattenSeq(ss \o u) # FlattenSeq(ss) \o FlattenSeq(u)
           Wrong == {n \in Nat : \E u \in Seq(Seq(S)) : Len(u) = n /\ Differs(u)}
<1>0. FlattenSeq(ss) \in Seq(S)
  BY FlattenType
<1>a. Differs(tt) => Len(tt) \in Wrong
  OBVIOUS
<1> SUFFICES ASSUME Wrong # {} PROVE FALSE
  BY <1>a
<1>1. PICK n \in Wrong : \A k \in Wrong : n <= k
  BY LeastOf
<1>2. PICK u \in Seq(Seq(S)) : Len(u) = n /\ Differs(u)
  BY <1>1
<1>3. u # <<>>
  <2>1. ss \o <<>> = ss /\ FlattenSeq(ss) \o <<>> = FlattenSeq(ss)
    BY <1>0, ConcatEmptySeq
  <2> QED
    BY <1>2, <2>1, FlattenEmpty
<1>4. PICK h \in Seq(Seq(S)), t \in Seq(S) : u = Append(h, t)
  BY <1>3, SequenceEmptyOrAppend
<1> HIDE DEF Differs
<1>5. Len(h) \in Nat /\ n = Len(h) + 1
  BY <1>2, <1>4, AppendLength, Zenon
<1>6. ~Differs(h)
  <2>1. ~(n <= Len(h))
    BY <1>5
  <2>2. Differs(h) => Len(h) \in Wrong
    BY <1>5, Zenon
  <2> QED
    BY <1>1, <2>1, <2>2, Zenon
<1> HIDE DEF Wrong
<1>8. ss \o h \in Seq(Seq(S)) /\ FlattenSeq(h) \in Seq(S)
  BY FlattenType
<1>7. ss \o u = Append(ss \o h, t)
  <2>1. <<t>> \in Seq(Seq(S))
    OBVIOUS
  <2>2. u = h \o <<t>> /\ Append(ss \o h, t) = (ss \o h) \o <<t>>
    BY <1>4, <1>8, AppendIsConcat
  <2>3. (ss \o h) \o <<t>> = ss \o (h \o <<t>>)
    BY <2>1, Regroup, SMTT(60)
  <2> QED
    BY <2>2, <2>3
<1>9. FlattenSeq(ss \o u) = (FlattenSeq(ss) \o FlattenSeq(h)) \o t
  BY <1>6, <1>7, <1>8, FlattenAppend DEF Differs
<1>10. FlattenSeq(u) = FlattenSeq(h) \o t
  BY <1>4, FlattenAppend
<1>11. (FlattenSeq(ss) \o FlattenSeq(h)) \o t = FlattenSeq(ss) \o (FlattenSeq(h) \o t)
  <2> DEFINE a == FlattenSeq(ss)
             b == FlattenSeq(h)
  <2>1. a \in Seq(S) /\ b \in Seq(S)
    BY <1>0, <1>8
  <2> HIDE DEF a, b
  <2>2. (a \o b) \o t = a \o (b \o t)
    BY <2>1, Regroup, SMTT(60)
  <2> QED
    BY <2>2 DEF a, b
<1> QED
  BY <1>2, <1>9, <1>10, <1>11 DEF Differs

-----------------------------------------------------------------------------
(* The copy loops of sock                                                   *)

Bytes == {"a", "n", "r"}

LoopTypes ==
    /\ lProg \in LoopProgs /\ lEof \in BOOLEAN /\ lFin \in BOOLEAN /\ lStray \in BOOLEAN /\ lFlags \in BOOLEAN
    /\ lIn \in Seq(Bytes) /\ lGot \in Seq(Bytes) /\ lStd \in Seq(Seq(Bytes))
    /\ Tcp => lNet \in Seq(Bytes)
    /\ ~Tcp => lNet \in Seq(Seq(Bytes))
    /\ IsLoop(lProg.fn) => lRead \in Seq(Bytes) /\ lSent \in Seq(Bytes)

\* Where each kind of function can be; only TCP has an end.
LoopPlaces ==
    /\ lPc \in {"select", "stdin"} => IsLoop(lProg.fn)
    /\ lPc = "source" => IsSource(lProg.fn)
    /\ lPc = "sock" => ~IsSource(lProg.fn)
    /\ lPc # "iov_full"
    /\ lFin => Tcp
    /\ lStray => lProg.sock \in {"unc", "servo"}

\* What select() has found is still there.
InputReady == lPc = "stdin" /\ "stdin" \in lSet => lIn # <<>> \/ lEof

\* What has been copied so far.
LoopCopied ==
    IsLoop(lProg.fn) /\ lPc # "died" => (lSent = Converted \/ lStray) /\ PrintedRight

\* Between a peek and the second recv() nothing else runs; what was peeked at is the
\* beginning of what that call is going to take.
PeekShown ==
    IsLoop(lProg.fn) /\ lPc # "died" =>
       /\ lFlags => lPc \in {"sock", "closed"} /\ "sock" \in lSet
       /\ Peeks /\ ~lFlags => \E m \in Nat : Len(lStd) = 2 * m
       /\ Peeks /\ lFlags => \E m \in Nat, s \in Seq(Bytes), u \in Seq(Bytes) :
                               Len(lStd) = 2 * m + 1 /\ Taken = s \o u /\ lStd[2 * m + 1] = Shown(s)

\* Why a function has ended.
LoopClosed ==
    lPc = "closed" =>
       /\ IsLoop(lProg.fn) /\ lProg.half => lFin /\ lNet = <<>>
       /\ IsLoop(lProg.fn) /\ ~lProg.half => lFin \/ lEof \/ (lProg.sock = "cli" /\ lNet # <<>> /\ Head(lNet) = <<>>)
       /\ IsSink(lProg.fn) /\ Tcp => lFin /\ lNet = <<>>

\* The source has written the first buffers of its pattern, over UDP without the urgent byte.
SourceWrote ==
    IsSource(lProg.fn) =>
       /\ lRead \in {<<>>, <<"w">>, <<"w", "u">>, Buffers}
       /\ lPc = "closed" => lRead = Buffers
       /\ lPc # "died" /\ ~lProg.ignore =>
             lSent = IF Tcp \/ Len(lRead) < 2 THEN lRead ELSE IF Len(lRead) = 2 THEN <<"w">> ELSE <<"w", "w">>

LoopInv == LoopTypes /\ LoopPlaces /\ InputReady /\ LoopCopied /\ PeekShown /\ LoopClosed /\ SourceWrote

\* A sequence with G applied to each of its elements; the images of two sequences follow each other.
Image(G, u) == [k \in 1 .. Len(u) |-> G[u[k]]]

\* A function applied to every element keeps the length,
LEMMA ImageLen ==
    ASSUME NEW G, NEW u, Len(u) \in Nat
    PROVE  Len(Image(G, u)) = Len(u)
<1> DEFINE n == Len(u)
<1>1. n \in Nat /\ Image(G, u) = [k \in 1 .. n |-> G[u[k]]]
  BY DEF Image
<1> HIDE DEF n
<1>2. Len(Image(G, u)) = n
  BY <1>1
<1> QED
  BY <1>2 DEF n

\* and gives a sequence over the function's range.
LEMMA ImageType ==
    ASSUME NEW S, NEW T, NEW G, \A x \in S : G[x] \in T, NEW u \in Seq(S)
    PROVE  Image(G, u) \in Seq(T)
<1> DEFINE n == Len(u)
<1>1. n \in Nat /\ \A k \in 1 .. n : G[u[k]] \in T
  OBVIOUS
<1>2. Image(G, u) = [k \in 1 .. n |-> G[u[k]]]
  BY DEF Image
<1> HIDE DEF n
<1>3. Image(G, u) \in [1 .. n -> T]
  BY <1>1, <1>2
<1> QED
  BY <1>1, <1>3

\* The length of a concatenation.
LEMMA LenConcat ==
    ASSUME NEW T, NEW s \in Seq(T), NEW t \in Seq(T)
    PROVE  s \o t \in Seq(T) /\ Len(s \o t) = Len(s) + Len(t)
OBVIOUS

\* A function applied to every element distributes over concatenation.
LEMMA ImageConcat ==
    ASSUME NEW S, NEW G, NEW s \in Seq(S), NEW t \in Seq(S)
    PROVE  Image(G, s \o t) = Image(G, s) \o Image(G, t)
<1> DEFINE a == Image(G, s)
           b == Image(G, t)
           c == Image(G, s \o t)
<1>0. s \o t \in Seq(S) /\ Len(s \o t) = Len(s) + Len(t) /\ Len(s) \in Nat /\ Len(t) \in Nat /\ Len(s) + Len(t) \in Nat
  OBVIOUS
<1> DEFINE T == {G[x] : x \in S}
<1>1. a \in Seq(T) /\ b \in Seq(T) /\ c \in Seq(T)
  <2>1. \A x \in S : G[x] \in T
    OBVIOUS
  <2> HIDE DEF T
  <2> QED
    BY <1>0, <2>1, ImageType, Zenon
<1>6. Len(a) = Len(s) /\ Len(b) = Len(t) /\ Len(c) = Len(s) + Len(t)
  <2>1. Len(a) = Len(s) /\ Len(b) = Len(t)
    BY <1>0, ImageLen, Zenon
  <2>2. Len(s \o t) \in Nat
    BY <1>0
  <2>3. Len(c) = Len(s \o t)
    BY <2>2, ImageLen, Zenon
  <2> QED
    BY <1>0, <2>1, <2>3
<1>2. /\ \A k \in 1 .. Len(s) : a[k] = G[s[k]]
      /\ \A k \in 1 .. Len(t) : b[k] = G[t[k]]
      /\ \A k \in 1 .. Len(s) + Len(t) : c[k] = G[(s \o t)[k]]
  BY <1>0 DEF Image
<1> HIDE DEF a, b, c, T
<1>3. \A k \in 1 .. Len(c) : c[k] = (a \o b)[k]
  <2> TAKE k \in 1 .. Len(c)
  <2>1. CASE k <= Len(s)
    BY <1>0, <1>1, <1>6, <1>2, <2>1
  <2>2. CASE k > Len(s)
    <3>1. k - Len(s) \in 1 .. Len(t) /\ (s \o t)[k] = t[k - Len(s)] /\ (a \o b)[k] = b[k - Len(s)]
      BY <1>0, <1>1, <1>6, <2>2
    <3> QED
      BY <1>0, <1>1, <1>6, <1>2, <3>1
  <2> QED
    BY <1>0, <1>1, <1>6, <2>1, <2>2
<1>4. a \o b \in Seq(T) /\ Len(a \o b) = Len(c)
  <2>1. a \o b \in Seq(T) /\ Len(a \o b) = Len(a) + Len(b)
    BY <1>1, LenConcat
  <2> QED
    BY <1>6, <2>1
<1>5. c = a \o b
  BY <1>1, <1>3, <1>4, SeqEqual
<1> QED
  BY <1>5 DEF a, b, c

\* What crlf_add() and crlf_strip() make of one byte; they convert byte by byte.
WithReturn == [b \in Bytes |-> IF b = "n" THEN <<"r", "n">> ELSE <<b>>]
NoReturn == [b \in Bytes |-> IF b = "r" THEN <<>> ELSE <<b>>]

\* -c and its inverse convert byte by byte.
LEMMA ByteByByte ==
    ASSUME NEW u \in Seq(Bytes)
    PROVE  crlf_add(u) = FlattenSeq(Image(WithReturn, u)) /\ crlf_strip(u) = FlattenSeq(Image(NoReturn, u))
<1>0. DOMAIN u = 1 .. Len(u) /\ \A k \in 1 .. Len(u) : u[k] \in Bytes
  OBVIOUS
<1>1. [k \in DOMAIN u |-> IF u[k] = "n" THEN <<"r", "n">> ELSE <<u[k]>>] = Image(WithReturn, u)
  BY <1>0, Zenon DEF Image, WithReturn
<1>2. [k \in DOMAIN u |-> IF u[k] = "r" THEN <<>> ELSE <<u[k]>>] = Image(NoReturn, u)
  BY <1>0, Zenon DEF Image, NoReturn
<1> QED
  BY <1>1, <1>2, Zenon DEF crlf_add, crlf_strip

\* A byte is converted to some bytes.
LEMMA ByteTypes == \A b \in Bytes : WithReturn[b] \in Seq(Bytes) /\ NoReturn[b] \in Seq(Bytes)
<1>1. "r" \in Bytes /\ "n" \in Bytes
  BY DEF Bytes
<1>2. <<"r", "n">> \in Seq(Bytes) /\ <<>> \in Seq(Bytes) /\ \A b \in Bytes : <<b>> \in Seq(Bytes)
  BY <1>1
<1> QED
  BY <1>2, Zenon DEF WithReturn, NoReturn

\* crlf_add() does not see where one buffer ends and the next begins.
LEMMA AddConcat ==
    ASSUME NEW s \in Seq(Bytes), NEW t \in Seq(Bytes)
    PROVE  crlf_add(s) \in Seq(Bytes) /\ crlf_add(s \o t) = crlf_add(s) \o crlf_add(t)
<1> DEFINE a == Image(WithReturn, s)
           b == Image(WithReturn, t)
<1>1. a \in Seq(Seq(Bytes)) /\ b \in Seq(Seq(Bytes))
  BY ByteTypes, ImageType, Zenon
<1>5. s \o t \in Seq(Bytes)
  OBVIOUS
<1>2. Image(WithReturn, s \o t) = a \o b
  BY ImageConcat
<1>3. crlf_add(s) = FlattenSeq(a) /\ crlf_add(t) = FlattenSeq(b) /\ crlf_add(s \o t) = FlattenSeq(a \o b)
  BY <1>5, <1>2, ByteByByte, Zenon
<1> HIDE DEF a, b
<1>4. FlattenSeq(a \o b) = FlattenSeq(a) \o FlattenSeq(b) /\ FlattenSeq(a) \in Seq(Bytes)
  BY <1>1, FlattenConcat, FlattenType
<1> QED
  BY <1>3, <1>4

\* Nor does crlf_strip().
LEMMA StripConcat ==
    ASSUME NEW s \in Seq(Bytes), NEW t \in Seq(Bytes)
    PROVE  crlf_strip(s) \in Seq(Bytes) /\ crlf_strip(s \o t) = crlf_strip(s) \o crlf_strip(t)
<1> DEFINE a == Image(NoReturn, s)
           b == Image(NoReturn, t)
<1>1. a \in Seq(Seq(Bytes)) /\ b \in Seq(Seq(Bytes))
  BY ByteTypes, ImageType, Zenon
<1>5. s \o t \in Seq(Bytes)
  OBVIOUS
<1>2. Image(NoReturn, s \o t) = a \o b
  BY ImageConcat
<1>3. crlf_strip(s) = FlattenSeq(a) /\ crlf_strip(t) = FlattenSeq(b) /\ crlf_strip(s \o t) = FlattenSeq(a \o b)
  BY <1>5, <1>2, ByteByByte, Zenon
<1> HIDE DEF a, b
<1>4. FlattenSeq(a \o b) = FlattenSeq(a) \o FlattenSeq(b) /\ FlattenSeq(a) \in Seq(Bytes)
  BY <1>1, FlattenConcat, FlattenType
<1> QED
  BY <1>3, <1>4

\* Nothing is converted to nothing.
LEMMA ConvertEmpty == crlf_add(<<>>) = <<>> /\ crlf_strip(<<>>) = <<>>
<1>1. [k \in DOMAIN <<>> |-> IF <<>>[k] = "n" THEN <<"r", "n">> ELSE <<<<>>[k]>>] = <<>>
  OBVIOUS
<1>2. [k \in DOMAIN <<>> |-> IF <<>>[k] = "r" THEN <<>> ELSE <<<<>>[k]>>] = <<>>
  OBVIOUS
<1> QED
  BY <1>1, <1>2, FlattenEmpty DEF crlf_add, crlf_strip

\* Neither does what is written to standard output.
LEMMA ShownConcat ==
    ASSUME NEW s \in Seq(Bytes), NEW t \in Seq(Bytes)
    PROVE  Shown(s) \in Seq(Bytes) /\ Shown(t) \in Seq(Bytes) /\ Shown(s \o t) = Shown(s) \o Shown(t)
BY StripConcat, Zenon DEF Shown

\* Every second element
Evens(w) == [k \in 1 .. Len(w) \div 2 |-> w[2 * k]]

\* v is w with x in a new odd place,
OddGrown(v, w, x, m) ==
    /\ Len(v) = 2 * m + 1 /\ v[2 * m + 1] = x
    /\ Len(v) \div 2 = Len(w) \div 2
    /\ \A k \in 1 .. Len(w) \div 2 : v[2 * k] = w[2 * k] /\ v[2 * k - 1] = w[2 * k - 1]
    /\ Evens(v) = Evens(w)

\* or in a new even place.
EvenGrown(v, w, x, m, S) ==
    /\ Len(v) = 2 * (m + 1) /\ v[2 * (m + 1)] = x
    /\ v[2 * (m + 1) - 1] = w[2 * m + 1]
    /\ Len(w) \div 2 = m /\ Len(v) \div 2 = m + 1
    /\ \A k \in 1 .. m : v[2 * k] = w[2 * k] /\ v[2 * k - 1] = w[2 * k - 1]
    /\ Evens(w) \in Seq(S) /\ Evens(v) = Append(Evens(w), x)

\* An element in an odd place leaves the others,
LEMMA OddAdded ==
    ASSUME NEW S, NEW w \in Seq(S), NEW x \in S, NEW m \in Nat, Len(w) = 2 * m
    PROVE  OddGrown(Append(w, x), w, x, m)
<1>1. Len(Append(w, x)) = 2 * m + 1 /\ Append(w, x)[2 * m + 1] = x /\ \A i \in 1 .. 2 * m : Append(w, x)[i] = w[i]
  OBVIOUS
<1>2. (2 * m + 1) \div 2 = m /\ (2 * m) \div 2 = m
  OBVIOUS
<1>3. \A k \in 1 .. m : Append(w, x)[2 * k] = w[2 * k] /\ Append(w, x)[2 * k - 1] = w[2 * k - 1]
  <2>1. \A k \in 1 .. m : 2 * k \in 1 .. 2 * m /\ 2 * k - 1 \in 1 .. 2 * m
    OBVIOUS
  <2> QED
    BY <1>1, <2>1
<1> QED
  BY <1>1, <1>2, <1>3, Zenon DEF Evens, OddGrown

\* one in an even place comes behind them.
LEMMA EvenAdded ==
    ASSUME NEW S, NEW w \in Seq(S), NEW x \in S, NEW m \in Nat, Len(w) = 2 * m + 1
    PROVE  EvenGrown(Append(w, x), w, x, m, S)
<1> DEFINE v == Append(w, x)
<1>1. v \in Seq(S) /\ Len(v) = 2 * (m + 1) /\ v[2 * (m + 1)] = x /\ \A i \in 1 .. 2 * m + 1 : v[i] = w[i]
  OBVIOUS
<1>2. Len(w) \div 2 = m /\ Len(v) \div 2 = m + 1 /\ 2 * (m + 1) - 1 = 2 * m + 1
  BY <1>1
<1>4. \A k \in 1 .. m : 2 * k \in 1 .. 2 * m + 1 /\ 2 * k - 1 \in 1 .. 2 * m + 1
  OBVIOUS
<1> HIDE DEF v
<1>3. \A k \in 1 .. m : v[2 * k] = w[2 * k] /\ v[2 * k - 1] = w[2 * k - 1]
  BY <1>1, <1>4
<1>5. \A k \in 1 .. m : w[2 * k] \in S
  BY <1>4
<1>6. Evens(w) = [k \in 1 .. m |-> w[2 * k]] /\ Evens(v) = [k \in 1 .. m + 1 |-> v[2 * k]]
  BY <1>2, Zenon DEF Evens
<1>7. Evens(w) \in Seq(S) /\ Len(Evens(w)) = m /\ \A k \in 1 .. m : Evens(w)[k] = w[2 * k]
  BY <1>5, <1>6
<1>8. \A k \in 1 .. m + 1 : v[2 * k] \in S
  BY <1>1, <1>3, <1>5
<1>9. Evens(v) \in Seq(S) /\ Len(Evens(v)) = m + 1 /\ \A k \in 1 .. m + 1 : Evens(v)[k] = v[2 * k]
  BY <1>6, <1>8
<1>10. Append(Evens(w), x) \in Seq(S) /\ Len(Append(Evens(w), x)) = m + 1 /\ Append(Evens(w), x)[m + 1] = x
       /\ \A k \in 1 .. m : Append(Evens(w), x)[k] = w[2 * k]
  BY <1>7
<1>11. \A k \in 1 .. m + 1 : Evens(v)[k] = Append(Evens(w), x)[k]
  BY <1>1, <1>3, <1>9, <1>10
<1>12. Evens(v) = Append(Evens(w), x)
  BY <1>9, <1>10, <1>11, SeqEqual
<1>13. v[2 * (m + 1) - 1] = w[2 * m + 1]
  BY <1>1, <1>2
<1> QED
  BY <1>1, <1>2, <1>3, <1>7, <1>12, <1>13 DEF v, EvenGrown

\* What is followed by something is a prefix.
LEMMA FrontIsPrefix ==
    ASSUME NEW S, NEW s \in Seq(S), NEW t \in Seq(S)
    PROVE  IsPrefix(s, s \o t)
<1>1. Len(s) \in Nat /\ s \o t \in Seq(S) /\ Len(s \o t) = Len(s) + Len(t) /\ Len(t) \in Nat
  OBVIOUS
<1>2. \A k \in 1 .. Len(s) : (s \o t)[k] = s[k]
  OBVIOUS
<1>3. SubSeq(s, 1, Len(s)) = s
  BY SubSeqFull
<1>4. SubSeq(s \o t, 1, Len(s)) \in Seq(S) /\ Len(SubSeq(s \o t, 1, Len(s))) = Len(s)
      /\ \A k \in 1 .. Len(s) : SubSeq(s \o t, 1, Len(s))[k] = (s \o t)[k]
  BY <1>1
<1>5. SubSeq(s \o t, 1, Len(s)) = s
  BY <1>2, <1>4, SeqEqual
<1> QED
  BY <1>1, <1>3, <1>5 DEF IsPrefix

\* MaxIov chunks of dowrite() hold the whole buffer.
LEMMA ChunksHold ==
    ASSUME NEW n \in Nat
    PROVE  chunksize(n) \in Nat /\ MaxIov * chunksize(n) >= n
<1> DEFINE q == n \div MaxIov
           r == n % MaxIov
<1>1. MaxIov \in Nat \ {0}
  BY LoopAssumption
<1>2. q \in Int /\ r \in Nat /\ n = MaxIov * q + r /\ r < MaxIov
  BY <1>1
<1>3. chunksize(n) = IF q = 0 THEN 1 ELSE IF r # 0 THEN q + 1 ELSE q
  BY DEF chunksize
<1> HIDE DEF q, r
<1>4. q \in Nat
  <2> SUFFICES ASSUME q + 1 <= 0 PROVE FALSE
    BY <1>2
  <2>1. MaxIov * (q + 1) <= 0
    BY <1>1, <1>2
  <2>2. MaxIov * (q + 1) = MaxIov * q + MaxIov
    BY <1>1, <1>2
  <2> QED
    BY <1>1, <1>2, <2>1, <2>2
<1>5. CASE q = 0
  BY <1>1, <1>2, <1>3, <1>5
<1>6. CASE q # 0 /\ r # 0
  <2>1. MaxIov * (q + 1) = MaxIov * q + MaxIov
    BY <1>1, <1>2
  <2> QED
    BY <1>1, <1>2, <1>3, <1>4, <1>6, <2>1
<1>7. CASE q # 0 /\ r = 0
  BY <1>1, <1>2, <1>3, <1>4, <1>7
<1> QED
  BY <1>5, <1>6, <1>7

\* dowrite() writes the whole buffer, in however many chunks (sock/write.c).
LEMMA WritesAll ==
    ASSUME NEW bytes \in Seq(Bytes)
    PROVE  dowrite(bytes) = bytes
<1> DEFINE n == Len(bytes)
           m == MaxIov * chunksize(n)
<1>1. n \in Nat /\ SubSeq(bytes, 1, n) = bytes
  BY SubSeqFull
<1>2. m \in Int /\ m >= n
  <2> HIDE DEF n
  <2> QED
    BY <1>1, ChunksHold, LoopAssumption
<1>3. dowrite(bytes) = IF ~lProg.chunk THEN bytes ELSE SubSeq(bytes, 1, IF m < n THEN m ELSE n)
  BY DEF dowrite
<1> HIDE DEF n, m
<1> QED
  BY <1>1, <1>2, <1>3

\* Which sockets the functions have.
LEMMA ProgFacts ==
    ASSUME lProg \in LoopProgs
    PROVE  /\ lProg.crlf \in BOOLEAN /\ lProg.half \in BOOLEAN /\ lProg.ignore \in BOOLEAN /\ lProg.peek \in BOOLEAN
           /\ IsLoop(lProg.fn) \/ IsSink(lProg.fn) \/ IsSource(lProg.fn)
           /\ IsLoop(lProg.fn) => ~IsSink(lProg.fn) /\ ~IsSource(lProg.fn)
           /\ IsSink(lProg.fn) => ~IsSource(lProg.fn)
           /\ lProg.half => Tcp
           /\ lProg.fn = "loop_tcp" => Tcp
           /\ lProg.fn = "loop_udp" => ~Tcp
           /\ lProg.fn \in {"sink", "sink_tcp", "source", "source_tcp"} => Tcp
           /\ lProg.fn \in {"sink_udp", "source_udp"} => ~Tcp
           /\ lProg.fn = "loop" => lProg.sock \in {"tcp", "cli", "serv", "conn"} /\ ~lProg.peek
<1>1. <<lProg.fn, lProg.sock>> \in Combos /\ (lProg.half => lProg.sock = "tcp")
      /\ (lProg.peek => lProg.fn \in {"loop_tcp", "loop_udp", "sink_tcp", "sink_udp"})
  BY DEF LoopProgs
<1>2. lProg.crlf \in BOOLEAN /\ lProg.half \in BOOLEAN /\ lProg.ignore \in BOOLEAN /\ lProg.peek \in BOOLEAN
  BY DEF LoopProgs
<1> QED
  BY <1>1, <1>2 DEF Combos, IsLoop, IsSink, IsSource, Tcp

\* The invariant of the copy loops holds at the start.
LEMMA LoopStarts == LoopInit => LoopInv
<1> SUFFICES ASSUME NEW prg \in LoopProgs,
                    LoopStart(prg, IF IsLoop(prg.fn) THEN "select" ELSE IF IsSink(prg.fn) THEN "sock" ELSE "source")
             PROVE  LoopInv
  BY DEF LoopInit
<1>0. lProg \in LoopProgs
  BY DEF LoopStart
<1>1. LoopTypes
  <2>1. <<>> \in Seq(Bytes) /\ <<>> \in Seq(Seq(Bytes))
    OBVIOUS
  <2> QED
    BY <2>1, Zenon DEF LoopStart, LoopTypes
<1>2. LoopPlaces /\ InputReady
  BY <1>0, ProgFacts DEF LoopStart, LoopPlaces, InputReady
<1>3. LoopCopied
  <2>1. Rereads = <<>> /\ 1 .. Len(lStd) \div 2 = {}
    <3>1. lStd = <<>> /\ Len(lStd) \div 2 = 0
      BY DEF LoopStart
    <3> QED
      BY <3>1 DEF Rereads
  <2>2. FlattenSeq(<<>>) = <<>> /\ Shown(<<>>) = <<>>
    BY ConvertEmpty, FlattenEmpty, Zenon DEF Shown
  <2>3. PrintedRight
    BY <2>1, <2>2 DEF LoopStart, PrintedRight
  <2> QED
    BY <2>3, ConvertEmpty DEF LoopStart, LoopCopied, Converted
<1>5. PeekShown
  <2>1. lFlags = FALSE /\ Len(lStd) = 2 * 0 /\ 0 \in Nat
    BY DEF LoopStart
  <2> QED
    BY <2>1, Zenon DEF PeekShown
<1>4. LoopClosed /\ SourceWrote
  BY DEF LoopStart, LoopClosed, SourceWrote
<1> QED
  BY <1>1, <1>2, <1>3, <1>4, <1>5 DEF LoopInv

\* Where neither the options nor the data that came are touched, the output stays right,
LEMMA SamePrinted ==
    ASSUME UNCHANGED <<lProg, lGot, lStd>>
    PROVE  PrintedRight' = PrintedRight
BY Zenon DEF PrintedRight, Peeks, Rereads, Shown

\* and so does what is known of a peek, if the socket is not touched either.
LEMMA SamePeek ==
    ASSUME PeekShown, UNCHANGED <<lProg, lStd, lFlags, lNet>>, lFlags => (lPc' = lPc \/ lPc' = "closed") /\ lSet' = lSet,
           lPc' # "died" => lPc # "died"
    PROVE  PeekShown'
<1>1. Peeks' = Peeks /\ Taken' = Taken /\ \A b : Shown(b)' = Shown(b)
  BY Zenon DEF Peeks, Taken, Tcp, Shown
<1> SUFFICES ASSUME IsLoop(lProg.fn), lPc' # "died"
             PROVE  /\ lFlags' => lPc' \in {"sock", "closed"} /\ "sock" \in lSet'
                    /\ Peeks' /\ ~lFlags' => \E m \in Nat : Len(lStd') = 2 * m
                    /\ Peeks' /\ lFlags' => \E m \in Nat, s \in Seq(Bytes), u \in Seq(Bytes) :
                          Len(lStd') = 2 * m + 1 /\ Taken' = s \o u /\ lStd'[2 * m + 1] = Shown(s)'
  BY Zenon DEF PeekShown
<1>2. /\ lFlags => lPc \in {"sock", "closed"} /\ "sock" \in lSet
      /\ Peeks /\ ~lFlags => \E m \in Nat : Len(lStd) = 2 * m
      /\ Peeks /\ lFlags => \E m \in Nat, s \in Seq(Bytes), u \in Seq(Bytes) :
            Len(lStd) = 2 * m + 1 /\ Taken = s \o u /\ lStd[2 * m + 1] = Shown(s)
  BY Zenon DEF PeekShown
<1>3. lFlags' => lPc' \in {"sock", "closed"} /\ "sock" \in lSet'
  BY <1>2
<1> QED
  BY <1>1, <1>2, <1>3, Zenon

\* The user types something.
LEMMA LoopType == LoopInv /\ Type => LoopInv'
<1> SUFFICES ASSUME LoopInv, Type PROVE LoopInv'
  OBVIOUS
<1>1. LoopTypes'
  <2>1. lIn' \in Seq(Bytes) /\ lEof' \in BOOLEAN
    <3>1. Typed \subseteq Bytes
      BY DEF Typed, Bytes
    <3>2. \A b \in Typed : Append(lIn, b) \in Seq(Bytes)
      BY <3>1 DEF LoopInv, LoopTypes
    <3> QED
      BY <3>2, Zenon DEF LoopInv, LoopTypes, Type
  <2> QED
    BY <2>1, Zenon DEF LoopInv, LoopTypes, Type, Tcp
<1>2. LoopPlaces' /\ InputReady'
  BY DEF LoopInv, LoopTypes, LoopPlaces, InputReady, Type, Tcp
<1>3. LoopCopied' /\ SourceWrote'
  <2>1. PrintedRight' = PrintedRight
    BY SamePrinted DEF Type
  <2> QED
    BY <2>1, Zenon DEF LoopInv, LoopCopied, SourceWrote, Converted, Type, Tcp
<1>5. PeekShown'
  <2>1. PeekShown /\ UNCHANGED <<lProg, lStd, lFlags, lSet, lNet, lPc>>
    BY DEF LoopInv, Type
  <2> QED
    BY <2>1, SamePeek
<1>4. LoopClosed'
  BY DEF LoopInv, LoopClosed, Type, Tcp
<1> QED
  BY <1>1, <1>2, <1>3, <1>4, <1>5 DEF LoopInv

\* What recv() takes, and what taking nothing means.
LEMMA TakenFacts ==
    ASSUME LoopInv
    PROVE  /\ Taken \in Seq(Bytes)
           /\ Tcp => Left \in Seq(Bytes)
           /\ ~Tcp => Left \in Seq(Seq(Bytes))
           /\ Taken = <<>> => lNet = <<>> \/ (~Tcp /\ Head(lNet) = <<>>)
<1>1. ReadLen \in Nat \ {0}
  BY LoopAssumption
<1>2. ASSUME NEW s \in Seq(Bytes), NEW u, u = SubSeq(s, 1, IF Len(s) < ReadLen THEN Len(s) ELSE ReadLen)
      PROVE  u \in Seq(Bytes) /\ (u = <<>> => s = <<>>)
  <2> DEFINE n == IF Len(s) < ReadLen THEN Len(s) ELSE ReadLen
  <2>1. n \in Nat /\ n <= Len(s) /\ (n = 0 => Len(s) = 0)
    BY <1>1
  <2>2. u = SubSeq(s, 1, n)
    BY <1>2
  <2> HIDE DEF n
  <2>3. \A k \in 1 .. n : s[k] \in Bytes
    BY <2>1
  <2>4. SubSeq(s, 1, n) \in Seq(Bytes) /\ Len(SubSeq(s, 1, n)) = IF 1 <= n THEN n - 1 + 1 ELSE 0
    BY <2>1, <2>3, SubSeqProperties
  <2>5. u = <<>> => n = 0
    BY <2>1, <2>2, <2>4
  <2> QED
    BY <2>1, <2>2, <2>4, <2>5, EmptySeq
<1>3. CASE lNet = <<>>
  <2>1. <<>> \in Seq(Bytes) /\ <<>> \in Seq(Seq(Bytes))
    OBVIOUS
  <2> QED
    BY <1>3, <2>1, Zenon DEF Taken, Left
<1>4. CASE lNet # <<>> /\ Tcp
  <2>1. lNet \in Seq(Bytes)
    BY <1>4 DEF LoopInv, LoopTypes
  <2>2. Taken = SubSeq(lNet, 1, IF Len(lNet) < ReadLen THEN Len(lNet) ELSE ReadLen)
    BY <1>4, Zenon DEF Taken
  <2>3. Taken \in Seq(Bytes) /\ (Taken = <<>> => lNet = <<>>)
    BY <1>2, <2>1, <2>2, Zenon
  <2>4. Left = SubSeq(lNet, Len(Taken) + 1, Len(lNet))
    BY <1>4, Zenon DEF Left
  <2>5. Left \in Seq(Bytes)
    <3> DEFINE k == Len(Taken)
               m == Len(lNet)
    <3>1. k \in Nat /\ m \in Nat
      BY <2>1, <2>3
    <3>2. \A x \in k + 1 .. m : lNet[x] \in Bytes
      BY <2>1, <3>1
    <3>3. Left = SubSeq(lNet, k + 1, m)
      BY <2>4
    <3> HIDE DEF k, m
    <3> QED
      BY <3>1, <3>2, <3>3, SubSeqProperties
  <2> QED
    BY <1>4, <2>3, <2>5
<1>5. CASE lNet # <<>> /\ ~Tcp
  <2>1. lNet \in Seq(Seq(Bytes))
    BY <1>5, Zenon DEF LoopInv, LoopTypes
  <2>2. Head(lNet) \in Seq(Bytes) /\ Tail(lNet) \in Seq(Seq(Bytes))
    BY <1>5, <2>1, HeadTailProperties, Zenon
  <2>3. Taken = SubSeq(Head(lNet), 1, IF Len(Head(lNet)) < ReadLen THEN Len(Head(lNet)) ELSE ReadLen)
    BY <1>5, Zenon DEF Taken
  <2>4. Taken \in Seq(Bytes) /\ (Taken = <<>> => Head(lNet) = <<>>)
    BY <1>2, <2>2, <2>3, Zenon
  <2>5. Left = Tail(lNet)
    BY <1>5, Zenon DEF Left
  <2> QED
    BY <1>5, <2>2, <2>4, <2>5, Zenon
<1> QED
  BY <1>3, <1>4, <1>5

\* Cutting a buffer to readlen gives bytes.
LEMMA CutType ==
    ASSUME NEW w \in Seq(Bytes)
    PROVE  SubSeq(w, 1, IF Len(w) < ReadLen THEN Len(w) ELSE ReadLen) \in Seq(Bytes) /\ <<>> \in Seq(Bytes)
<1> DEFINE n == IF Len(w) < ReadLen THEN Len(w) ELSE ReadLen
<1>1. n \in Nat /\ n <= Len(w) /\ ReadLen \in Nat
  BY LoopAssumption
<1> HIDE DEF n
<1>2. SubSeq(w, 1, n) \in Seq(Bytes)
  BY <1>1
<1> QED
  BY <1>2 DEF n

\* What the peer sends comes behind what recv() would take.
LEMMA TakenGrows ==
    ASSUME LoopInv, lProg' = lProg, NEW msg \in Seq(Bytes), lNet' = IF Tcp THEN lNet \o msg ELSE Append(lNet, msg)
    PROVE  \E more \in Seq(Bytes) : Taken' = Taken \o more
<1>1. ReadLen \in Nat \ {0} /\ Tcp' = Tcp /\ (lStd = lStd)
  BY LoopAssumption DEF Tcp
<1> DEFINE Cut(w) == SubSeq(w, 1, IF Len(w) < ReadLen THEN Len(w) ELSE ReadLen)
<1>2. ASSUME NEW v \in Seq(Bytes), NEW w \in Seq(Bytes)
      PROVE  \E more \in Seq(Bytes) : Cut(v \o w) = Cut(v) \o more
  <2> DEFINE n == IF Len(v) < ReadLen THEN Len(v) ELSE ReadLen
             m == IF Len(v \o w) < ReadLen THEN Len(v \o w) ELSE ReadLen
             x == v \o w
             rest == SubSeq(x, n + 1, m)
  <2>1. x \in Seq(Bytes) /\ Len(x) = Len(v) + Len(w) /\ Len(v) \in Nat /\ Len(w) \in Nat
        /\ \A k \in 1 .. Len(v) : x[k] = v[k]
    OBVIOUS
  <2>2. n \in Nat /\ m \in Nat /\ n <= m /\ n <= Len(v) /\ m <= Len(x)
    BY <1>1, <2>1
  <2>3. Cut(v) = SubSeq(v, 1, n) /\ Cut(x) = SubSeq(x, 1, m)
    OBVIOUS
  <2> HIDE DEF n, m, x, Cut
  <2>4. SubSeq(v, 1, n) \in Seq(Bytes) /\ Len(SubSeq(v, 1, n)) = n /\ \A k \in 1 .. n : SubSeq(v, 1, n)[k] = v[k]
    BY <2>1, <2>2
  <2>5. SubSeq(x, 1, m) \in Seq(Bytes) /\ Len(SubSeq(x, 1, m)) = m /\ \A k \in 1 .. m : SubSeq(x, 1, m)[k] = x[k]
    BY <2>1, <2>2
  <2>6. rest \in Seq(Bytes) /\ Len(rest) = m - n /\ \A k \in 1 .. m - n : rest[k] = x[n + k]
    <3>1. n + 1 \in 1 .. Len(x) + 1 /\ m \in 0 .. Len(x)
      BY <2>1, <2>2
    <3>2. \A k \in n + 1 .. m : x[k] \in Bytes
      BY <2>1, <2>2
    <3> QED
      BY <2>1, <2>2, <3>1, <3>2, SubSeqProperties
  <2> HIDE DEF rest
  <2>7. SubSeq(v, 1, n) \o rest \in Seq(Bytes) /\ Len(SubSeq(v, 1, n) \o rest) = m
    BY <2>2, <2>4, <2>6
  <2>8. \A k \in 1 .. m : SubSeq(x, 1, m)[k] = (SubSeq(v, 1, n) \o rest)[k]
    <3> TAKE k \in 1 .. m
    <3>1. CASE k <= n
      <4>1. k \in 1 .. n /\ k \in 1 .. Len(v)
        BY <2>1, <2>2, <3>1
      <4>2. (SubSeq(v, 1, n) \o rest)[k] = SubSeq(v, 1, n)[k]
        BY <2>4, <2>6, <4>1
      <4> QED
        BY <2>1, <2>4, <2>5, <4>1, <4>2, Zenon
    <3>2. CASE k > n
      <4>1. k - n \in 1 .. m - n /\ n + (k - n) = k
        BY <2>2, <3>2
      <4>2. (SubSeq(v, 1, n) \o rest)[k] = rest[k - n]
        BY <2>2, <2>4, <2>6, <3>2
      <4> QED
        BY <2>5, <2>6, <4>1, <4>2
    <3>3. k <= n \/ k > n
      BY <2>2
    <3> QED
      BY <3>1, <3>2, <3>3, Zenon
  <2>9. SubSeq(x, 1, m) = SubSeq(v, 1, n) \o rest
    BY <2>5, <2>7, <2>8, SeqEqual
  <2> QED
    BY <2>3, <2>6, <2>9 DEF x
<1>3. CASE lNet = <<>>
  <2>1. Taken = <<>>
    BY <1>3, Zenon DEF Taken
  <2>2. Taken' \in Seq(Bytes)
    <3>1. CASE Tcp
      <4>1. lNet' = msg
        BY <1>3, <3>1, ConcatEmptySeq
      <4> QED
        BY <1>1, <3>1, <4>1, CutType DEF Taken
    <3>2. CASE ~Tcp
      <4>1. lNet' # <<>> /\ Head(lNet') = msg
        BY <1>3, <3>2
      <4> QED
        BY <1>1, <3>2, <4>1, CutType DEF Taken
    <3> QED
      BY <3>1, <3>2
  <2>3. <<>> \o Taken' = Taken'
    BY <2>2, ConcatEmptySeq
  <2> QED
    BY <2>1, <2>2, <2>3, Zenon
<1>4. CASE lNet # <<>> /\ Tcp
  <2>1. lNet \in Seq(Bytes) /\ lNet' = lNet \o msg
    BY <1>4 DEF LoopInv, LoopTypes
  <2>2. lNet' # <<>>
    BY <1>4, <2>1
  <2>3. Taken = Cut(lNet) /\ Taken' = Cut(lNet \o msg)
    BY <1>1, <1>4, <2>1, <2>2, Zenon DEF Taken
  <2> HIDE DEF Cut
  <2> QED
    BY <1>2, <2>1, <2>3, Zenon
<1>5. CASE lNet # <<>> /\ ~Tcp
  <2>1. lNet \in Seq(Seq(Bytes)) /\ lNet' = Append(lNet, msg)
    BY <1>5, Zenon DEF LoopInv, LoopTypes
  <2>2. lNet' # <<>> /\ Head(lNet') = Head(lNet)
    BY <1>5, <2>1
  <2>3. Taken' = Taken
    BY <1>1, <1>5, <2>2, Zenon DEF Taken
  <2>4. Taken \in Seq(Bytes) /\ <<>> \in Seq(Bytes)
    BY TakenFacts
  <2>5. Taken \o <<>> = Taken
    BY <2>4, ConcatEmptySeq
  <2> QED
    BY <2>3, <2>4, <2>5, Zenon
<1> QED
  BY <1>3, <1>4, <1>5

\* The peer sends.
LEMMA LoopPeerSends == LoopInv /\ PeerSends => LoopInv'
<1> SUFFICES ASSUME LoopInv, PeerSends PROVE LoopInv'
  OBVIOUS
<1>0. PICK msg \in Messages : lNet' = IF Tcp THEN lNet \o msg ELSE Append(lNet, msg)
  BY DEF PeerSends
<1>a. msg \in Seq(Bytes)
  <2>1. "a" \in Bytes /\ "n" \in Bytes /\ "r" \in Bytes
    BY DEF Bytes
  <2>2. <<"a", "a">> \in Seq(Bytes) /\ <<"r", "n">> \in Seq(Bytes) /\ <<>> \in Seq(Bytes)
    BY <2>1
  <2> QED
    BY <2>2 DEF Messages
<1>1. LoopTypes'
  <2>2. ASSUME Tcp PROVE lNet' \in Seq(Bytes)
    <3>1. lNet \in Seq(Bytes) /\ lNet' = lNet \o msg
      BY <1>0, <2>2, Zenon DEF LoopInv, LoopTypes
    <3> QED
      BY <1>a, <3>1, LenConcat
  <2>3. ASSUME ~Tcp PROVE lNet' \in Seq(Seq(Bytes))
    <3>1. lNet \in Seq(Seq(Bytes)) /\ lNet' = Append(lNet, msg)
      BY <1>0, <2>3, Zenon DEF LoopInv, LoopTypes
    <3> QED
      BY <1>a, <3>1
  <2>1. (Tcp => lNet' \in Seq(Bytes)) /\ (~Tcp => lNet' \in Seq(Seq(Bytes)))
    BY <2>2, <2>3
  <2> QED
    BY <2>1, Zenon DEF LoopInv, LoopTypes, PeerSends, Tcp
<1>2. LoopPlaces' /\ InputReady'
  BY DEF LoopInv, LoopTypes, LoopPlaces, InputReady, PeerSends, Tcp
<1>3. LoopCopied' /\ SourceWrote'
  <2>1. PrintedRight' = PrintedRight
    BY SamePrinted DEF PeerSends
  <2> QED
    BY <2>1, Zenon DEF LoopInv, LoopCopied, SourceWrote, Converted, PeerSends, Tcp
<1>5. PeekShown'
  <2>1. PICK more \in Seq(Bytes) : Taken' = Taken \o more
    BY <1>0, <1>a, TakenGrows DEF PeerSends
  <2>2. UNCHANGED <<lProg, lPc, lSet, lFlags, lStd>>
    BY DEF PeerSends
  <2>3. Peeks' = Peeks /\ \A b : Shown(b)' = Shown(b)
    BY <2>2, Zenon DEF Peeks, Shown
  <2>4. ASSUME NEW u \in Seq(Bytes), NEW v \in Seq(Bytes), Taken = u \o v
        PROVE  Taken' = u \o (v \o more) /\ v \o more \in Seq(Bytes)
    <3>1. (u \o v) \o more = u \o (v \o more)
      BY Regroup, SMTT(60)
    <3> QED
      BY <2>1, <2>4, <3>1, LenConcat
  <2> QED
    BY <2>2, <2>3, <2>4, Zenon DEF LoopInv, PeekShown
<1>4. LoopClosed'
  <2>1. ~lFin /\ lFin' = lFin /\ lEof' = lEof /\ lProg' = lProg /\ lPc' = lPc
    BY DEF PeerSends
  <2>2. lProg.sock = "cli" /\ lNet # <<>> => lNet' # <<>> /\ Head(lNet') = Head(lNet)
    <3> SUFFICES ASSUME lProg.sock = "cli", lNet # <<>> PROVE lNet' # <<>> /\ Head(lNet') = Head(lNet)
      OBVIOUS
    <3>1. lNet \in Seq(Seq(Bytes)) /\ lNet' = Append(lNet, msg)
      <4>1. ~Tcp
        BY DEF Tcp
      <4> QED
        BY <1>0, <4>1, Zenon DEF LoopInv, LoopTypes
    <3>2. ASSUME NEW M, NEW net \in Seq(M), NEW m \in M, net # <<>>
          PROVE  Append(net, m) # <<>> /\ Head(Append(net, m)) = Head(net)
      BY <3>2
    <3> QED
      BY <1>a, <3>1, <3>2
  <2> QED
    BY <2>1, <2>2 DEF LoopInv, LoopClosed, Tcp
<1> QED
  BY <1>1, <1>2, <1>3, <1>4, <1>5 DEF LoopInv

\* The peer closes.
LEMMA LoopPeerCloses == LoopInv /\ PeerCloses => LoopInv'
<1> SUFFICES ASSUME LoopInv, PeerCloses PROVE LoopInv'
  OBVIOUS
<1>1. LoopTypes'
  BY Zenon DEF LoopInv, LoopTypes, PeerCloses, Tcp
<1>2. LoopPlaces' /\ InputReady'
  BY DEF LoopInv, LoopTypes, LoopPlaces, InputReady, PeerCloses, Tcp
<1>3. LoopCopied' /\ SourceWrote'
  <2>1. PrintedRight' = PrintedRight
    BY SamePrinted DEF PeerCloses
  <2> QED
    BY <2>1, Zenon DEF LoopInv, LoopCopied, SourceWrote, Converted, PeerCloses, Tcp
<1>5. PeekShown'
  <2>1. PeekShown /\ UNCHANGED <<lProg, lStd, lFlags, lSet, lNet, lPc>>
    BY DEF LoopInv, PeerCloses
  <2> QED
    BY <2>1, SamePeek
<1>4. LoopClosed'
  BY DEF LoopInv, LoopClosed, PeerCloses, Tcp
<1> QED
  BY <1>1, <1>2, <1>3, <1>4, <1>5 DEF LoopInv

\* The loop waits in select().
LEMMA LoopSelect == LoopInv /\ (Select \/ SkipStdin \/ SkipSocket) => LoopInv'
<1> SUFFICES ASSUME LoopInv, Select \/ SkipStdin \/ SkipSocket PROVE LoopInv'
  OBVIOUS
<1>1. LoopTypes'
  BY Zenon DEF LoopInv, LoopTypes, Select, SkipStdin, SkipSocket, Tcp
<1>2. LoopPlaces' /\ InputReady'
  <2>1. lProg \in LoopProgs
    BY DEF LoopInv, LoopTypes
  <2> QED
    BY <2>1, ProgFacts DEF LoopInv, LoopPlaces, InputReady, Select, SkipStdin, SkipSocket, Tcp, Ready
<1>3. LoopCopied' /\ SourceWrote'
  <2>1. lPc # "died" /\ lPc # "closed" /\ lPc' # "died" /\ lPc' # "closed"
    BY DEF Select, SkipStdin, SkipSocket
  <2>2. UNCHANGED <<lProg, lRead, lSent, lGot, lStd, lStray>>
    BY DEF Select, SkipStdin, SkipSocket
  <2> QED
    BY <2>1, <2>2, SamePrinted, Zenon DEF LoopInv, LoopCopied, SourceWrote, Converted, Tcp
<1>4. LoopClosed'
  BY DEF LoopClosed, Select, SkipStdin, SkipSocket
<1>5. PeekShown'
  <2>1. PeekShown /\ UNCHANGED <<lProg, lStd, lFlags, lNet>> /\ lPc # "died"
    BY DEF LoopInv, Select, SkipStdin, SkipSocket
  <2>2. IsLoop(lProg.fn)
    BY DEF LoopInv, LoopPlaces, Select, SkipStdin, SkipSocket
  <2>3. ~lFlags
    BY <2>1, <2>2 DEF PeekShown, Select, SkipStdin, SkipSocket
  <2> QED
    BY <2>1, <2>3, SamePeek
<1> QED
  BY <1>1, <1>2, <1>3, <1>4, <1>5 DEF LoopInv

\* A call fails.
LEMMA LoopIoFails == LoopInv /\ IoFails => LoopInv'
<1> SUFFICES ASSUME LoopInv, IoFails PROVE LoopInv'
  OBVIOUS
<1>1. LoopTypes'
  BY Zenon DEF LoopInv, LoopTypes, IoFails, Tcp
<1>2. LoopPlaces' /\ InputReady' /\ LoopCopied' /\ PeekShown' /\ LoopClosed'
  BY DEF LoopInv, LoopPlaces, InputReady, LoopCopied, PeekShown, LoopClosed, IoFails, Tcp
<1>3. SourceWrote'
  <2>1. lProg \in LoopProgs /\ ~IsSource(lProg.fn)
    BY ProgFacts DEF LoopInv, LoopTypes, LoopPlaces, IoFails
  <2> QED
    BY <2>1 DEF IoFails, SourceWrote
<1> QED
  BY <1>1, <1>2, <1>3 DEF LoopInv

\* What a read of standard input leads to.
LEMMA StdinOutcome ==
    ASSUME LoopInv, ReadStdin
    PROVE  \E bytes \in Seq(Bytes), conv \in Seq(Bytes) :
              /\ lIn' \in Seq(Bytes) /\ lRead' = lRead \o bytes
              /\ conv = IF lProg.crlf THEN crlf_add(bytes) ELSE bytes
              /\ \/ lIn = <<>> /\ bytes = <<>> /\ lSent' = lSent /\ lStray' = lStray /\ StdinEof
                 \/ lPc' = "died" /\ lSent' = lSent /\ lStray' = lStray
                 \/ lPc' = "sock" /\ lSent' = lSent \o conv /\ lStray' = lStray
                 \/ lPc' = "sock" /\ lSent' = lSent /\ lStray' = TRUE /\ lProg.sock \in {"unc", "servo"}
<1> DEFINE n == IF Len(lIn) < ReadLen THEN Len(lIn) ELSE ReadLen
           bytes == SubSeq(lIn, 1, n)
           conv == IF lProg.crlf THEN crlf_add(bytes) ELSE bytes
<1>1. lIn \in Seq(Bytes) /\ ReadLen \in Nat \ {0}
  BY LoopAssumption DEF LoopInv, LoopTypes
<1>2. /\ lIn' = SubSeq(lIn, n + 1, Len(lIn)) /\ lRead' = lRead \o bytes
      /\ n = 0 => StdinEof /\ lSent' = lSent /\ lStray' = lStray
      /\ n # 0 => (lPc' = "died" /\ lSent' = lSent /\ lStray' = lStray) \/ SendBytes(conv)
  BY <1>1 DEF ReadStdin
<1>3. n \in Nat /\ n <= Len(lIn) /\ bytes \in Seq(Bytes) /\ lIn' \in Seq(Bytes)
  <2>1. n \in Nat /\ n <= Len(lIn)
    BY <1>1
  <2>2. Len(lIn) \in Nat
    BY <1>1
  <2> HIDE DEF n
  <2>3. \A k \in 1 .. n : lIn[k] \in Bytes
    BY <1>1, <2>1
  <2>4. \A k \in n + 1 .. Len(lIn) : lIn[k] \in Bytes
    BY <1>1, <2>1
  <2>5. bytes \in Seq(Bytes)
    BY <1>1, <2>1, <2>3, SubSeqProperties
  <2>6. SubSeq(lIn, n + 1, Len(lIn)) \in Seq(Bytes)
    BY <1>1, <2>1, <2>4, SubSeqProperties
  <2> QED
    BY <1>2, <2>1, <2>5, <2>6
<1>4. n = 0 => lIn = <<>> /\ bytes = <<>>
  BY <1>1, EmptySeq
<1> HIDE DEF n, bytes
<1>5. conv \in Seq(Bytes)
  BY <1>3, AddConcat, Zenon
<1> HIDE DEF conv
<1>6. SendBytes(conv) =>
         \/ lPc' = "died" /\ lSent' = lSent /\ lStray' = lStray
         \/ lPc' = "sock" /\ lSent' = lSent \o conv /\ lStray' = lStray
         \/ lPc' = "sock" /\ lSent' = lSent /\ lStray' = TRUE /\ lProg.sock \in {"unc", "servo"}
  <2>1. dowrite(conv) = conv
    BY <1>5, WritesAll
  <2> QED
    BY <2>1, Zenon DEF SendBytes, send_tcp, send_udp, send_loop, Fails, Writes
<1>7. conv = IF lProg.crlf THEN crlf_add(bytes) ELSE bytes
  BY DEF conv
<1> QED
  BY <1>2, <1>3, <1>4, <1>5, <1>6, <1>7, Zenon

\* Standard input is read, converted and written to the socket.
LEMMA LoopReadStdin == LoopInv /\ ReadStdin => LoopInv'
<1> SUFFICES ASSUME LoopInv, ReadStdin PROVE LoopInv'
  OBVIOUS
<1>1. /\ lPc = "stdin" /\ "stdin" \in lSet
      /\ UNCHANGED <<lProg, lEof, lSet, lNet, lFin, lMsgs, lFlags, lDest, lGot, lStd>>
  BY DEF ReadStdin
<1>2. lProg \in LoopProgs /\ IsLoop(lProg.fn) /\ (lIn # <<>> \/ lEof)
  BY <1>1 DEF LoopInv, LoopTypes, LoopPlaces, InputReady
<1>3. lRead \in Seq(Bytes) /\ lSent \in Seq(Bytes)
  BY <1>2 DEF LoopInv, LoopTypes
<1>4. PICK bytes \in Seq(Bytes), conv \in Seq(Bytes) :
              /\ lIn' \in Seq(Bytes) /\ lRead' = lRead \o bytes
              /\ conv = IF lProg.crlf THEN crlf_add(bytes) ELSE bytes
              /\ \/ lIn = <<>> /\ bytes = <<>> /\ lSent' = lSent /\ lStray' = lStray /\ StdinEof
                 \/ lPc' = "died" /\ lSent' = lSent /\ lStray' = lStray
                 \/ lPc' = "sock" /\ lSent' = lSent \o conv /\ lStray' = lStray
                 \/ lPc' = "sock" /\ lSent' = lSent /\ lStray' = TRUE /\ lProg.sock \in {"unc", "servo"}
  BY StdinOutcome, Zenon
<1>5. lRead \o bytes \in Seq(Bytes) /\ lSent \o conv \in Seq(Bytes) /\ lRead \o <<>> = lRead
  BY <1>3, LenConcat, ConcatEmptySeq
<1>6. LoopTypes'
  <2>1. lStray' \in BOOLEAN
    BY <1>4 DEF LoopInv, LoopTypes
  <2> QED
    BY <1>1, <1>3, <1>4, <1>5, <2>1, Zenon DEF LoopInv, LoopTypes, Tcp
<1>7. LoopPlaces' /\ InputReady'
  BY <1>1, <1>2, <1>4, ProgFacts DEF LoopInv, LoopPlaces, InputReady, StdinEof, Tcp
<1>8. (lSent = Converted \/ lStray) /\ PrintedRight
  BY <1>1, <1>2 DEF LoopInv, LoopCopied
<1>12. PeekShown'
  <2>1. PeekShown /\ ~lFlags
    BY <1>1, <1>2 DEF LoopInv, PeekShown
  <2> QED
    BY <1>1, <2>1, SamePeek
<1>9. LoopCopied'
  <2>1. PrintedRight' = PrintedRight
    BY <1>1, SamePrinted
  <2>2. CASE bytes = <<>> /\ lSent' = lSent /\ lStray' = lStray
    <3>1. lRead' = lRead
      BY <1>4, <1>5, <2>2, Zenon
    <3>2. Converted' = Converted
      BY <1>1, <3>1 DEF Converted
    <3> QED
      BY <1>1, <1>8, <2>1, <2>2, <3>2 DEF LoopCopied
  <2>3. CASE lPc' = "sock" /\ lSent' = lSent \o conv /\ lStray' = lStray
    <3>1. crlf_add(lRead \o bytes) = crlf_add(lRead) \o crlf_add(bytes)
      BY <1>3, AddConcat
    <3>2. Converted' = Converted \o conv
      <4>1. CASE lProg.crlf
        BY <1>1, <1>4, <3>1, <4>1, Zenon DEF Converted
      <4>2. CASE ~lProg.crlf
        BY <1>1, <1>4, <4>2, Zenon DEF Converted
      <4> QED
        BY <4>1, <4>2
    <3> QED
      BY <1>1, <1>8, <2>1, <2>3, <3>2, Zenon DEF LoopCopied
  <2>4. CASE lPc' = "sock" /\ lStray' = TRUE
    BY <1>1, <1>8, <2>1, <2>4 DEF LoopCopied
  <2>5. CASE lPc' = "died"
    BY <2>5 DEF LoopCopied
  <2> QED
    BY <1>4, <2>2, <2>3, <2>4, <2>5
<1>10. LoopClosed'
  <2>1. lPc' = "closed" => lEof /\ ~lProg.half
    BY <1>2, <1>4 DEF StdinEof
  <2> QED
    BY <1>1, <1>2, <2>1, ProgFacts DEF LoopClosed
<1>11. SourceWrote'
  BY <1>1, <1>2, ProgFacts DEF SourceWrote
<1> QED
  BY <1>6, <1>7, <1>9, <1>10, <1>11, <1>12 DEF LoopInv

\* The end of a read: TCP's, or an empty datagram of a connected client's or of sink_udp()'s.
LEMMA CallFacts ==
    ASSUME lProg \in LoopProgs, RecvCall.eof
    PROVE  Taken = <<>> /\ (IsLoop(lProg.fn) /\ ~Tcp => lProg.sock = "cli")
<1>1. CASE lProg.fn = "loop_tcp"
  BY <1>1, ProgFacts DEF RecvCall, loop_tcp, Recv
<1>2. CASE lProg.fn = "loop_udp"
  BY <1>2 DEF RecvCall, loop_udp, Recv
<1>3. CASE lProg.fn = "loop"
  BY <1>3, ProgFacts DEF RecvCall, loop, Recv, Tcp
<1>4. CASE lProg.fn \notin {"loop_tcp", "loop_udp", "loop"}
  BY <1>4 DEF RecvCall, sink_tcp, sink_udp, sink, Recv, IsLoop
<1> QED
  BY <1>1, <1>2, <1>3, <1>4

\* The socket has ended.
LEMMA LoopReadEof ==
    ASSUME LoopInv, ReadSocket, RecvCall.eof
    PROVE  LoopInv'
<1>1. /\ lPc = "sock" /\ lPc' = "closed" /\ (lNet # <<>> \/ lFin)
      /\ UNCHANGED <<lProg, lIn, lEof, lSaw, lSet, lFin, lMsgs, lRead, lSent, lStray, lFlags, lNet, lGot, lStd, lDest>>
  BY DEF ReadSocket
<1>2. lProg \in LoopProgs /\ ~IsSource(lProg.fn) /\ (lFin => Tcp)
  BY <1>1 DEF LoopInv, LoopTypes, LoopPlaces
<1>3. LoopTypes'
  BY <1>1, Zenon DEF LoopInv, LoopTypes, Tcp
<1>4. LoopPlaces' /\ InputReady'
  BY <1>1, <1>2 DEF LoopInv, LoopPlaces, InputReady, Tcp
<1>5. LoopCopied' /\ SourceWrote'
  BY <1>1, <1>2, SamePrinted, Zenon DEF LoopInv, LoopCopied, SourceWrote, Converted
<1>10. PeekShown'
  BY <1>1, SamePeek DEF LoopInv
<1>6. Taken = <<>> /\ (IsLoop(lProg.fn) /\ ~Tcp => lProg.sock = "cli")
  BY <1>2, CallFacts
<1>7. lNet = <<>> \/ (~Tcp /\ Head(lNet) = <<>>)
  BY <1>6, TakenFacts
<1>8. (Tcp => lFin /\ lNet = <<>>) /\ (~Tcp => lNet # <<>> /\ Head(lNet) = <<>>)
  BY <1>1, <1>2, <1>7
<1>9. LoopClosed'
  BY <1>1, <1>2, <1>6, <1>8, ProgFacts DEF LoopClosed, Tcp
<1> QED
  BY <1>3, <1>4, <1>5, <1>9, <1>10 DEF LoopInv

\* The socket is read, converted and written to standard output.
LEMMA LoopReadSome ==
    ASSUME LoopInv, ReadSocket, ~RecvCall.eof
    PROVE  LoopInv'
<1>1. /\ lPc = "sock" /\ (IsLoop(lProg.fn) => "sock" \in lSet)
      /\ UNCHANGED <<lProg, lIn, lEof, lSaw, lSet, lFin, lMsgs, lRead, lSent, lStray>>
      /\ lFlags' = oncemore(RecvCall.peek)
      /\ \/ lNet' = lNet /\ lGot' = lGot /\ lFlags'
         \/ lNet' = Left /\ lGot' = lGot \o Taken /\ ~lFlags'
      /\ IF IsLoop(lProg.fn) THEN ToStdout(Taken) ELSE Discard(Taken)
  BY DEF ReadSocket
<1>2. lProg \in LoopProgs /\ ~IsSource(lProg.fn) /\ lGot \in Seq(Bytes) /\ lStd \in Seq(Seq(Bytes))
  BY <1>1 DEF LoopInv, LoopTypes, LoopPlaces
<1>3. Taken \in Seq(Bytes) /\ (Tcp => Left \in Seq(Bytes)) /\ (~Tcp => Left \in Seq(Seq(Bytes)))
  BY TakenFacts
<1>4. lGot \o Taken \in Seq(Bytes) /\ lFlags' \in BOOLEAN
  BY <1>1, <1>2, <1>3, LenConcat DEF oncemore
<1>5. /\ lPc' \in {"died", "sock", "select"} /\ (lPc' = "select" => IsLoop(lProg.fn))
      /\ \/ lStd' = lStd /\ (lPc' = "died" \/ ~IsLoop(lProg.fn))
         \/ lStd' = Append(lStd, Shown(Taken)) /\ (lFlags' => lPc' = "sock")
  BY <1>1 DEF ToStdout, Discard
<1>6. Shown(Taken) \in Seq(Bytes) /\ Shown(lGot \o Taken) = Shown(lGot) \o Shown(Taken)
  BY <1>2, <1>3, ShownConcat
<1>7. Append(lStd, Shown(Taken)) \in Seq(Seq(Bytes))
  BY <1>2, <1>6
<1>8. LoopTypes'
  BY <1>1, <1>3, <1>4, <1>5, <1>7, Zenon DEF LoopInv, LoopTypes, Tcp
<1>9. LoopPlaces' /\ InputReady'
  BY <1>1, <1>2, <1>5, ProgFacts DEF LoopInv, LoopPlaces, InputReady, Tcp
<1>10. LoopClosed' /\ SourceWrote'
  BY <1>1, <1>2, <1>5 DEF LoopClosed, SourceWrote
<1>11. LoopCopied' /\ PeekShown'
  <2> SUFFICES ASSUME IsLoop(lProg.fn), lPc' # "died"
               PROVE  LoopCopied' /\ PeekShown'
    BY <1>1 DEF LoopCopied, PeekShown
  <2>1. (lSent = Converted \/ lStray) /\ PrintedRight
    BY <1>1 DEF LoopInv, LoopCopied
  <2>2. Converted' = Converted
    BY <1>1, Zenon DEF Converted
  <2>3. lStd' = Append(lStd, Shown(Taken)) /\ (lFlags' => lPc' = "sock")
    BY <1>5
  <2>4. Peeks' = Peeks /\ (\A b : Shown(b)' = Shown(b)) /\ Shown(lGot)' = IF lFlags' THEN Shown(lGot) ELSE Shown(lGot \o Taken)
    BY <1>1, Zenon DEF Peeks, Shown
  <2>5. Peeks <=> RecvCall.peek
    BY <1>2, ProgFacts DEF Peeks, RecvCall, loop_tcp, loop_udp, loop, Recv, IsLoop, Tcp
  <2>6. Rereads = Evens(lStd) /\ Rereads' = Evens(lStd')
    BY Zenon DEF Rereads, Evens
  <2>7. CASE ~Peeks
    <3>1. ~lFlags'
      BY <1>1, <2>5, <2>7 DEF oncemore
    <3>2. FlattenSeq(lStd') = FlattenSeq(lStd) \o Shown(Taken)
      BY <1>2, <1>6, <2>3, FlattenAppend
    <3>3. PrintedRight'
      BY <1>6, <2>1, <2>4, <2>7, <3>1, <3>2, Zenon DEF PrintedRight
    <3> QED
      BY <1>1, <2>1, <2>2, <2>4, <2>7, <3>1, <3>3, Zenon DEF LoopCopied, PeekShown
  <2>8. CASE Peeks /\ ~lFlags
    <3>1. lFlags' /\ lGot' = lGot /\ lNet' = lNet
      BY <1>1, <2>5, <2>8 DEF oncemore
    <3>2. PICK m \in Nat : Len(lStd) = 2 * m
      BY <1>1, <2>8 DEF LoopInv, PeekShown
    <3>3. /\ Len(lStd') = 2 * m + 1 /\ lStd'[2 * m + 1] = Shown(Taken)
          /\ Len(lStd') \div 2 = Len(lStd) \div 2
          /\ \A k \in 1 .. Len(lStd) \div 2 : lStd'[2 * k] = lStd[2 * k] /\ lStd'[2 * k - 1] = lStd[2 * k - 1]
          /\ Rereads' = Rereads
      <4> DEFINE v == Append(lStd, Shown(Taken))
      <4>1. OddGrown(v, lStd, Shown(Taken), m)
        BY <1>2, <1>6, <3>2, OddAdded, Zenon
      <4>2. lStd' = v /\ Rereads' = Evens(v)
        BY <2>3, <2>6
      <4> HIDE DEF v
      <4> QED
        BY <2>6, <4>1, <4>2, Zenon DEF OddGrown
    <3>4. PrintedRight'
      <4>1. FlattenSeq(Rereads) = Shown(lGot) /\ \A k \in 1 .. Len(lStd) \div 2 : IsPrefix(lStd[2 * k - 1], lStd[2 * k])
        BY <2>1, <2>8, Zenon DEF PrintedRight
      <4> QED
        BY <2>4, <2>8, <3>1, <3>3, <4>1, Zenon DEF PrintedRight
    <3>5. Taken' = Taken /\ Taken = Taken \o <<>> /\ <<>> \in Seq(Bytes)
      <4>1. Taken' = Taken
        BY <1>1, <3>1, Zenon DEF Taken, Tcp
      <4> QED
        BY <1>3, <4>1, ConcatEmptySeq
    <3>6. lPc' = "sock" /\ "sock" \in lSet'
      BY <1>1, <2>3, <3>1
    <3>7. \E k \in Nat, s \in Seq(Bytes), u \in Seq(Bytes) :
             Len(lStd') = 2 * k + 1 /\ Taken' = s \o u /\ lStd'[2 * k + 1] = Shown(s)'
      BY <1>3, <2>4, <3>3, <3>5, Zenon
    <3> QED
      BY <1>1, <2>1, <2>2, <3>1, <3>4, <3>6, <3>7, Zenon DEF LoopCopied, PeekShown
  <2>9. CASE Peeks /\ lFlags
    <3>1. ~lFlags' /\ lGot' = lGot \o Taken
      BY <1>1, <2>5, <2>9 DEF oncemore
    <3>2. PICK m \in Nat, s \in Seq(Bytes), u \in Seq(Bytes) :
             Len(lStd) = 2 * m + 1 /\ Taken = s \o u /\ lStd[2 * m + 1] = Shown(s)
      BY <1>1, <2>9, Zenon DEF LoopInv, PeekShown
    <3>3. /\ Len(lStd') = 2 * (m + 1) /\ lStd'[2 * (m + 1)] = Shown(Taken)
          /\ lStd'[2 * (m + 1) - 1] = lStd[2 * m + 1]
          /\ Len(lStd) \div 2 = m /\ Len(lStd') \div 2 = m + 1
          /\ \A k \in 1 .. m : lStd'[2 * k] = lStd[2 * k] /\ lStd'[2 * k - 1] = lStd[2 * k - 1]
          /\ Rereads \in Seq(Seq(Bytes)) /\ Rereads' = Append(Rereads, Shown(Taken))
      <4> DEFINE v == Append(lStd, Shown(Taken))
      <4>1. EvenGrown(v, lStd, Shown(Taken), m, Seq(Bytes))
        BY <1>2, <1>6, <3>2, EvenAdded, Zenon
      <4>2. lStd' = v /\ Rereads' = Evens(v)
        BY <2>3, <2>6
      <4> HIDE DEF v
      <4> QED
        BY <2>6, <4>1, <4>2, Zenon DEF EvenGrown
    <3>4. FlattenSeq(Rereads) = Shown(lGot) /\ \A k \in 1 .. m : IsPrefix(lStd[2 * k - 1], lStd[2 * k])
      BY <2>1, <2>9, <3>3, Zenon DEF PrintedRight
    <3>5. FlattenSeq(Rereads') = Shown(lGot)'
      <4>1. FlattenSeq(Append(Rereads, Shown(Taken))) = FlattenSeq(Rereads) \o Shown(Taken)
        BY <1>6, <3>3, FlattenAppend
      <4> QED
        BY <1>6, <2>4, <3>1, <3>3, <3>4, <4>1, Zenon
    <3>6. IsPrefix(lStd'[2 * (m + 1) - 1], lStd'[2 * (m + 1)])
      <4>1. Shown(s) \in Seq(Bytes) /\ Shown(u) \in Seq(Bytes) /\ Shown(Taken) = Shown(s) \o Shown(u)
        BY <3>2, ShownConcat, Zenon
      <4>2. IsPrefix(Shown(s), Shown(s) \o Shown(u))
        BY <4>1, FrontIsPrefix
      <4> QED
        BY <3>2, <3>3, <4>1, <4>2, Zenon
    <3>7. \A k \in 1 .. m + 1 : IsPrefix(lStd'[2 * k - 1], lStd'[2 * k])
      <4> TAKE k \in 1 .. m + 1
      <4>1. k \in 1 .. m \/ k = m + 1
        OBVIOUS
      <4> QED
        BY <3>3, <3>4, <3>6, <4>1, Zenon
    <3>8. PrintedRight'
      BY <2>4, <2>9, <3>3, <3>5, <3>7, Zenon DEF PrintedRight
    <3>9. \E k \in Nat : Len(lStd') = 2 * k
      <4>1. m + 1 \in Nat
        OBVIOUS
      <4> QED
        BY <3>3, <4>1, Zenon
    <3> QED
      BY <1>1, <2>1, <2>2, <2>4, <3>1, <3>8, <3>9, Zenon DEF LoopCopied, PeekShown
  <2> QED
    BY <2>7, <2>8, <2>9
<1> QED
  BY <1>8, <1>9, <1>10, <1>11 DEF LoopInv

\* Tuples grow at their end.
LEMMA AppendSecond ==
    ASSUME NEW a, NEW b
    PROVE  Append(<<a>>, b) = <<a, b>>
<1> DEFINE S == {a, b}
<1>0. a \in S /\ b \in S
  OBVIOUS
<1> HIDE DEF S
<1>1. Append(<<a>>, b) \in Seq(S) /\ <<a, b>> \in Seq(S)
  BY <1>0
<1>2. Len(Append(<<a>>, b)) = 2 /\ Len(<<a, b>>) = 2
  OBVIOUS
<1>3. \A k \in 1 .. 2 : Append(<<a>>, b)[k] = <<a, b>>[k]
  OBVIOUS
<1> QED
  BY <1>1, <1>2, <1>3, SeqEqual

\* Likewise for three.
LEMMA AppendThird ==
    ASSUME NEW a, NEW b, NEW c
    PROVE  Append(<<a, b>>, c) = <<a, b, c>>
<1> DEFINE S == {a, b, c}
<1>0. a \in S /\ b \in S /\ c \in S
  OBVIOUS
<1> HIDE DEF S
<1>1. Append(<<a, b>>, c) \in Seq(S) /\ <<a, b, c>> \in Seq(S)
  BY <1>0
<1>2. Len(Append(<<a, b>>, c)) = 3 /\ Len(<<a, b, c>>) = 3
  OBVIOUS
<1>3. \A k \in 1 .. 3 : Append(<<a, b>>, c)[k] = <<a, b, c>>[k]
  OBVIOUS
<1> QED
  BY <1>1, <1>2, <1>3, SeqEqual

\* Of the buffers one more has been written or passed over.
LEMMA LoopWriteBuffer == LoopInv /\ WriteBuffer => LoopInv'
<1> SUFFICES ASSUME LoopInv, WriteBuffer PROVE LoopInv'
  OBVIOUS
<1>1. /\ lPc = "source"
      /\ UNCHANGED <<lProg, lIn, lEof, lSaw, lSet, lNet, lFin, lMsgs, lFlags, lDest, lGot, lStd, lStray>>
  BY DEF WriteBuffer
<1>2. lProg \in LoopProgs /\ IsSource(lProg.fn) /\ ~IsLoop(lProg.fn) /\ ~IsSink(lProg.fn)
  BY <1>1, ProgFacts DEF LoopInv, LoopTypes, LoopPlaces
<1>3. lPc' \in {"source", "closed", "died"}
  BY <1>1 DEF WriteBuffer, source_tcp, source_udp, source
<1>4. LoopTypes' 
  BY <1>1, <1>2, Zenon DEF LoopInv, LoopTypes, Tcp
<1>5. LoopPlaces' /\ InputReady' /\ LoopCopied' /\ PeekShown' /\ LoopClosed'
  BY <1>1, <1>2, <1>3 DEF LoopInv, LoopPlaces, InputReady, LoopCopied, PeekShown, LoopClosed, Tcp
<1>6. SourceWrote'
  <2>1. lRead \in {<<>>, <<"w">>, <<"w", "u">>, Buffers}
    BY <1>2 DEF LoopInv, SourceWrote
  <2>2. ~lProg.ignore => lSent = IF Tcp \/ Len(lRead) < 2 THEN lRead ELSE IF Len(lRead) = 2 THEN <<"w">> ELSE <<"w", "w">>
    BY <1>1, <1>2 DEF LoopInv, SourceWrote
  <2>3. Tcp' = Tcp /\ (lProg.fn = "source_udp" <=> ~Tcp)
    BY <1>1, <1>2, ProgFacts DEF Tcp, IsSource
  <2>4. CASE lRead = Buffers
    <3>1. lRead' = lRead /\ lSent' = lSent
      BY <2>4 DEF WriteBuffer, NextBuffer
    <3> QED
      BY <1>1, <1>2, <2>2, <2>3, <2>4, <3>1, Zenon DEF SourceWrote
  <2>5. CASE lRead = <<>>
    BY <1>1, <2>2, <2>3, <2>5 DEF WriteBuffer, NextBuffer, SourceWrote, Buffers, source_tcp, source_udp, source
  <2>6. CASE lRead = <<"w">>
    BY <1>1, <2>2, <2>3, <2>6 DEF WriteBuffer, NextBuffer, SourceWrote, Buffers, source_tcp, source_udp, source
  <2>7. CASE lRead = <<"w", "u">>
    <3>1. NextBuffer = "w"
      BY <2>7 DEF NextBuffer, Buffers
    <3>2. lRead' = Append(lRead, "w") /\ lPc' # "closed" /\ (lPc' # "died" /\ ~lProg.ignore => lSent' = Append(lSent, "w"))
      BY <1>1, <3>1 DEF WriteBuffer, source_tcp, source_udp, source
    <3>6. Append(<<"w", "u">>, "w") = Buffers /\ Append(<<"w">>, "w") = <<"w", "w">>
      <4>1. Append(<<"w", "u">>, "w") = <<"w", "u", "w">>
        BY AppendThird
      <4>2. Append(<<"w">>, "w") = <<"w", "w">>
        BY AppendSecond
      <4> QED
        BY <4>1, <4>2 DEF Buffers
    <3>3. lRead' = Buffers
      BY <2>7, <3>2, <3>6, Zenon
    <3>7. Len(Buffers) = 3 /\ ~(Len(Buffers) < 2) /\ Len(Buffers) # 2
      BY DEF Buffers
    <3>4. ~lProg.ignore => lSent = IF Tcp THEN <<"w", "u">> ELSE <<"w">>
      BY <2>2, <2>7
    <3>5. lPc' # "died" /\ ~lProg.ignore => lSent' = IF Tcp THEN Buffers ELSE <<"w", "w">>
      BY <3>2, <3>4, <3>6, Zenon
    <3> QED
      BY <1>1, <2>3, <3>2, <3>3, <3>5, <3>7, Zenon DEF SourceWrote
  <2> QED
    BY <2>1, <2>4, <2>5, <2>6, <2>7
<1> QED
  BY <1>4, <1>5, <1>6 DEF LoopInv

\* sock copies standard input to the socket and the socket to standard output, every byte
\* in order and converted as -c says, once, or twice on standard output with -Z, whatever the
\* sizes of the buffers, of the reads and of the chunks (sock/looptcp.c, sock/loopudp.c,
\* sock/crlf.c, sock/write.c); only what a UDP socket with -o sends may go astray.
THEOREM CopyIsExact == LoopSpec => []SockCopies
<1>1. LoopInit => LoopInv
  BY LoopStarts
<1>2. LoopInv /\ [LoopNext]_loopVars => LoopInv'
  <2> SUFFICES ASSUME LoopInv, [LoopNext]_loopVars PROVE LoopInv'
    OBVIOUS
  <2>1. CASE ReadSocket
    <3>1. CASE RecvCall.eof
      BY <2>1, <3>1, LoopReadEof
    <3>2. CASE ~RecvCall.eof
      BY <2>1, <3>2, LoopReadSome
    <3> QED
      BY <3>1, <3>2
  <2>2. CASE UNCHANGED loopVars
    <3>1. LoopTypes' /\ LoopPlaces'
      BY <2>2, Zenon DEF loopVars, LoopInv, LoopTypes, LoopPlaces, Tcp
    <3>2. InputReady' /\ LoopCopied'
      BY <2>2, SamePrinted, Zenon DEF loopVars, LoopInv, InputReady, LoopCopied, Converted
    <3>4. PeekShown'
      BY <2>2, SamePeek DEF loopVars, LoopInv
    <3>3. LoopClosed' /\ SourceWrote'
      BY <2>2, Zenon DEF loopVars, LoopInv, LoopClosed, SourceWrote, Tcp
    <3> QED
      BY <3>1, <3>2, <3>3, <3>4 DEF LoopInv
  <2> QED
    BY <2>1, <2>2, LoopType, LoopPeerSends, LoopPeerCloses, LoopSelect, LoopReadStdin, LoopWriteBuffer, LoopIoFails
    DEF LoopNext, LoopMain
<1>3. LoopInv => SockCopies
  <2> SUFFICES ASSUME LoopInv PROVE SockCopies
    OBVIOUS
  <2>1. /\ lPc # "iov_full"
        /\ lStray => lProg.sock \in {"unc", "servo"}
        /\ IsLoop(lProg.fn) /\ lPc # "died" => (lSent = Converted \/ lStray) /\ PrintedRight
    BY Zenon DEF LoopInv, LoopPlaces, LoopCopied
  <2>2. lPc = "closed" =>
           /\ IsLoop(lProg.fn) /\ lProg.half => lFin /\ lNet = <<>>
           /\ IsLoop(lProg.fn) /\ ~lProg.half => lFin \/ lEof \/ (lProg.sock = "cli" /\ lNet # <<>> /\ Head(lNet) = <<>>)
           /\ IsSink(lProg.fn) /\ Tcp => lNet = <<>>
    BY Zenon DEF LoopInv, LoopClosed
  <2>3. IsSource(lProg.fn) /\ lPc = "closed" /\ ~lProg.ignore => lSent = IF Tcp THEN Buffers ELSE <<"w", "w">>
    <3>1. ~(Len(Buffers) < 2) /\ Len(Buffers) # 2
      BY DEF Buffers
    <3>2. lPc = "closed" => lPc # "died"
      OBVIOUS
    <3> QED
      BY <3>1, <3>2, Zenon DEF LoopInv, SourceWrote
  <2> QED
    BY <2>1, <2>2, <2>3, Zenon DEF SockCopies
<1> QED
  BY <1>1, <1>2, <1>3, PTL DEF LoopSpec

-----------------------------------------------------------------------------
(* getaddrinfo()                                                            *)

SockTypes == {"0", "STREAM", "DGRAM", "RAW", "bad"}
GaiPlaces == {"idle", "check", "search", "add", "unix", "canon", "serv", "port", "returned", "failed", "freed",
              "quit", "crashed"}

\* An address to make an addrinfo{} of; an addrinfo{}; one that can be cloned; one without a name.
Addresses == {"INET", "INET6", "LOCAL"} \X Nat \X SockTypes
AddrInfos == [fam : {"INET", "INET6", "LOCAL", "UNSPEC"}, id : Nat, type : SockTypes, port : SockTypes \cup {"none", "13"},
              sa : BOOLEAN, cn : BOOLEAN, clone : BOOLEAN]
Whole == {ai \in AddrInfos : ai.clone => ai.sa}
Unnamed == {ai \in Whole : ~ai.cn}

SearchEntries == [fam : {"INET", "INET6"}, host : {"v4", "v6", "name", "/path"}]

CanonBlock == IF gCanon = "strdup" THEN 1 ELSE 0

\* The call is on its way: every block is in the list, or is the name that has been saved.
Building == gPc \in {"idle", "check", "search", "add", "unix", "canon", "serv", "port", "returned"}
LostUnix == UnixReq(gReq) /\ gRc \notin {"ok", "nothing"}

GaiTypes ==
    /\ gImpl \in {"libgai", "libfree", "savecopy"} /\ gPc \in GaiPlaces /\ gReq \in Requests
    /\ gAddrs \in Seq(Addresses) /\ gList \in Seq(Whole) /\ gTodo \in Seq(SockTypes)
    /\ gDns \in [{"INET", "INET6"} -> Nat] /\ gSvc \subseteq {"STREAM", "DGRAM"}
    /\ gImpl # "libfree" => gSearch \in Seq(SearchEntries)

HeapInv ==
    /\ Building => gLive = Blocks(gList) + CanonBlock
    /\ gPc \in {"idle", "check", "unix", "failed", "freed"} => gList = <<>>
    /\ gPc \in {"search", "add", "canon"} => gList \in Seq(Unnamed)
    /\ gPc \in {"idle", "check"} => gCanon = "none" /\ gAddrs = <<>>
    /\ gPc \in {"failed", "freed"} /\ ~LostUnix => gLive = CanonBlock
    /\ gPc = "unix" => UnixReq(gReq)
    /\ gPc = "returned" => gRc \in {"ok", "nothing"}
    /\ gImpl # "libgai" /\ gPc \in {"add", "canon"} => gList # <<>> \/ gAddrs # <<>>
    /\ gPc = "canon" => gAddrs = <<>>
    /\ gCanon = "strdup" => gImpl = "libgai"
    /\ gImpl = "libfree" /\ gPc = "search" => gList = <<>> /\ Tail(gSearch) = <<>>
    /\ gImpl = "libfree" /\ gPc = "add" => gSearch = <<>>

GaiHeap == GaiTypes /\ HeapInv

\* The call is one of those whose list is compared with the expected one.
Ordinary == gImpl # "savecopy" /\ ~UnixReq(gReq)

Searches == IF gImpl = "libgai" THEN ga_nsearch(gReq) ELSE search_libfree(gReq)
CheckOf == IF gImpl = "libfree" THEN echeck_libfree(gReq) ELSE ga_echeck(gReq)

\* src are the addresses the list has been made of.
MadeOf(src) == gList = [k \in 1 .. Len(src) |-> Struct(src[k], TRUE)]

\* The addresses in the list and those that wait are the ones found so far.
SearchInv ==
    Ordinary /\ gPc \in {"search", "add"} =>
       \E src \in Seq(Addresses) :
          /\ MadeOf(src) /\ (gPc = "search" => gAddrs = <<>>)
          /\ \/ gSearch = Searches /\ gPc = "search" /\ src = <<>> /\ gDns = NoAddrs
             \/ /\ gImpl = "libgai" /\ gReq.fam = "UNSPEC" /\ gSearch = Tail(Searches)
                /\ src \o gAddrs = AddrsOf("INET6") /\ gDns["INET"] = 0
             \/ gSearch = <<>> /\ gPc = "add" /\ src \o gAddrs = AllAddrs

CnAt(k) == k = 1 /\ "CANON" \in gReq.flags /\ (gReq.host # "none" \/ gImpl = "libfree")
Entry(k) == IF CnAt(k) THEN [Struct(AllAddrs[k], TRUE) EXCEPT !.cn = TRUE] ELSE Struct(AllAddrs[k], TRUE)
Passed1(k, t) == [Entry(k) EXCEPT !.type = t, !.port = PortOf(t)]
Passed2(k, t, u) == [ga_clone(Passed1(k, t)) EXCEPT !.type = u, !.port = PortOf(u)]

List0 == [k \in 1 .. Len(AllAddrs) |-> Entry(k)]
List1(t) == [k \in 1 .. Len(AllAddrs) |-> Passed1(k, t)]
List2(t, u) == FlattenSeq([k \in 1 .. Len(AllAddrs) |-> <<Passed1(k, t), Passed2(k, t, u)>>])

\* The socket types the service is entered for.
TypesTodo ==
    IF gReq.serv = "13" /\ gReq.type # "0" THEN <<gReq.type>>
    ELSE IF gReq.serv = "13" /\ gImpl = "libgai" THEN <<"STREAM", "DGRAM">> ELSE ByName(gSvc)

\* The passes of ga_port() that have been made.
PortInv ==
    /\ Ordinary /\ gPc = "canon" => MadeOf(AllAddrs)
    /\ Ordinary /\ gPc = "serv" => gList = List0 /\ gReq.serv # "none"
    /\ Ordinary /\ gPc = "port" =>
          /\ gReq.serv # "none"
          /\ \/ gTodo = TypesTodo /\ gRc = "none" /\ gList = List0
             \/ \E t \in SockTypes : TypesTodo = <<t>> \o gTodo /\ gRc = "ok" /\ gList = List1(t)
             \/ \E t, u \in SockTypes : TypesTodo = <<t, u>> /\ gTodo = <<>> /\ gRc = "ok" /\ gList = List2(t, u)
    /\ Ordinary /\ gPc = "returned" =>
          \/ gReq.serv = "none" /\ gList = List0
          \/ gReq.serv # "none" /\ \E t \in SockTypes : TypesTodo = <<t>> /\ gList = List1(t)
          \/ gReq.serv # "none" /\ \E t, u \in SockTypes : TypesTodo = <<t, u>> /\ gList = List2(t, u)

\* Which requests come how far, and with which error they end.
PlaceInv ==
    /\ gPc \in {"idle", "check"} => gRc = "none" /\ gDns = NoAddrs
    /\ gPc \in {"idle", "check", "unix", "search", "add", "canon", "serv"} => gSvc = {}
    /\ gReq.serv # "name" => gSvc = {}
    /\ UnixReq(gReq) /\ gPc \in {"unix", "search", "add"} => gSearch = <<>> /\ gPc # "search"
    /\ gImpl # "savecopy" /\ gPc \in {"unix", "search", "add", "canon", "serv", "port", "returned"} => CheckOf = "ok"
    /\ gImpl = "libgai" /\ ~UnixReq(gReq) /\ gPc \in {"search", "add"} =>
          gReq.fam \in {"UNSPEC", "INET", "INET6"} /\ gDouble = (gReq.fam = "UNSPEC")
    /\ gPc \in {"serv", "port"} => gReq.serv # "none" /\ ~UnixReq(gReq)

CodeInv ==
    /\ gImpl = "libgai" /\ gRc = "ADDRFAMILY" => gReq.host \in {"v4", "v6", "/path"}
    /\ gImpl = "libgai" /\ gPc = "returned" => gRc = "ok" /\ (gReq.serv = "none" => gList # <<>>)
    /\ gImpl = "libgai" /\ gPc = "failed" /\ ga_echeck(gReq) # "ok" => gRc = ga_echeck(gReq)
    /\ gImpl = "libgai" /\ gPc = "failed" /\ ga_echeck(gReq) = "ok" =>
          /\ gRc \in {"MEMORY", "NONAME", "SERVICE", "ADDRFAMILY", "AGAIN", "FAIL", "NODATA", "SYSTEM"}
          /\ gRc \in {"AGAIN", "FAIL", "NODATA"} => gReq.fam # "UNSPEC"
          /\ gRc = "SYSTEM" => UnixReq(gReq)
          /\ gRc = "SERVICE" => gReq.type # "0" \/ gReq.serv = "/long"
          /\ gSvc # {} => gRc = "MEMORY" \/ (gReq.type # "0" /\ gRc = "SERVICE")

-----------------------------------------------------------------------------
(* The heap                                                                 *)

BlockNames == {"ai", "addr", "canonname"}

\* The blocks of one addrinfo{}.
LEMMA BlocksOfType ==
    ASSUME NEW ai
    PROVE  /\ BlocksOf(ai) \in Seq(BlockNames)
           /\ Len(BlocksOf(ai)) = 1 + (IF ai.sa THEN 1 ELSE 0) + (IF ai.cn THEN 1 ELSE 0)
<1>1. "ai" \in BlockNames /\ "addr" \in BlockNames /\ "canonname" \in BlockNames
  BY DEF BlockNames
<1> DEFINE a == <<"ai">>
           b == IF ai.sa THEN <<"addr">> ELSE <<>>
           c == IF ai.cn THEN <<"canonname">> ELSE <<>>
<1>2. a \in Seq(BlockNames) /\ Len(a) = 1
  BY <1>1
<1>3. b \in Seq(BlockNames) /\ Len(b) = IF ai.sa THEN 1 ELSE 0
  BY <1>1
<1>4. c \in Seq(BlockNames) /\ Len(c) = IF ai.cn THEN 1 ELSE 0
  BY <1>1
<1>5. BlocksOf(ai) = a \o b \o c
  BY DEF BlocksOf
<1> HIDE DEF a, b, c
<1>6. a \o b \in Seq(BlockNames) /\ Len(a \o b) = Len(a) + Len(b)
  BY <1>2, <1>3, LenConcat
<1> DEFINE d == a \o b
<1>7. d \in Seq(BlockNames) /\ Len(d) = Len(a) + Len(b) /\ BlocksOf(ai) = d \o c
  BY <1>5, <1>6
<1> HIDE DEF d
<1>8. d \o c \in Seq(BlockNames) /\ Len(d \o c) = Len(d) + Len(c)
  BY <1>4, <1>7, LenConcat
<1>9. Len(d \o c) = 1 + (IF ai.sa THEN 1 ELSE 0) + (IF ai.cn THEN 1 ELSE 0)
  BY <1>2, <1>3, <1>4, <1>7, <1>8
<1> QED
  BY <1>7, <1>8, <1>9, Zenon

BlockMap(S) == [ai \in S |-> BlocksOf(ai)]

\* The blocks of a list are those of its elements, one after the other.
LEMMA BlocksIs ==
    ASSUME NEW S, NEW s \in Seq(S)
    PROVE  /\ Image(BlockMap(S), s) \in Seq(Seq(BlockNames))
           /\ Blocks(s) = Len(FlattenSeq(Image(BlockMap(S), s)))
           /\ FlattenSeq(Image(BlockMap(S), s)) \in Seq(BlockNames)
<1>0. DOMAIN s = 1 .. Len(s) /\ \A k \in 1 .. Len(s) : s[k] \in S
  OBVIOUS
<1>1. [k \in DOMAIN s |-> BlocksOf(s[k])] = Image(BlockMap(S), s)
  BY <1>0, Zenon DEF Image, BlockMap
<1>2. \A x \in S : BlockMap(S)[x] \in Seq(BlockNames)
  BY BlocksOfType, Zenon DEF BlockMap
<1>3. Image(BlockMap(S), s) \in Seq(Seq(BlockNames))
  BY <1>2, ImageType, Zenon
<1>4. Blocks(s) = Len(FlattenSeq(Image(BlockMap(S), s)))
  BY <1>1, Zenon DEF Blocks
<1> QED
  BY <1>3, <1>4, FlattenType, Zenon

\* Their number is a natural number.
LEMMA BlocksNat ==
    ASSUME NEW S, NEW s \in Seq(S)
    PROVE  Blocks(s) \in Nat
<1> DEFINE f == FlattenSeq(Image(BlockMap(S), s))
<1>1. Blocks(s) = Len(f) /\ f \in Seq(BlockNames)
  BY BlocksIs, Zenon
<1> HIDE DEF f
<1> QED
  BY <1>1

\* The blocks of two lists are those of both.
LEMMA BlocksConcat ==
    ASSUME NEW S, NEW s \in Seq(S), NEW t \in Seq(S)
    PROVE  Blocks(s \o t) = Blocks(s) + Blocks(t)
<1> DEFINE G == BlockMap(S)
           a == Image(G, s)
           b == Image(G, t)
           c == Image(G, s \o t)
<1>0. s \o t \in Seq(S)
  OBVIOUS
<1>1. c = a \o b
  <2> HIDE DEF G
  <2> QED
    BY ImageConcat
<1>2. a \in Seq(Seq(BlockNames)) /\ Blocks(s) = Len(FlattenSeq(a)) /\ FlattenSeq(a) \in Seq(BlockNames)
  BY BlocksIs, Zenon
<1>3. b \in Seq(Seq(BlockNames)) /\ Blocks(t) = Len(FlattenSeq(b)) /\ FlattenSeq(b) \in Seq(BlockNames)
  BY BlocksIs, Zenon
<1>4. Blocks(s \o t) = Len(FlattenSeq(c))
  BY <1>0, BlocksIs, Zenon
<1> HIDE DEF a, b, c
<1>5. FlattenSeq(c) = FlattenSeq(a) \o FlattenSeq(b)
  BY <1>1, <1>2, <1>3, FlattenConcat
<1> DEFINE x == FlattenSeq(a)
           y == FlattenSeq(b)
<1>6. x \in Seq(BlockNames) /\ y \in Seq(BlockNames) /\ Blocks(s) = Len(x) /\ Blocks(t) = Len(y) /\ Blocks(s \o t) = Len(x \o y)
  BY <1>2, <1>3, <1>4, <1>5
<1> HIDE DEF x, y
<1> QED
  BY <1>6, LenConcat

\* The empty list has no blocks.
LEMMA BlocksEmpty == Blocks(<<>>) = 0
<1>1. [k \in DOMAIN <<>> |-> BlocksOf(<<>>[k])] = <<>>
  OBVIOUS
<1>2. Blocks(<<>>) = Len(<<>>)
  BY <1>1, FlattenEmpty, Zenon DEF Blocks
<1> QED
  BY <1>2

\* The blocks of a list of one element.
LEMMA BlocksOne ==
    ASSUME NEW ai
    PROVE  Blocks(<<ai>>) = 1 + (IF ai.sa THEN 1 ELSE 0) + (IF ai.cn THEN 1 ELSE 0)
<1>1. [k \in DOMAIN <<ai>> |-> BlocksOf(<<ai>>[k])] = <<BlocksOf(ai)>>
  OBVIOUS
<1>2. FlattenSeq(<<BlocksOf(ai)>>) = BlocksOf(ai)
  BY BlocksOfType, FlattenOne, Zenon
<1>3. Blocks(<<ai>>) = Len(BlocksOf(ai))
  BY <1>1, <1>2, Zenon DEF Blocks
<1> QED
  BY <1>3, BlocksOfType

\* The blocks of a list with one element more.
LEMMA BlocksAppend ==
    ASSUME NEW S, NEW s \in Seq(S), NEW ai \in S
    PROVE  Blocks(Append(s, ai)) = Blocks(s) + 1 + (IF ai.sa THEN 1 ELSE 0) + (IF ai.cn THEN 1 ELSE 0)
<1>1. <<ai>> \in Seq(S) /\ Append(s, ai) = s \o <<ai>>
  BY AppendIsConcat
<1>2. Blocks(s \o <<ai>>) = Blocks(s) + Blocks(<<ai>>)
  BY <1>1, BlocksConcat
<1>3. Blocks(s) \in Nat
  BY BlocksNat
<1> QED
  BY <1>1, <1>2, <1>3, BlocksOne

\* A sequence over a set is one over every larger set.
LEMMA SeqGrows ==
    ASSUME NEW S, NEW T, S \subseteq T, NEW s \in Seq(S)
    PROVE  s \in Seq(T)
<1>1. Len(s) \in Nat /\ s \in [1 .. Len(s) -> T]
  OBVIOUS
<1> QED
  BY <1>1

GaiPorts == SockTypes \cup {"none", "13"}

\* One element of the list in ga_port(): a clone adds two blocks.
LEMMA PortedType ==
    ASSUME NEW ai \in Whole, NEW port \in GaiPorts, NEW type \in SockTypes
    PROVE  /\ Ported(ai, port, type) \in Seq(Whole)
           /\ Blocks(Ported(ai, port, type)) = Blocks(<<ai>>) + (IF NeedsClone(ai) THEN 2 ELSE 0)
<1> DEFINE copy == [ga_clone(ai) EXCEPT !.type = type, !.port = port]
           same == [ai EXCEPT !.type = type, !.port = port]
<1>1. ai \in AddrInfos /\ (ai.clone => ai.sa)
  BY DEF Whole
<1>2. copy \in Whole /\ same \in Whole
  BY <1>1 DEF Whole, AddrInfos, ga_clone, GaiPorts
<1>3. copy.sa = ai.sa /\ ~copy.cn /\ same.sa = ai.sa /\ same.cn = ai.cn
  BY <1>1 DEF AddrInfos, ga_clone
<1>4. Ported(ai, port, type) = IF NeedsClone(ai) THEN <<ai, copy>> ELSE IF ~ai.clone /\ ai.type # type THEN <<ai>> ELSE <<same>>
  BY DEF Ported
<1>5. Blocks(<<ai>>) = 1 + (IF ai.sa THEN 1 ELSE 0) + (IF ai.cn THEN 1 ELSE 0)
  BY BlocksOne
<1> HIDE DEF copy, same
<1>6. CASE NeedsClone(ai)
  <2>1. Ported(ai, port, type) = <<ai, copy>>
    BY <1>4, <1>6, Zenon
  <2>2. <<ai, copy>> \in Seq(Whole) /\ <<ai>> \in Seq(Whole) /\ <<ai, copy>> = Append(<<ai>>, copy)
    <3>1. <<ai, copy>> = Append(<<ai>>, copy)
      BY AppendSecond
    <3> QED
      BY <1>2, <3>1
  <2>3. Blocks(Append(<<ai>>, copy)) = Blocks(<<ai>>) + 1 + (IF copy.sa THEN 1 ELSE 0) + (IF copy.cn THEN 1 ELSE 0)
    BY <1>2, <2>2, BlocksAppend
  <2>4. copy.sa
    BY <1>1, <1>3, <1>6 DEF NeedsClone
  <2>5. Blocks(<<ai>>) \in Nat
    BY <1>5
  <2>6. Blocks(Append(<<ai>>, copy)) = Blocks(<<ai>>) + 2
    <3> DEFINE x == Blocks(Append(<<ai>>, copy))
               y == Blocks(<<ai>>)
    <3>1. x = y + 1 + (IF copy.sa THEN 1 ELSE 0) + (IF copy.cn THEN 1 ELSE 0) /\ y \in Nat
      BY <2>3, <2>5, Zenon
    <3> HIDE DEF x, y
    <3>2. x = y + 2
      BY <1>3, <2>4, <3>1
    <3> QED
      BY <3>2 DEF x, y
  <2> QED
    BY <1>6, <2>1, <2>2, <2>6, Zenon
<1>7. CASE ~NeedsClone(ai) /\ ~ai.clone /\ ai.type # type
  BY <1>4, <1>5, <1>7
<1>8. CASE ~NeedsClone(ai) /\ ~(~ai.clone /\ ai.type # type)
  <2>1. Blocks(<<same>>) = 1 + (IF same.sa THEN 1 ELSE 0) + (IF same.cn THEN 1 ELSE 0)
    BY BlocksOne
  <2> QED
    BY <1>2, <1>3, <1>4, <1>5, <1>8, <2>1
<1> QED
  BY <1>6, <1>7, <1>8

\* A function on 1 .. n + 1 is one on 1 .. n with a value appended.
LEMMA MapAppend ==
    ASSUME NEW S, NEW n \in Nat, NEW f, \A k \in 1 .. n + 1 : f[k] \in S
    PROVE  /\ [k \in 1 .. n |-> f[k]] \in Seq(S)
           /\ [k \in 1 .. n + 1 |-> f[k]] = Append([k \in 1 .. n |-> f[k]], f[n + 1])
<1> DEFINE a == [k \in 1 .. n |-> f[k]]
           b == [k \in 1 .. n + 1 |-> f[k]]
<1>1. n + 1 \in Nat /\ n + 1 \in 1 .. n + 1 /\ \A k \in 1 .. n : k \in 1 .. n + 1
  OBVIOUS
<1>2. a \in [1 .. n -> S] /\ b \in [1 .. n + 1 -> S] /\ f[n + 1] \in S
  BY <1>1
<1>3. a \in Seq(S) /\ Len(a) = n /\ b \in Seq(S) /\ Len(b) = n + 1
  BY <1>1, <1>2
<1>4. (\A k \in 1 .. n : a[k] = f[k]) /\ (\A k \in 1 .. n + 1 : b[k] = f[k])
  OBVIOUS
<1> HIDE DEF a, b
<1>5. b = Append(a, f[n + 1])
  <2> DEFINE c == Append(a, f[n + 1])
  <2>1. c \in Seq(S) /\ Len(c) = n + 1
    BY <1>2, <1>3
  <2>2. \A k \in 1 .. n + 1 : c[k] = b[k]
    BY <1>2, <1>3, <1>4
  <2> HIDE DEF c
  <2>3. b = c
    BY <1>3, <2>1, <2>2, SeqEqual
  <2> QED
    BY <2>3 DEF c
<1> QED
  BY <1>3, <1>5 DEF a, b

\* The clones among the first n + 1 elements.
LEMMA ClonesNext ==
    ASSUME NEW list, NEW n \in Nat
    PROVE  /\ Clones(n, list) \in Nat
           /\ Clones(n + 1, list) = Clones(n, list) + (IF NeedsClone(list[n + 1]) THEN 1 ELSE 0)
<1> DEFINE A == {k \in 1 .. n : NeedsClone(list[k])}
           B == {k \in 1 .. n + 1 : NeedsClone(list[k])}
<1>1. IsFiniteSet(1 .. n)
  BY FS_Interval
<1>2. A \subseteq 1 .. n /\ n + 1 \notin A
  OBVIOUS
<1>3. IsFiniteSet(A) /\ Cardinality(A) \in Nat
  <2> HIDE DEF A
  <2> QED
    BY <1>1, <1>2, FS_Subset, FS_CardinalityType
<1>4. B = IF NeedsClone(list[n + 1]) THEN A \cup {n + 1} ELSE A
  OBVIOUS
<1>5. Clones(n, list) = Cardinality(A) /\ Clones(n + 1, list) = Cardinality(B)
  BY DEF Clones
<1> HIDE DEF A, B
<1>6. Cardinality(A \cup {n + 1}) = Cardinality(A) + 1
  BY <1>2, <1>3, FS_AddElement
<1> QED
  BY <1>3, <1>4, <1>5, <1>6

\* The clones among no elements.
LEMMA ClonesNone == ASSUME NEW list PROVE Clones(0, list) = 0
<1>1. {k \in 1 .. 0 : NeedsClone(list[k])} = {}
  OBVIOUS
<1> QED
  BY <1>1, FS_EmptySet DEF Clones

UptoRight(n, port, type, list) ==
    /\ PortedUpto(n, port, type, list) \in Seq(Whole)
    /\ Blocks(PortedUpto(n, port, type, list)) = Blocks(SubSeq(list, 1, n)) + 2 * Clones(n, list)

\* What ga_port() has made of the first m elements, for every m.
LEMMA UptoBlocks ==
    ASSUME NEW list \in Seq(Whole), NEW port \in GaiPorts, NEW type \in SockTypes, NEW m \in 0 .. Len(list)
    PROVE  UptoRight(m, port, type, list)
<1> DEFINE Wrong == {n \in 0 .. Len(list) : ~UptoRight(n, port, type, list)}
           P(k) == Ported(list[k], port, type)
<1> SUFFICES ASSUME Wrong # {} PROVE FALSE
  OBVIOUS
<1>0. Wrong \subseteq Nat /\ Len(list) \in Nat
  OBVIOUS
<1>1. PICK n \in Wrong : \A k \in Wrong : n <= k
  BY <1>0, LeastOf
<1>2. n \in Nat /\ n <= Len(list) /\ ~UptoRight(n, port, type, list)
  BY <1>1, <1>0
<1>3. n # 0
  <2>1. PortedUpto(0, port, type, list) = <<>>
    <3>1. [k \in 1 .. 0 |-> P(k)] = <<>>
      OBVIOUS
    <3> QED
      BY <3>1, FlattenEmpty, Zenon DEF PortedUpto
  <2>2. SubSeq(list, 1, 0) = <<>>
    BY SubSeqEmpty
  <2>3. <<>> \in Seq(Whole)
    OBVIOUS
  <2>4. UptoRight(0, port, type, list)
    <3>1. Clones(0, list) = 0 /\ 0 = 0 + 2 * 0
      BY ClonesNone
    <3> QED
      BY <2>1, <2>2, <2>3, <3>1, BlocksEmpty, Zenon DEF UptoRight
  <2> QED
    BY <1>2, <2>4
<1> DEFINE p == n - 1
<1>4. p \in Nat /\ n = p + 1 /\ p \in 0 .. Len(list) /\ p + 1 \in 1 .. Len(list) /\ p + 1 <= Len(list)
  BY <1>2, <1>3, <1>0
<1>5. UptoRight(p, port, type, list)
  <2>1. ~(n <= p)
    BY <1>4
  <2> QED
    BY <1>1, <1>4, <2>1
<1> HIDE DEF p, Wrong
<1>6. \A k \in 1 .. p + 1 : list[k] \in Whole
  BY <1>4, <1>0
<1>7. \A k \in 1 .. p + 1 : P(k) \in Seq(Whole)
  BY <1>6, PortedType, Zenon
<1> DEFINE f == [k \in 1 .. p + 1 |-> P(k)]
           a == [k \in 1 .. p |-> f[k]]
<1>8. p + 1 \in 1 .. p + 1 /\ \A k \in 1 .. p : k \in 1 .. p + 1
  BY <1>4
<1>9. (\A k \in 1 .. p + 1 : f[k] \in Seq(Whole)) /\ f[p + 1] = P(p + 1) /\ [k \in 1 .. p + 1 |-> f[k]] = f
  BY <1>7, <1>8, Zenon
<1>10. a = [k \in 1 .. p |-> P(k)]
  BY <1>8, Zenon
<1>11. PortedUpto(p, port, type, list) = FlattenSeq(a)
  BY <1>10, Zenon DEF PortedUpto
<1>12. PortedUpto(p + 1, port, type, list) = FlattenSeq(f)
  BY Zenon DEF PortedUpto
<1>p. P(p + 1) \in Seq(Whole) /\ Blocks(P(p + 1)) = Blocks(<<list[p + 1]>>) + (IF NeedsClone(list[p + 1]) THEN 2 ELSE 0)
  BY <1>6, <1>8, PortedType, Zenon
<1> DEFINE q == P(p + 1)
           L == list[p + 1]
           T == Seq(Whole)
<1>13. a \in Seq(Seq(Whole)) /\ f = Append(a, q)
  <2> HIDE DEF f, q, P
  <2>1. (\A k \in 1 .. p + 1 : f[k] \in T) /\ f[p + 1] = q
    BY <1>9, Zenon DEF q, T
  <2> HIDE DEF T
  <2>2. a \in Seq(T) /\ [k \in 1 .. p + 1 |-> f[k]] = Append(a, q)
    BY <2>1, <1>4, MapAppend
  <2>3. f = Append(a, q)
    BY <2>2, <1>9, Zenon
  <2> QED
    BY <2>2, <2>3 DEF T
<1>14. q \in Seq(Whole) /\ Blocks(q) = Blocks(<<L>>) + (IF NeedsClone(L) THEN 2 ELSE 0)
  BY <1>p
<1> HIDE DEF a, f, q, P, T
<1>15. FlattenSeq(f) = FlattenSeq(a) \o q
  BY <1>13, <1>14, FlattenAppend
<1> DEFINE x == FlattenSeq(a)
           s == SubSeq(list, 1, p)
<1>16. x \in Seq(Whole) /\ Blocks(x) = Blocks(s) + 2 * Clones(p, list)
  BY <1>5, <1>11 DEF UptoRight
<1>17. s \in Seq(Whole) /\ SubSeq(list, 1, p + 1) = Append(s, L)
  <2>1. \A k \in 1 .. p + 1 : list[k] \in Whole
    BY <1>6
  <2>2. s \in Seq(Whole) /\ Len(s) = p
    BY <1>4, <1>6, SubSeqProperties
  <2> QED
    BY <1>4, <1>6, <2>2
<1>18. L \in Whole
  BY <1>6, <1>8
<1> HIDE DEF x, s, L
<1>19. Blocks(x \o q) = Blocks(x) + Blocks(q)
  BY <1>14, <1>16, BlocksConcat
<1>20. Blocks(Append(s, L)) = Blocks(s) + Blocks(<<L>>)
  <2>1. Blocks(s) \in Nat
    BY <1>17, BlocksNat
  <2> QED
    BY <1>17, <1>18, <2>1, BlocksAppend, BlocksOne
<1>27. p + 1 \in Nat /\ 2 * Clones(p, list) \in Nat
  BY <1>4, ClonesNext
<1>21. Clones(p, list) \in Nat /\ Clones(p + 1, list) = Clones(p, list) + (IF NeedsClone(L) THEN 1 ELSE 0)
  BY <1>4, ClonesNext DEF L
<1>22. Blocks(s) \in Nat /\ Blocks(<<L>>) \in Nat
  BY <1>17, BlocksNat, BlocksOne
<1>23. x \o q \in Seq(Whole)
  BY <1>14, <1>16, LenConcat
<1>24. PortedUpto(p + 1, port, type, list) = x \o q
  BY <1>12, <1>15 DEF x
<1>25. Blocks(x \o q) = Blocks(SubSeq(list, 1, p + 1)) + 2 * Clones(p + 1, list)
  <2> DEFINE all == Blocks(x \o q)
             bx == Blocks(x)
             bq == Blocks(q)
             bs == Blocks(s)
             bl == Blocks(<<L>>)
             bn == Blocks(SubSeq(list, 1, p + 1))
             c == Clones(p, list)
             d == Clones(p + 1, list)
             one == IF NeedsClone(L) THEN 1 ELSE 0
  <2>1. all = bx + bq /\ bx = bs + 2 * c /\ bn = bs + bl /\ c \in Nat /\ d = c + one /\ bs \in Nat /\ bl \in Nat
    BY <1>16, <1>17, <1>19, <1>20, <1>21, <1>22, Zenon
  <2>2. bq = bl + (IF NeedsClone(L) THEN 2 ELSE 0)
    BY <1>14, Zenon
  <2>3. one \in Nat /\ bq = bl + 2 * one
    <3> HIDE DEF bq, bl
    <3> QED
      BY <2>1, <2>2
  <2> HIDE DEF all, bx, bq, bs, bl, bn, c, d, one
  <2>4. all = bn + 2 * d
    BY <2>1, <2>3
  <2> QED
    BY <2>4 DEF all, bn, d
<1>26. UptoRight(p + 1, port, type, list)
  BY <1>23, <1>24, <1>25, Zenon DEF UptoRight
<1> QED
  BY <1>2, <1>4, <1>26

SplitsAt(s, S, m) ==
    /\ SubSeq(s, 1, m - 1) \in Seq(S) /\ SubSeq(s, m + 1, Len(s)) \in Seq(S) /\ s[m] \in S
    /\ s = (SubSeq(s, 1, m - 1) \o <<s[m]>>) \o SubSeq(s, m + 1, Len(s))

\* A sequence is split at each of its indices.
LEMMA SplitAt ==
    ASSUME NEW S, NEW s \in Seq(S), NEW m \in 1 .. Len(s)
    PROVE  SplitsAt(s, S, m)
<1> DEFINE n == Len(s)
           a == SubSeq(s, 1, m - 1)
           b == SubSeq(s, m + 1, n)
<1>0. n \in Nat /\ m \in Nat /\ 1 <= m /\ m <= n /\ \A k \in 1 .. n : s[k] \in S
  OBVIOUS
<1>1. a \in Seq(S) /\ Len(a) = m - 1 /\ \A k \in 1 .. m - 1 : a[k] = s[k]
  <2>1. 1 \in Int /\ m - 1 \in Int /\ (\A k \in 1 .. m - 1 : s[k] \in S) /\ m - 1 >= 0
    BY <1>0
  <2>2. /\ a \in Seq(S) /\ Len(a) = IF 1 <= m - 1 THEN (m - 1) - 1 + 1 ELSE 0
        /\ \A k \in 1 .. (m - 1) - 1 + 1 : a[k] = s[1 + k - 1]
    BY <2>1, SubSeqProperties
  <2> HIDE DEF a
  <2> QED
    BY <1>0, <2>1, <2>2
<1>2. b \in Seq(S) /\ Len(b) = n - m /\ \A k \in 1 .. n - m : b[k] = s[m + k]
  <2>1. m + 1 \in Int /\ n \in Int /\ (\A k \in m + 1 .. n : s[k] \in S)
    BY <1>0
  <2>2. /\ b \in Seq(S) /\ Len(b) = IF m + 1 <= n THEN n - (m + 1) + 1 ELSE 0
        /\ \A k \in 1 .. n - (m + 1) + 1 : b[k] = s[(m + 1) + k - 1]
    <3> HIDE DEF n
    <3> QED
      BY <2>1, SubSeqProperties
  <2> HIDE DEF b, n
  <2> QED
    BY <1>0, <2>1, <2>2
<1>3. s[m] \in S
  BY <1>0
<1> DEFINE c == a \o <<s[m]>>
           d == c \o b
<1> HIDE DEF a, b
<1>4. c \in Seq(S) /\ Len(c) = m /\ (\A k \in 1 .. m - 1 : c[k] = s[k]) /\ c[m] = s[m]
  BY <1>0, <1>1, <1>3
<1> HIDE DEF c
<1>5. d \in Seq(S) /\ Len(d) = n
  <2>1. d \in Seq(S) /\ Len(d) = Len(c) + Len(b)
    BY <1>2, <1>4, LenConcat
  <2> HIDE DEF n, d
  <2> QED
    BY <1>0, <1>2, <1>4, <2>1
<1>6. \A k \in 1 .. n : d[k] = s[k]
  <2> TAKE k \in 1 .. n
  <2>1. CASE k <= m
    <3>1. d[k] = c[k]
      BY <1>0, <1>2, <1>4, <2>1
    <3> QED
      BY <1>0, <1>4, <2>1, <3>1
  <2>2. CASE k > m
    <3>1. k - m \in 1 .. n - m /\ d[k] = b[k - m] /\ m + (k - m) = k
      BY <1>0, <1>2, <1>4, <2>2
    <3> QED
      BY <1>2, <3>1
  <2>3. k <= m \/ k > m
    BY <1>0
  <2> QED
    BY <2>1, <2>2, <2>3, Zenon
<1>7. s = d
  <2> HIDE DEF d, n
  <2>1. Len(s) = Len(d) /\ \A k \in 1 .. Len(s) : s[k] = d[k]
    BY <1>5, <1>6 DEF n
  <2> QED
    BY <1>5, <2>1, SeqEqual
<1> QED
  BY <1>1, <1>2, <1>3, <1>7, Zenon DEF a, b, c, SplitsAt

\* However far ga_port() comes, the count of blocks is right.
LEMMA PortHeap ==
    ASSUME NEW list \in Seq(Whole), NEW port \in GaiPorts, NEW type \in SockTypes, NEW live, NEW c \in Nat,
           live = Blocks(list) + c, NEW o \in ga_port(port, type, list, live)
    PROVE  /\ o.list \in Seq(Whole) /\ o.live = Blocks(o.list) + c /\ o.rc \in {"ok", "MEMORY"}
           /\ o.rc = "ok" => o.list = PortedUpto(Len(list), port, type, list)
<1> DEFINE U(n) == PortedUpto(n, port, type, list)
           K(n) == live + 2 * Clones(n, list)
           Behind(n) == SubSeq(list, n + 1, Len(list))
           part(k) == [ga_clone(list[k]) EXCEPT !.sa = FALSE]
<1>0. Len(list) \in Nat /\ Blocks(list) \in Nat
  BY BlocksNat
<1>1. \/ o = [rc |-> "ok", list |-> U(Len(list)), live |-> K(Len(list))]
      \/ \E k \in 1 .. Len(list) :
            /\ NeedsClone(list[k])
            /\ \/ o = [rc |-> "MEMORY", list |-> U(k - 1) \o <<list[k]>> \o Behind(k), live |-> K(k - 1)]
               \/ o = [rc |-> "MEMORY", live |-> K(k - 1) + 1, list |-> U(k - 1) \o <<list[k], part(k)>> \o Behind(k)]
  BY Zenon DEF ga_port
<1>2. CASE o = [rc |-> "ok", list |-> U(Len(list)), live |-> K(Len(list))]
  <2> DEFINE n == Len(list)
             u == U(n)
  <2>1. SubSeq(list, 1, n) = list /\ n \in 0 .. Len(list)
    BY <1>0, SubSeqFull
  <2>2. u \in Seq(Whole) /\ Blocks(u) = Blocks(list) + 2 * Clones(n, list)
    BY <2>1, UptoBlocks DEF UptoRight
  <2>3. o.list = u /\ o.rc = "ok" /\ o.live = live + 2 * Clones(n, list)
    BY <1>2
  <2>4. Clones(n, list) \in Nat
    BY <1>0, ClonesNext
  <2> HIDE DEF n, u
  <2>5. o.live = Blocks(u) + c
    BY <1>0, <2>2, <2>3, <2>4
  <2> QED
    BY <2>2, <2>3, <2>5 DEF u, n
<1>3. ASSUME NEW k \in 1 .. Len(list), NeedsClone(list[k]), NEW tail \in Seq(Whole), NEW more \in Nat,
             Blocks(tail) = Blocks(<<list[k]>>) + more, o.list = U(k - 1) \o tail \o Behind(k), o.live = K(k - 1) + more
      PROVE  o.list \in Seq(Whole) /\ o.live = Blocks(o.list) + c
  <2> DEFINE pre == SubSeq(list, 1, k - 1)
             post == SubSeq(list, k + 1, Len(list))
             one == <<list[k]>>
             u == U(k - 1)
             n == Clones(k - 1, list)
  <2>1. pre \in Seq(Whole) /\ post \in Seq(Whole) /\ list[k] \in Whole /\ list = (pre \o one) \o post
    <3>1. SplitsAt(list, Whole, k)
      BY SplitAt
    <3> QED
      BY <3>1, Zenon DEF SplitsAt
  <2>2. one \in Seq(Whole)
    <3>1. list[k] \in Whole
      BY <2>1, Zenon
    <3> QED
      BY <3>1
  <2>3. k - 1 \in 0 .. Len(list) /\ k - 1 \in Nat
    BY <1>0
  <2>4. u \in Seq(Whole) /\ Blocks(u) = Blocks(pre) + 2 * n
    BY <2>3, UptoBlocks, Zenon DEF UptoRight
  <2>5. n \in Nat
    BY <2>3, ClonesNext
  <2>6. o.list = (u \o tail) \o post /\ o.live = live + 2 * n + more /\ Blocks(tail) = Blocks(one) + more
    BY <1>3, Zenon
  <2> HIDE DEF pre, post, one, u, n
  <2>7. Blocks(pre \o one) = Blocks(pre) + Blocks(one) /\ Blocks(u \o tail) = Blocks(u) + Blocks(tail)
    BY <2>1, <2>2, <2>4, BlocksConcat
  <2>8. pre \o one \in Seq(Whole) /\ u \o tail \in Seq(Whole)
    BY <2>1, <2>2, <2>4, LenConcat
  <2> DEFINE v == pre \o one
             w == u \o tail
  <2>9. v \in Seq(Whole) /\ w \in Seq(Whole) /\ list = v \o post /\ o.list = w \o post
        /\ Blocks(v) = Blocks(pre) + Blocks(one) /\ Blocks(w) = Blocks(u) + Blocks(tail)
    BY <2>1, <2>6, <2>7, <2>8
  <2> HIDE DEF v, w
  <2>10. Blocks(v \o post) = Blocks(v) + Blocks(post) /\ Blocks(w \o post) = Blocks(w) + Blocks(post) /\ w \o post \in Seq(Whole)
    BY <2>1, <2>9, BlocksConcat, LenConcat
  <2>11. Blocks(pre) \in Nat /\ Blocks(one) \in Nat /\ Blocks(post) \in Nat
    BY <2>1, <2>2, BlocksNat
  <2>12. o.list \in Seq(Whole)
    BY <2>9, <2>10, Zenon
  <2>13. o.live = Blocks(o.list) + c
    <3> DEFINE x1 == Blocks(pre)
               x2 == Blocks(one)
               x3 == Blocks(post)
               y1 == Blocks(u)
               y2 == Blocks(tail)
               z == Blocks(o.list)
               t == Blocks(list)
               ol == o.live
    <3>1. /\ x1 \in Nat /\ x2 \in Nat /\ x3 \in Nat /\ y1 = x1 + 2 * n /\ y2 = x2 + more
          /\ z = (y1 + y2) + x3 /\ t = (x1 + x2) + x3 /\ ol = live + 2 * n + more /\ live = t + c
      BY <2>4, <2>6, <2>9, <2>10, <2>11, Zenon
    <3> HIDE DEF x1, x2, x3, y1, y2, z, t, ol
    <3>2. ol = z + c
      BY <2>5, <3>1, SMTT(30)
    <3> QED
      BY <3>2 DEF ol, z
  <2> QED
    BY <2>12, <2>13
<1>4. ASSUME NEW k \in 1 .. Len(list), NeedsClone(list[k]),
             o = [rc |-> "MEMORY", list |-> U(k - 1) \o <<list[k]>> \o Behind(k), live |-> K(k - 1)]
      PROVE  o.list \in Seq(Whole) /\ o.live = Blocks(o.list) + c /\ o.rc = "MEMORY"
  <2>1. list[k] \in Whole
    OBVIOUS
  <2>2. <<list[k]>> \in Seq(Whole) /\ Blocks(<<list[k]>>) \in Nat
    BY <2>1, BlocksOne
  <2>3. o.list = U(k - 1) \o <<list[k]>> \o Behind(k) /\ o.live = K(k - 1) /\ o.rc = "MEMORY"
    BY <1>4
  <2>4. k - 1 \in Nat
    BY <1>0
  <2>5. Clones(k - 1, list) \in Nat
    BY <2>4, ClonesNext
  <2>6. K(k - 1) = K(k - 1) + 0 /\ Blocks(<<list[k]>>) = Blocks(<<list[k]>>) + 0
    BY <1>0, <2>2, <2>5
  <2>7. 0 \in Nat
    OBVIOUS
  <2>8. o.live = K(k - 1) + 0
    BY <2>3, <2>6, Zenon
  <2>9. o.list \in Seq(Whole) /\ o.live = Blocks(o.list) + c
    BY <1>3, <1>4, <2>2, <2>3, <2>6, <2>7, <2>8, Zenon
  <2> QED
    BY <2>3, <2>9
<1>5. ASSUME NEW k \in 1 .. Len(list), NeedsClone(list[k]),
             o = [rc |-> "MEMORY", live |-> K(k - 1) + 1, list |-> U(k - 1) \o <<list[k], part(k)>> \o Behind(k)]
      PROVE  o.list \in Seq(Whole) /\ o.live = Blocks(o.list) + c /\ o.rc = "MEMORY"
  <2>1. list[k] \in Whole
    OBVIOUS
  <2> DEFINE ai == list[k]
             cl == part(k)
  <2>2. cl \in Whole /\ ~cl.sa /\ ~cl.cn
    BY <2>1 DEF Whole, AddrInfos, ga_clone
  <2>3. o.list = U(k - 1) \o <<list[k], part(k)>> \o Behind(k) /\ o.live = K(k - 1) + 1 /\ o.rc = "MEMORY"
    BY <1>5
  <2>4. <<ai, cl>> \in Seq(Whole) /\ Blocks(<<ai, cl>>) = Blocks(<<ai>>) + 1
    <3> HIDE DEF ai, cl
    <3>0. ai \in Whole
      BY <2>1 DEF ai
    <3>1. <<ai, cl>> = Append(<<ai>>, cl)
      BY AppendSecond
    <3>2. <<ai>> \in Seq(Whole) /\ <<ai, cl>> \in Seq(Whole)
      BY <2>2, <3>0
    <3>3. Blocks(Append(<<ai>>, cl)) = Blocks(<<ai>>) + 1 + (IF cl.sa THEN 1 ELSE 0) + (IF cl.cn THEN 1 ELSE 0)
      BY <2>2, <3>2, BlocksAppend
    <3>4. Blocks(<<ai>>) \in Nat
      BY BlocksOne
    <3>5. Blocks(Append(<<ai>>, cl)) = Blocks(<<ai>>) + 1
      BY <2>2, <3>3, <3>4
    <3> QED
      BY <3>1, <3>2, <3>5, Zenon
  <2>5. 1 \in Nat
    OBVIOUS
  <2>6. o.list \in Seq(Whole) /\ o.live = Blocks(o.list) + c
    BY <1>3, <1>5, <2>3, <2>4, <2>5, Zenon
  <2> QED
    BY <2>3, <2>6
<1> HIDE DEF U, K, Behind, part
<1> QED
  BY <1>1, <1>2, <1>4, <1>5

\* What does not change when the arguments, the version and the saved name stay.
LEMMA GaiFrame ==
    /\ (gCanon' = gCanon => CanonBlock' = CanonBlock) /\ CanonBlock \in Nat
    /\ gReq' = gReq /\ gImpl' = gImpl => (UnixReq(gReq)' <=> UnixReq(gReq))
<1>1. gCanon' = gCanon => CanonBlock' = CanonBlock
  BY DEF CanonBlock
<1>2. CanonBlock \in Nat
  BY DEF CanonBlock
<1>3. gReq' = gReq /\ gImpl' = gImpl => (UnixReq(gReq)' <=> UnixReq(gReq))
  BY DEF UnixReq
<1> QED
  BY <1>1, <1>2, <1>3

\* A call that fails has given back what it built.
LEMMA BadFrees ==
    ASSUME NEW S, NEW list \in Seq(S), NEW live, live = Blocks(list) + CanonBlock, NEW e, Bad(e, list, live)
    PROVE  gPc' = "failed" /\ gRc' = e /\ gList' = <<>> /\ gLive' = CanonBlock
<1>1. Blocks(list) \in Nat /\ CanonBlock \in Nat
  BY BlocksNat, GaiFrame
<1>2. gPc' = "failed" /\ gRc' = e /\ gList' = <<>> /\ gLive' = live - Blocks(list)
  BY Zenon DEF Bad, freeaddrinfo
<1> DEFINE b == Blocks(list)
<1> HIDE DEF b
<1>3. live = b + CanonBlock /\ b \in Nat /\ gLive' = live - b
  BY <1>1, <1>2 DEF b
<1>4. gLive' = CanonBlock
  BY <1>1, <1>3
<1> QED
  BY <1>2, <1>4

\* An error that has freed the list keeps the heap's invariant.
LEMMA FailedHeap ==
    ASSUME GaiHeap, gPc' = "failed", gList' = <<>>, gCanon' = "strdup" => gImpl = "libgai", LostUnix' \/ gLive' = CanonBlock', gImpl' = gImpl, gReq' = gReq,
           gAddrs' \in Seq(Addresses), gTodo' \in Seq(SockTypes), gDns' \in [{"INET", "INET6"} -> Nat],
           gSvc' = gSvc, gImpl # "libfree" => gSearch' \in Seq(SearchEntries)
    PROVE  GaiHeap'
<1>1. GaiTypes'
  <2>1. <<>> \in Seq(Whole) /\ "failed" \in GaiPlaces
    BY DEF GaiPlaces
  <2> QED
    BY <2>1, Zenon DEF GaiHeap, GaiTypes
<1>2. HeapInv'
  <2>1. ~Building'
    BY DEF Building
  <2> QED
    BY <2>1 DEF HeapInv
<1> QED
  BY <1>1, <1>2 DEF GaiHeap

\* So does the end of the process.
LEMMA CrashedHeap ==
    ASSUME GaiHeap, gPc' \in {"crashed", "quit"}, gList' = gList, gCanon' = "strdup" => gImpl = "libgai", gImpl' = gImpl, gReq' = gReq,
           gAddrs' \in Seq(Addresses), gTodo' \in Seq(SockTypes), gDns' \in [{"INET", "INET6"} -> Nat],
           gSvc' = gSvc, gImpl # "libfree" => gSearch' \in Seq(SearchEntries)
    PROVE  GaiHeap'
<1>1. GaiTypes'
  <2>1. gPc' \in GaiPlaces
    BY DEF GaiPlaces
  <2> QED
    BY <2>1, Zenon DEF GaiHeap, GaiTypes
<1>2. HeapInv'
  BY DEF HeapInv, Building
<1> QED
  BY <1>1, <1>2 DEF GaiHeap

\* The resolver: addresses of one family, at least one.
LEMMA LookupFacts ==
    ASSUME NEW fam \in {"INET", "INET6"}, gReq.type \in SockTypes, NEW r \in Lookups(fam)
    PROVE  /\ r.err \in {"ok", "NONAME", "AGAIN", "FAIL", "NODATA"} /\ Len(r.addrs) \in Nat
           /\ r.addrs \in Seq(Addresses) /\ r.addrs = [k \in 1 .. Len(r.addrs) |-> <<fam, k, gReq.type>>]
           /\ r.err = "ok" => r.addrs # <<>>
           /\ r.err # "ok" => r.addrs = <<>>
<1> DEFINE A(n) == [k \in 1 .. n |-> <<fam, k, gReq.type>>]
<1>1. \/ \E n \in 1 .. MaxAddrs : r = [err |-> "ok", addrs |-> A(n)]
      \/ \E e \in {"NONAME", "AGAIN", "FAIL", "NODATA"} : r = [err |-> e, addrs |-> <<>>]
  BY Zenon DEF Lookups
<1>2. ASSUME NEW n \in 1 .. MaxAddrs, r = [err |-> "ok", addrs |-> A(n)]
      PROVE  /\ r.err = "ok" /\ r.addrs \in Seq(Addresses) /\ Len(r.addrs) = n /\ n \in Nat /\ r.addrs # <<>>
             /\ r.addrs = A(n)
  <2>0. n \in Nat /\ n >= 1 /\ MaxAddrs \in Nat
    BY GaiAssumption
  <2>1. \A k \in 1 .. n : <<fam, k, gReq.type>> \in Addresses
    BY <2>0 DEF Addresses
  <2>2. A(n) \in [1 .. n -> Addresses]
    BY <2>1
  <2>3. r.err = "ok" /\ r.addrs = A(n)
    BY <1>2
  <2> HIDE DEF A
  <2>4. A(n) \in Seq(Addresses) /\ Len(A(n)) = n
    BY <2>0, <2>2
  <2>5. A(n) # <<>>
    BY <2>0, <2>4
  <2> QED
    BY <2>0, <2>3, <2>4, <2>5, Zenon
<1>3. ASSUME NEW e \in {"NONAME", "AGAIN", "FAIL", "NODATA"}, r = [err |-> e, addrs |-> <<>>]
      PROVE  r.err = e /\ r.addrs = <<>>
  BY <1>3
<1>4. CASE \E n \in 1 .. MaxAddrs : r = [err |-> "ok", addrs |-> A(n)]
  <2>1. PICK n \in 1 .. MaxAddrs : r = [err |-> "ok", addrs |-> A(n)]
    BY <1>4
  <2> HIDE DEF A
  <2>2. r.err = "ok" /\ r.addrs \in Seq(Addresses) /\ Len(r.addrs) = n /\ n \in Nat /\ r.addrs # <<>> /\ r.addrs = A(n)
    BY <2>1, <1>2
  <2>3. r.addrs = A(Len(r.addrs))
    BY <2>2, Zenon
  <2> QED
    BY <2>2, <2>3, Zenon DEF A
<1>5. CASE \E e \in {"NONAME", "AGAIN", "FAIL", "NODATA"} : r = [err |-> e, addrs |-> <<>>]
  <2>1. PICK e \in {"NONAME", "AGAIN", "FAIL", "NODATA"} : r = [err |-> e, addrs |-> <<>>]
    BY <1>5
  <2>2. r.err = e /\ r.addrs = <<>> /\ e # "ok"
    BY <2>1, <1>3
  <2>3. Len(<<>>) = 0 /\ <<>> \in Seq(Addresses) /\ <<>> = [k \in 1 .. 0 |-> <<fam, k, gReq.type>>]
    OBVIOUS
  <2>4. Len(<<>>) \in Nat
    OBVIOUS
  <2> QED
    BY <2>2, <2>3, <2>4, Zenon
<1> QED
  BY <1>1, <1>4, <1>5

\* An address string gives one address.
LEMMA NumericType ==
    ASSUME NEW fam \in {"INET", "INET6", "LOCAL"}, gReq.type \in SockTypes
    PROVE  Numeric(fam) \in Seq(Addresses) /\ Numeric(fam) # <<>>
<1>1. <<fam, 0, gReq.type>> \in Addresses
  BY DEF Addresses
<1> QED
  BY <1>1 DEF Numeric

\* The fields of a request.
LEMMA ReqFacts ==
    ASSUME gReq \in Requests
    PROVE  /\ gReq.type \in SockTypes /\ gReq.fam \in {"UNSPEC", "INET", "INET6", "LOCAL", "bad"}
           /\ gReq.host \in {"none", "v4", "v6", "name", "/path"} /\ gReq.serv \in {"none", "13", "name", "/path", "/long"}
BY DEF Requests, SockTypes

\* The invariant of the heap holds at the start.
LEMMA GaiHeapInit == GaiInit => GaiHeap
<1> SUFFICES ASSUME NEW impl \in GaiImpls, GaiStart(impl) PROVE GaiHeap
  BY DEF GaiInit
<1>1. impl \in {"libgai", "libfree", "savecopy"}
  BY GaiAssumption
<1>2. GaiTypes
  <2>1. NoReq \in Requests
    BY DEF NoReq, Requests
  <2>2. NoAddrs \in [{"INET", "INET6"} -> Nat] /\ "idle" \in GaiPlaces
    BY DEF NoAddrs, GaiPlaces
  <2>3. <<>> \in Seq(Addresses) /\ <<>> \in Seq(Whole) /\ <<>> \in Seq(SockTypes) /\ <<>> \in Seq(SearchEntries)
    OBVIOUS
  <2>4. {} \subseteq {"STREAM", "DGRAM"}
    OBVIOUS
  <2> QED
    BY <1>1, <2>1, <2>2, <2>3, <2>4, Zenon DEF GaiStart, GaiTypes
<1>3. HeapInv
  <2>1. Blocks(<<>>) = 0 /\ CanonBlock = 0
    BY BlocksEmpty DEF CanonBlock, GaiStart
  <2> QED
    BY <2>1 DEF GaiStart, HeapInv, Building
<1> QED
  BY <1>2, <1>3 DEF GaiHeap

\* The caller asks.
LEMMA HeapCall == GaiHeap /\ GaiCall => GaiHeap'
<1> SUFFICES ASSUME GaiHeap, GaiCall PROVE GaiHeap'
  OBVIOUS
<1>1. GaiTypes'
  <2>1. "check" \in GaiPlaces
    BY DEF GaiPlaces
  <2> QED
    BY <2>1, Zenon DEF GaiHeap, GaiTypes, GaiCall
<1>2. HeapInv'
  <2>1. CanonBlock' = CanonBlock
    BY GaiFrame DEF GaiCall
  <2> QED
    BY <2>1 DEF GaiHeap, HeapInv, Building, GaiCall
<1> QED
  BY <1>1, <1>2 DEF GaiHeap

\* The searches of a request that has been checked.
LEMMA SearchTypes ==
    ASSUME gReq \in Requests, ga_echeck(gReq) = "ok"
    PROVE  ga_nsearch(gReq) \in Seq(SearchEntries)
<1> DEFINE fams == IF gReq.fam = "UNSPEC" THEN <<"INET6", "INET">> ELSE IF gReq.fam = "LOCAL" THEN <<>> ELSE <<gReq.fam>>
           Default(f) == IF f = "INET6" THEN "v6" ELSE IF "PASSIVE" \in gReq.flags THEN "v4" ELSE "name"
           E(f) == [fam |-> f, host |-> IF gReq.host = "none" THEN Default(f) ELSE gReq.host]
<1>1. gReq.fam \in {"UNSPEC", "INET", "INET6", "LOCAL"} /\ gReq.host \in {"none", "v4", "v6", "name", "/path"}
  BY ReqFacts DEF ga_echeck, FamilyCheck
<1>2. fams \in Seq({"INET", "INET6"})
  <2> DEFINE F == {"INET", "INET6"}
  <2>1. "INET" \in F /\ "INET6" \in F
    OBVIOUS
  <2>2. gReq.fam \in {"UNSPEC", "LOCAL"} \/ gReq.fam \in F
    BY <1>1
  <2> HIDE DEF F
  <2>3. <<"INET6", "INET">> \in Seq(F) /\ <<>> \in Seq(F) /\ (gReq.fam \in F => <<gReq.fam>> \in Seq(F))
    BY <2>1
  <2>4. fams \in Seq(F)
    BY <2>2, <2>3, Zenon
  <2> QED
    BY <2>4 DEF F
<1>3. ASSUME NEW f \in {"INET", "INET6"} PROVE E(f) \in SearchEntries
  BY <1>1 DEF SearchEntries
<1>4. ga_nsearch(gReq) = [k \in 1 .. Len(fams) |-> E(fams[k])]
  BY Zenon DEF ga_nsearch
<1> HIDE DEF fams, E
<1>5. Len(fams) \in Nat /\ \A k \in 1 .. Len(fams) : fams[k] \in {"INET", "INET6"}
  BY <1>2
<1>6. \A k \in 1 .. Len(fams) : E(fams[k]) \in SearchEntries
  BY <1>3, <1>5
<1> QED
  BY <1>4, <1>5, <1>6

\* The arguments are checked.
LEMMA HeapCheck == GaiHeap /\ CheckStep => GaiHeap'
<1> SUFFICES ASSUME GaiHeap, CheckStep PROVE GaiHeap'
  OBVIOUS
<1>1. /\ gPc = "check" /\ UNCHANGED <<gImpl, gReq, gAddrs, gTodo, gDns, gSvc, gRes>>
  BY DEF CheckStep, CheckArgs, CheckArgs_old, CheckArgs_libfree
<1>2. gList = <<>> /\ gCanon = "none" /\ gAddrs = <<>> /\ gLive = Blocks(gList) + CanonBlock /\ CanonBlock = 0
  BY <1>1 DEF GaiHeap, HeapInv, Building, CanonBlock
<1>3. gLive = Blocks(<<>>) + CanonBlock /\ gLive = 0
  BY <1>2, BlocksEmpty
<1>4. <<>> \in Seq(SearchEntries) /\ <<>> \in Seq(Whole) /\ <<>> \in Seq(Unnamed)
  OBVIOUS
<1>5. /\ gReq \in Requests /\ gAddrs' \in Seq(Addresses) /\ gTodo' \in Seq(SockTypes)
      /\ gDns' \in [{"INET", "INET6"} -> Nat] /\ gSvc' = gSvc /\ gImpl' = gImpl /\ gReq' = gReq
  BY <1>1, Zenon DEF GaiHeap, GaiTypes
<1>6. CASE NothingFound /\ \E e : Bad(e, <<>>, gLive)
  <2>1. PICK e : Bad(e, <<>>, gLive)
    BY <1>6
  <2>2. gPc' = "failed" /\ gList' = <<>> /\ gLive' = CanonBlock
    BY <1>3, <1>4, <2>1, BadFrees
  <2>3. CanonBlock' = CanonBlock /\ gSearch' = <<>> /\ gCanon' = "none"
    BY <1>2, <1>6, GaiFrame DEF NothingFound
  <2> QED
    BY <1>4, <1>5, <2>2, <2>3, FailedHeap
<1>7. CASE NothingFound /\ gPc' = "crashed" /\ UNCHANGED <<gList, gLive>>
  <2>1. gSearch' = <<>> /\ gCanon' = "none"
    BY <1>7 DEF NothingFound
  <2> QED
    BY <1>4, <1>5, <1>7, <2>1, CrashedHeap
<1>8. CASE UnixReq(gReq) /\ gPc' = "unix" /\ NothingFound /\ UNCHANGED <<gList, gLive, gRc>>
  <2>1. gSearch' = <<>> /\ gCanon' = gCanon /\ "unix" \in GaiPlaces
    BY <1>2, <1>8 DEF NothingFound, GaiPlaces
  <2>2. CanonBlock' = CanonBlock /\ UnixReq(gReq)'
    BY <1>5, <1>8, <2>1, GaiFrame
  <2>3. GaiTypes'
    BY <1>4, <1>5, <1>8, <2>1, Zenon DEF GaiHeap, GaiTypes
  <2>4. HeapInv'
    BY <1>2, <1>8, <2>1, <2>2 DEF HeapInv, Building
  <2> QED
    BY <2>3, <2>4 DEF GaiHeap
<1>9. ASSUME NEW q, BeginLookup(q), gImpl # "libfree" => q \in Seq(SearchEntries),
             gImpl = "libfree" => Tail(q) = <<>>
      PROVE  GaiHeap'
  <2>1. /\ gPc' \in {"quit", "search"} /\ gSearch' = q /\ gList' = gList /\ gLive' = gLive
        /\ gCanon' \in {"garbage", "none"}
    BY <1>9 DEF BeginLookup
  <2>2. CanonBlock' = 0
    BY <2>1 DEF CanonBlock
  <2>3. CASE gPc' = "quit"
    BY <1>5, <1>9, <2>1, <2>3, CrashedHeap
  <2>4. CASE gPc' = "search"
    <3>1. GaiTypes'
      <4>1. "search" \in GaiPlaces
        BY DEF GaiPlaces
      <4> QED
        BY <1>4, <1>5, <1>9, <2>1, <2>4, <4>1, Zenon DEF GaiHeap, GaiTypes
    <3>2. HeapInv'
      BY <1>1, <1>2, <1>4, <1>5, <1>9, <2>1, <2>2, <2>4 DEF HeapInv, Building
    <3> QED
      BY <3>1, <3>2 DEF GaiHeap
  <2> QED
    BY <2>1, <2>3, <2>4
<1>10. CASE CheckArgs
  <2>1. (ga_echeck(gReq) = "ok" => ga_nsearch(gReq) \in Seq(SearchEntries)) /\ gImpl # "libfree"
    BY <1>5, <1>10, SearchTypes DEF CheckArgs
  <2> QED
    BY <1>6, <1>8, <1>9, <1>10, <2>1, Zenon DEF CheckArgs
<1>11. CASE CheckArgs_old
  <2>1. (ga_echeck(gReq) = "ok" => ga_nsearch(gReq) \in Seq(SearchEntries)) /\ gImpl # "libfree"
    BY <1>5, <1>11, SearchTypes DEF CheckArgs_old
  <2> QED
    BY <1>6, <1>7, <1>8, <1>9, <1>11, <2>1, Zenon DEF CheckArgs_old, Wild, ga_echeck_old, ga_nsearch_old
<1>12. CASE CheckArgs_libfree
  <2>1. Tail(search_libfree(gReq)) = <<>> /\ gImpl = "libfree"
    BY <1>12 DEF search_libfree, CheckArgs_libfree
  <2> QED
    BY <1>6, <1>7, <1>8, <1>9, <1>12, <2>1, Zenon DEF CheckArgs_libfree, Wild
<1> QED
  BY <1>10, <1>11, <1>12 DEF CheckStep

-----------------------------------------------------------------------------
\* The search goes on with some addresses and perhaps with a saved name.
LEMMA FoundHeap ==
    ASSUME GaiHeap, gPc = "search", gPc' = "add", gList' = gList, gImpl' = gImpl, gReq' = gReq, gTodo' = gTodo, gSvc' = gSvc,
           gAddrs' \in Seq(Addresses), gImpl # "libgai" => gAddrs' # <<>>,
           gDns' \in [{"INET", "INET6"} -> Nat], gImpl # "libfree" => gSearch' \in Seq(SearchEntries),
           gLive' = gLive + (CanonBlock' - CanonBlock), gCanon' = "strdup" => gImpl = "libgai",
           gImpl = "libfree" => gSearch' = <<>>
    PROVE  GaiHeap'
<1>1. GaiTypes'
  <2>1. "add" \in GaiPlaces
    BY DEF GaiPlaces
  <2> QED
    BY <2>1, Zenon DEF GaiHeap, GaiTypes
<1>2. CanonBlock \in Nat /\ CanonBlock' \in Nat
  BY DEF CanonBlock
<1>3. gLive = Blocks(gList) + CanonBlock /\ gList \in Seq(Unnamed) /\ gList \in Seq(Whole)
  BY DEF GaiHeap, HeapInv, Building, GaiTypes
<1>4. Blocks(gList) \in Nat
  BY <1>3, BlocksNat
<1>5. gLive' = Blocks(gList') + CanonBlock'
  BY <1>2, <1>3, <1>4
<1>6. HeapInv'
  BY <1>3, <1>5 DEF HeapInv, Building
<1> QED
  BY <1>1, <1>6 DEF GaiHeap

\* What all the steps of the search have in common.
LEMMA HostCommon ==
    ASSUME GaiHeap, HostStep
    PROVE  /\ gPc = "search" /\ gSearch # <<>> /\ UNCHANGED <<gImpl, gReq, gTodo, gSvc>> /\ gSearch' = Tail(gSearch)
           /\ gReq \in Requests /\ gReq.type \in SockTypes /\ gTodo' \in Seq(SockTypes) /\ gAddrs \in Seq(Addresses)
           /\ gDns \in [{"INET", "INET6"} -> Nat]
           /\ gImpl # "libfree" => gSearch' \in Seq(SearchEntries) /\ Head(gSearch) \in SearchEntries
           /\ gLive = Blocks(gList) + CanonBlock /\ gList \in Seq(Whole) /\ CanonBlock \in Nat
           /\ gImpl = "libfree" => gList = <<>> /\ gSearch' = <<>>
           /\ gCanon = "strdup" => gImpl = "libgai"
<1>1. gPc = "search" /\ gSearch # <<>> /\ gSearch' = Tail(gSearch)
  BY DEF HostStep, NumericHost, LookupHost, Search_old, getaddrinfo_host
<1>2. UNCHANGED <<gImpl, gReq, gTodo, gSvc>>
  BY DEF HostStep
<1>3. gReq \in Requests /\ gReq.type \in SockTypes
  BY ReqFacts DEF GaiHeap, GaiTypes
<1>4. gTodo' \in Seq(SockTypes) /\ gAddrs \in Seq(Addresses) /\ gDns \in [{"INET", "INET6"} -> Nat] /\ gList \in Seq(Whole)
  BY <1>2 DEF GaiHeap, GaiTypes
<1>5. gImpl # "libfree" => gSearch' \in Seq(SearchEntries) /\ Head(gSearch) \in SearchEntries
  BY <1>1, HeadTailProperties DEF GaiHeap, GaiTypes
<1>6. /\ gLive = Blocks(gList) + CanonBlock /\ (gImpl = "libfree" => gList = <<>> /\ gSearch' = <<>>)
      /\ gCanon = "strdup" => gImpl = "libgai"
  BY <1>1 DEF GaiHeap, HeapInv, Building
<1> QED
  BY <1>1, <1>2, <1>3, <1>4, <1>5, <1>6, GaiFrame

\* A lookup that fails frees the list built so far.
LEMMA HostBad ==
    ASSUME GaiHeap, HostStep, NEW e, Bad(e, gList, gLive), gCanon' = gCanon, gAddrs' = gAddrs,
           gDns' \in [{"INET", "INET6"} -> Nat]
    PROVE  GaiHeap'
<1>1. gPc' = "failed" /\ gList' = <<>> /\ gLive' = CanonBlock
  BY HostCommon, BadFrees
<1>2. CanonBlock' = CanonBlock
  BY GaiFrame
<1> QED
  BY <1>1, <1>2, HostCommon, FailedHeap

\* A lookup that finds something allocates nothing.
LEMMA HostFound ==
    ASSUME GaiHeap, HostStep, gPc' = "add", gList' = gList, gLive' = gLive, CanonBlock' = CanonBlock, gCanon' = "strdup" => gImpl = "libgai",
           gAddrs' \in Seq(Addresses), gImpl # "libgai" => gAddrs' # <<>>, gDns' \in [{"INET", "INET6"} -> Nat]
    PROVE  GaiHeap'
<1>1. gLive' = gLive + (CanonBlock' - CanonBlock)
  <2>1. gLive = Blocks(gList) + CanonBlock /\ CanonBlock \in Nat /\ Blocks(gList) \in Nat
    BY HostCommon, BlocksNat
  <2> QED
    BY <2>1
<1> QED
  BY <1>1, HostCommon, FoundHeap

\* The resolver's answers are counted.
LEMMA ResolveType ==
    ASSUME gDns \in [{"INET", "INET6"} -> Nat], NEW fam, NEW r, Len(r.addrs) \in Nat, Resolve(fam, r)
    PROVE  gDns' \in [{"INET", "INET6"} -> Nat]
BY DEF Resolve

\* An address string (libgai).
LEMMA HeapNumericHost == ASSUME GaiHeap, HostStep, NumericHost PROVE GaiHeap'
<1> DEFINE s == Head(gSearch)
           f == FamOf(s.host)
<1>1. /\ gImpl = "libgai" /\ gCanon' = gCanon /\ gDns' = gDns /\ CanonBlock' = CanonBlock
      /\ f \in {"INET", "INET6", "LOCAL"}
  BY GaiFrame DEF NumericHost, FamOf
<1>2. gDns' \in [{"INET", "INET6"} -> Nat] /\ gReq.type \in SockTypes
  BY <1>1, HostCommon
<1>3. CASE Bad("ADDRFAMILY", gList, gLive) /\ gAddrs' = gAddrs
  BY <1>1, <1>2, <1>3, HostBad
<1>4. CASE gAddrs' = (IF s.fam = f THEN Numeric(f) ELSE <<>>) /\ gPc' = "add" /\ gList' = gList /\ gLive' = gLive
  <2>1. Numeric(f) \in Seq(Addresses)
    BY <1>1, <1>2, NumericType, Zenon
  <2>2. <<>> \in Seq(Addresses)
    OBVIOUS
  <2>3. gAddrs' \in Seq(Addresses)
    BY <1>4, <2>1, <2>2, Zenon
  <2> QED
    BY <1>1, <1>2, <1>4, <2>3, HostFound
<1> QED
  BY <1>3, <1>4, Zenon DEF NumericHost

\* A host name (libgai), with the name that strdup() saves.
LEMMA HeapLookupHost == ASSUME GaiHeap, HostStep, LookupHost PROVE GaiHeap'
<1> DEFINE s == Head(gSearch)
           fam == IF gDouble THEN s.fam ELSE IF gRes' THEN "INET6" ELSE "INET"
           Canon == gReq.host # "none" /\ "CANON" \in gReq.flags /\ gCanon = "none"
<1>1. gImpl = "libgai" /\ \E r \in Lookups(fam) : Resolve(fam, r)
  BY Zenon DEF LookupHost
<1>2. fam \in {"INET", "INET6"}
  <2>1. s.fam \in {"INET", "INET6"}
    BY <1>1, HostCommon DEF SearchEntries
  <2> QED
    BY <2>1
<1>3. PICK r \in Lookups(fam) :
        /\ Resolve(fam, r)
        /\ \/ \E e : Bad(e, gList, gLive) /\ gAddrs' = gAddrs /\ gCanon' = gCanon
           \/ /\ gAddrs' = r.addrs /\ gPc' = "add" /\ gList' = gList
              /\ gCanon' = (IF Canon THEN "strdup" ELSE gCanon)
              /\ gLive' = (IF Canon THEN gLive + 1 ELSE gLive)
           \/ gPc' = "add" /\ gAddrs' = <<>> /\ gCanon' = gCanon /\ gList' = gList /\ gLive' = gLive
  BY Zenon DEF LookupHost
<1>4. gReq.type \in SockTypes /\ gDns \in [{"INET", "INET6"} -> Nat]
  BY HostCommon
<1> HIDE DEF fam
<1>5. Len(r.addrs) \in Nat /\ r.addrs \in Seq(Addresses)
  BY <1>2, <1>3, <1>4, LookupFacts
<1>6. gDns' \in [{"INET", "INET6"} -> Nat]
  BY <1>3, <1>4, <1>5, ResolveType
<1>7. CASE \E e : Bad(e, gList, gLive) /\ gAddrs' = gAddrs /\ gCanon' = gCanon
  BY <1>6, <1>7, HostBad
<1>8. CASE gPc' = "add" /\ gAddrs' = <<>> /\ gCanon' = gCanon /\ gList' = gList /\ gLive' = gLive
  <2>1. CanonBlock' = CanonBlock /\ gAddrs' \in Seq(Addresses)
    BY <1>8, GaiFrame
  <2> QED
    BY <1>1, <1>6, <1>8, <2>1, HostFound
<1>9. CASE /\ gAddrs' = r.addrs /\ gPc' = "add" /\ gList' = gList
           /\ gCanon' = (IF Canon THEN "strdup" ELSE gCanon)
           /\ gLive' = (IF Canon THEN gLive + 1 ELSE gLive)
  <2>1. gLive' = gLive + (CanonBlock' - CanonBlock)
    <3>1. gLive = Blocks(gList) + CanonBlock /\ gList \in Seq(Whole)
      BY HostCommon
    <3>2. gLive \in Int
      BY <3>1, BlocksNat, GaiFrame
    <3>3. CASE Canon
      <4>1. CanonBlock = 0 /\ CanonBlock' = 1
        BY <1>9, <3>3 DEF CanonBlock
      <4> QED
        BY <1>9, <3>2, <3>3, <4>1
    <3>4. CASE ~Canon
      <4>1. CanonBlock' = CanonBlock /\ CanonBlock \in Nat
        BY <1>9, <3>4, GaiFrame, Zenon
      <4> QED
        BY <1>9, <3>2, <3>4, <4>1
    <3> QED
      BY <3>3, <3>4
  <2>2. gAddrs' \in Seq(Addresses)
    BY <1>5, <1>9
  <2> QED
    BY <1>1, <1>6, <1>9, <2>1, <2>2, HostCommon, FoundHeap
<1> QED
  BY <1>3, <1>7, <1>8, <1>9

\* The lookups of savecopy.c.
LEMMA HeapSearchOld == ASSUME GaiHeap, HostStep, Search_old PROVE GaiHeap'
<1> DEFINE s == Head(gSearch)
<1>1. gImpl = "savecopy" /\ s.fam \in {"INET", "INET6"}
  BY HostCommon DEF Search_old, SearchEntries
<1>2. gReq.type \in SockTypes /\ gDns \in [{"INET", "INET6"} -> Nat]
  BY HostCommon
<1>3. CASE /\ gAddrs' = Numeric(FamOf(s.host)) /\ gPc' = "add" /\ UNCHANGED <<gCanon, gDns, gRes, gList, gLive, gRc>>
  <2>1. FamOf(s.host) \in {"INET", "INET6", "LOCAL"}
    BY DEF FamOf
  <2>2. gAddrs' \in Seq(Addresses) /\ gAddrs' # <<>>
    BY <1>2, <1>3, <2>1, NumericType
  <2>3. CanonBlock' = CanonBlock /\ (gCanon' = "strdup" => gImpl = "libgai")
    BY <1>3, GaiFrame, HostCommon
  <2> QED
    BY <1>2, <1>3, <2>2, <2>3, HostFound
<1>4. CASE \E r \in Lookups(s.fam) :
             /\ Resolve(s.fam, r)
             /\ IF r.err = "ok" THEN gAddrs' = r.addrs /\ gPc' = "add" /\ gCanon' = "none" /\ UNCHANGED <<gList, gLive, gRc>>
                ELSE Bad(r.err, gList, gLive) /\ UNCHANGED <<gAddrs, gCanon>>
  <2>1. PICK r \in Lookups(s.fam) :
             /\ Resolve(s.fam, r)
             /\ IF r.err = "ok" THEN gAddrs' = r.addrs /\ gPc' = "add" /\ gCanon' = "none" /\ UNCHANGED <<gList, gLive, gRc>>
                ELSE Bad(r.err, gList, gLive) /\ UNCHANGED <<gAddrs, gCanon>>
    BY <1>4
  <2>2. Len(r.addrs) \in Nat /\ r.addrs \in Seq(Addresses) /\ (r.err = "ok" => r.addrs # <<>>)
    BY <1>1, <1>2, LookupFacts
  <2>3. gDns' \in [{"INET", "INET6"} -> Nat]
    BY <1>2, <2>1, <2>2, ResolveType
  <2>4. CASE r.err # "ok"
    BY <2>1, <2>3, <2>4, HostBad
  <2>5. CASE r.err = "ok"
    <3>1. CanonBlock' = CanonBlock
      BY <1>1, <2>1, <2>5, HostCommon DEF CanonBlock
    <3> QED
      BY <2>1, <2>2, <2>3, <2>5, <3>1, HostFound
  <2> QED
    BY <2>4, <2>5
<1> QED
  BY <1>3, <1>4, Zenon DEF Search_old

\* The lookup of libfree.
LEMMA HeapSearchLibfree == ASSUME GaiHeap, HostStep, getaddrinfo_host PROVE GaiHeap'
<1> DEFINE s == Head(gSearch)
           fam == IF s.host \in {"v4", "v6"} THEN FamOf(s.host) ELSE IF gRes' THEN "INET6" ELSE "INET"
           Lost(e) == Wild(e) /\ gAddrs' = gAddrs
           Gets(a) == gAddrs' = a /\ gPc' = "add" /\ gList' = gList /\ gLive' = gLive
<1>1. gImpl = "libfree" /\ gCanon' = gCanon
  BY DEF getaddrinfo_host
<1>2. CanonBlock' = CanonBlock /\ (gCanon' = "strdup" => gImpl = "libgai") /\ gReq.type \in SockTypes /\ gDns \in [{"INET", "INET6"} -> Nat]
  BY <1>1, GaiFrame, HostCommon
<1>3. fam \in {"INET", "INET6"} /\ fam \in {"INET", "INET6", "LOCAL"}
  BY DEF FamOf
<1>4. ASSUME NEW e, Lost(e), gDns' \in [{"INET", "INET6"} -> Nat] PROVE GaiHeap'
  <2>1. CASE Bad(e, <<>>, gLive)
    <3>1. gList = <<>>
      BY <1>1, HostCommon
    <3> QED
      BY <1>1, <1>4, <2>1, <3>1, HostBad
  <2>2. CASE gPc' = "crashed" /\ gList' = gList
    BY <1>1, <1>2, <1>4, <2>2, HostCommon, CrashedHeap
  <2> QED
    BY <1>4, <2>1, <2>2 DEF Wild
<1>5. ASSUME NEW a \in Seq(Addresses), a # <<>>, Gets(a), gDns' \in [{"INET", "INET6"} -> Nat] PROVE GaiHeap'
  BY <1>2, <1>5, HostFound
<1>6. CASE gDns' = gDns /\ (Lost("ADDRFAMILY") \/ Gets(Numeric(fam)))
  <2>1. Numeric(fam) \in Seq(Addresses) /\ Numeric(fam) # <<>>
    BY <1>2, <1>3, NumericType, Zenon
  <2> HIDE DEF Lost, Gets, fam
  <2> QED
    BY <1>2, <1>4, <1>5, <1>6, <2>1
<1>7. CASE \E r \in Lookups(fam) :
              Resolve(fam, r) /\ IF r.err = "ok" THEN Lost("ADDRFAMILY") \/ Gets(r.addrs) ELSE Lost(r.err)
  <2> HIDE DEF fam
  <2>1. PICK r \in Lookups(fam) :
              Resolve(fam, r) /\ IF r.err = "ok" THEN Lost("ADDRFAMILY") \/ Gets(r.addrs) ELSE Lost(r.err)
    BY <1>7
  <2>2. Len(r.addrs) \in Nat /\ r.addrs \in Seq(Addresses) /\ (r.err = "ok" => r.addrs # <<>>)
    BY <1>2, <1>3, LookupFacts
  <2>3. gDns' \in [{"INET", "INET6"} -> Nat]
    BY <1>2, <2>1, <2>2, ResolveType
  <2> HIDE DEF Lost, Gets
  <2> QED
    BY <1>4, <1>5, <2>1, <2>2, <2>3
<1> QED
  BY <1>6, <1>7, Zenon DEF getaddrinfo_host

\* One step of the search, in every version.
LEMMA HeapHost == GaiHeap /\ HostStep => GaiHeap'
BY HeapNumericHost, HeapLookupHost, HeapSearchOld, HeapSearchLibfree DEF HostStep

\* The addrinfo{} of an address.
LEMMA StructType ==
    ASSUME NEW a \in Addresses, NEW sa \in BOOLEAN
    PROVE  /\ Struct(a, sa) \in AddrInfos /\ Struct(a, TRUE) \in Unnamed
           /\ Struct(a, sa).sa = sa /\ Struct(a, sa).cn = FALSE
<1>1. a[1] \in {"INET", "INET6", "LOCAL"} /\ a[2] \in Nat /\ a[3] \in SockTypes
  BY DEF Addresses
<1>2. ASSUME NEW b \in BOOLEAN PROVE Struct(a, b) \in AddrInfos
  BY <1>1 DEF Struct, AddrInfos
<1>3. Struct(a, sa).sa = sa /\ Struct(a, sa).cn = FALSE /\ Struct(a, TRUE).sa = TRUE /\ Struct(a, TRUE).cn = FALSE
  BY DEF Struct
<1>4. Struct(a, TRUE) \in AddrInfos /\ Struct(a, sa) \in AddrInfos
  BY <1>2
<1> HIDE DEF Struct
<1>5. Struct(a, TRUE) \in Unnamed
  BY <1>3, <1>4 DEF Unnamed, Whole
<1> QED
  BY <1>3, <1>4, <1>5

\* The sets of addrinfo{} are nested.
LEMMA InfoSets == Unnamed \subseteq Whole /\ Whole \subseteq AddrInfos /\ Unnamed \subseteq AddrInfos
BY DEF Unnamed, Whole

MadeWell(o, list, a, c) ==
    /\ o.list \in Seq(AddrInfos) /\ o.live = Blocks(o.list) + c
    /\ o.rc \in {"ok", "MEMORY", "SERVICE"} /\ (o.rc = "SERVICE" => TooLong(a))
    /\ o.rc = "ok" => o.list = Append(list, Struct(a, TRUE)) /\ o.list \in Seq(Unnamed) /\ o.list # <<>>

\* ga_aistruct(): every block it allocates is in the list, also when it fails.
LEMMA MadeFacts ==
    ASSUME NEW list \in Seq(Unnamed), NEW a \in Addresses, NEW live, NEW c \in Nat, live = Blocks(list) + c,
           NEW o \in ga_aistruct(a, list, live)
    PROVE  MadeWell(o, list, a, c)
<1>1. list \in Seq(AddrInfos) /\ Blocks(list) \in Nat
  BY InfoSets, SeqGrows, BlocksNat
<1>2. /\ Struct(a, FALSE) \in AddrInfos /\ Struct(a, TRUE) \in Unnamed /\ Struct(a, TRUE) \in AddrInfos
      /\ Struct(a, FALSE).sa = FALSE /\ Struct(a, TRUE).sa = TRUE /\ Struct(a, FALSE).cn = FALSE /\ Struct(a, TRUE).cn = FALSE
  BY StructType
<1>3. \/ o = [rc |-> "MEMORY", list |-> list, live |-> live]
      \/ o = [rc |-> IF TooLong(a) THEN "SERVICE" ELSE "MEMORY", list |-> Append(list, Struct(a, FALSE)), live |-> live + 1]
      \/ o = [rc |-> "ok", list |-> Append(list, Struct(a, TRUE)), live |-> live + 2]
  BY Zenon DEF ga_aistruct
<1> DEFINE f == Struct(a, FALSE)
           t == Struct(a, TRUE)
<1> HIDE DEF f, t
<1>4. f \in AddrInfos /\ t \in Unnamed /\ t \in AddrInfos /\ f.sa = FALSE /\ t.sa = TRUE /\ f.cn = FALSE /\ t.cn = FALSE
  BY <1>2, Zenon DEF f, t
<1>5. Blocks(Append(list, f)) = Blocks(list) + 1 /\ Append(list, f) \in Seq(AddrInfos)
  <2>1. Blocks(Append(list, f)) = Blocks(list) + 1 + (IF f.sa THEN 1 ELSE 0) + (IF f.cn THEN 1 ELSE 0)
    BY <1>1, <1>4, BlocksAppend
  <2> QED
    BY <1>1, <1>4, <2>1
<1>6. Blocks(Append(list, t)) = Blocks(list) + 2 /\ Append(list, t) \in Seq(AddrInfos) /\ Append(list, t) \in Seq(Unnamed)
      /\ Append(list, t) # <<>>
  <2>1. Blocks(Append(list, t)) = Blocks(list) + 1 + (IF t.sa THEN 1 ELSE 0) + (IF t.cn THEN 1 ELSE 0)
    BY <1>1, <1>4, BlocksAppend
  <2>2. Append(list, t) # <<>>
    OBVIOUS
  <2> QED
    BY <1>1, <1>4, <2>1, <2>2
<1> DEFINE lf == Append(list, f)
           lt == Append(list, t)
           b == Blocks(list)
<1>7. /\ lf \in Seq(AddrInfos) /\ lt \in Seq(AddrInfos) /\ lt \in Seq(Unnamed) /\ lt # <<>> /\ b \in Nat
      /\ Blocks(lf) = b + 1 /\ Blocks(lt) = b + 2 /\ live = b + c
  BY <1>1, <1>5, <1>6
<1>8. \/ o = [rc |-> "MEMORY", list |-> list, live |-> live]
      \/ o = [rc |-> IF TooLong(a) THEN "SERVICE" ELSE "MEMORY", list |-> lf, live |-> live + 1]
      \/ o = [rc |-> "ok", list |-> lt, live |-> live + 2]
  BY <1>3 DEF f, t
<1> HIDE DEF lf, lt
<1>9. CASE o = [rc |-> "MEMORY", list |-> list, live |-> live]
  BY <1>1, <1>9 DEF MadeWell
<1>10. CASE o = [rc |-> IF TooLong(a) THEN "SERVICE" ELSE "MEMORY", list |-> lf, live |-> live + 1]
  <2>1. o.list = lf /\ o.live = live + 1 /\ o.rc = IF TooLong(a) THEN "SERVICE" ELSE "MEMORY"
    BY <1>10
  <2>2. live + 1 = Blocks(lf) + c
    <3> HIDE DEF b
    <3> QED
      BY <1>7
  <2>3. o.rc \in {"MEMORY", "SERVICE"} /\ (o.rc = "SERVICE" => TooLong(a))
    BY <2>1
  <2> QED
    BY <1>7, <2>1, <2>2, <2>3 DEF MadeWell
<1>11. CASE o = [rc |-> "ok", list |-> lt, live |-> live + 2]
  <2>1. o.list = lt /\ o.live = live + 2 /\ o.rc = "ok"
    BY <1>11
  <2>2. live + 2 = Blocks(lt) + c
    <3> HIDE DEF b
    <3> QED
      BY <1>7
  <2>3. lt = Append(list, Struct(a, TRUE))
    BY DEF lt, t
  <2> QED
    BY <1>7, <2>1, <2>2, <2>3 DEF MadeWell
<1> QED
  BY <1>8, <1>9, <1>10, <1>11

\* An addrinfo{} is made, or one of its allocations fails.
LEMMA HeapAddOne == GaiHeap /\ AddOne => GaiHeap'
<1> SUFFICES ASSUME GaiHeap, AddOne PROVE GaiHeap'
  OBVIOUS
<1> DEFINE a == Head(gAddrs)
           E == [Struct(<<"UNSPEC", 0, "0">>, FALSE) EXCEPT !.clone = FALSE]
<1>1. /\ gPc = "add" /\ gAddrs # <<>> /\ gAddrs' = Tail(gAddrs)
      /\ UNCHANGED <<gImpl, gReq, gSearch, gCanon, gTodo, gDns, gSvc>>
  BY DEF AddOne
<1>2. /\ gAddrs \in Seq(Addresses) /\ gList \in Seq(Unnamed) /\ gLive = Blocks(gList) + CanonBlock
      /\ (gImpl # "libfree" => gSearch \in Seq(SearchEntries)) /\ gTodo \in Seq(SockTypes) /\ gDns \in [{"INET", "INET6"} -> Nat]
      /\ (gCanon = "strdup" => gImpl = "libgai") /\ (gImpl = "libfree" => gSearch = <<>>)
  BY <1>1 DEF GaiHeap, GaiTypes, HeapInv, Building
<1>3. a \in Addresses /\ gAddrs' \in Seq(Addresses) /\ CanonBlock' = CanonBlock /\ CanonBlock \in Nat
      /\ (UnixReq(gReq)' <=> UnixReq(gReq))
  BY <1>1, <1>2, HeadTailProperties, GaiFrame
<1>4. E \in Unnamed /\ E.sa = FALSE /\ E.cn = FALSE
  BY DEF Struct, Unnamed, Whole, AddrInfos, SockTypes
<1> HIDE DEF a, E
<1>5. Append(gList, E) \in Seq(Unnamed) /\ gLive + 1 = Blocks(Append(gList, E)) + CanonBlock
  <2>1. Blocks(Append(gList, E)) = Blocks(gList) + 1 + (IF E.sa THEN 1 ELSE 0) + (IF E.cn THEN 1 ELSE 0) /\ Blocks(gList) \in Nat
    BY <1>2, <1>4, BlocksAppend, BlocksNat
  <2> DEFINE b == Blocks(gList)
             d == Blocks(Append(gList, E))
  <2>2. b \in Nat /\ d = b + 1 /\ gLive = b + CanonBlock
    BY <1>2, <1>4, <2>1
  <2> HIDE DEF b, d
  <2>3. gLive + 1 = d + CanonBlock
    BY <1>3, <2>2
  <2> QED
    BY <1>2, <1>4, <2>3 DEF d
<1>6. PICK o : 
        /\ o \in ga_aistruct(a, gList, gLive) \/ o \in ga_aistruct_old(a, gList, gLive)
        /\ IF o.rc = "ok" THEN gList' = o.list /\ gLive' = o.live /\ UNCHANGED <<gPc, gRc>>
           ELSE IF UnixReq(gReq) THEN UnixLost(o.rc, o.live) ELSE Bad(o.rc, o.list, o.live)
  BY Zenon DEF AddOne, fill_libfree, a
<1>7. \/ o = [rc |-> "MEMORY", list |-> gList, live |-> gLive]
      \/ o \in ga_aistruct(a, gList, gLive) \/ o \in ga_aistruct(a, Append(gList, E), gLive + 1)
  BY <1>6, Zenon DEF ga_aistruct_old, E
<1>8. /\ o.list \in Seq(AddrInfos) /\ o.live = Blocks(o.list) + CanonBlock
      /\ o.rc \in {"ok", "MEMORY", "SERVICE"}
      /\ o.rc = "ok" => o.list \in Seq(Unnamed) /\ o.list # <<>>
  <2>1. CASE o = [rc |-> "MEMORY", list |-> gList, live |-> gLive]
    BY <1>2, <2>1, InfoSets, SeqGrows
  <2>2. CASE o \in ga_aistruct(a, gList, gLive)
    <3>1. MadeWell(o, gList, a, CanonBlock)
      BY <1>2, <1>3, <2>2, MadeFacts
    <3> QED
      BY <3>1 DEF MadeWell
  <2>3. CASE o \in ga_aistruct(a, Append(gList, E), gLive + 1)
    <3>1. MadeWell(o, Append(gList, E), a, CanonBlock)
      BY <1>3, <1>5, <2>3, MadeFacts
    <3> QED
      BY <3>1 DEF MadeWell
  <2> QED
    BY <1>7, <2>1, <2>2, <2>3
<1>9. CASE o.rc = "ok"
  <2>1. gList' = o.list /\ gLive' = o.live /\ gPc' = "add"
    BY <1>1, <1>6, <1>9
  <2>2. gList' \in Seq(Whole) /\ gList' \in Seq(Unnamed) /\ gList' # <<>>
    BY <1>8, <1>9, <2>1, InfoSets, SeqGrows
  <2>3. GaiTypes'
    <3>1. gPc' \in GaiPlaces
      BY <2>1 DEF GaiPlaces
    <3> QED
      BY <1>1, <1>3, <2>2, <3>1, Zenon DEF GaiHeap, GaiTypes
  <2>4. HeapInv'
    BY <1>1, <1>2, <1>3, <1>8, <2>1, <2>2 DEF HeapInv, Building
  <2> QED
    BY <2>3, <2>4 DEF GaiHeap
<1>10. CASE o.rc # "ok" /\ UnixReq(gReq)
  <2>1. gPc' = "failed" /\ gList' = <<>> /\ gRc' = o.rc
    BY <1>6, <1>10 DEF UnixLost
  <2>2. LostUnix'
    BY <1>3, <1>8, <1>10, <2>1 DEF LostUnix
  <2> QED
    BY <1>1, <1>2, <1>3, <2>1, <2>2, FailedHeap
<1>11. CASE o.rc # "ok" /\ ~UnixReq(gReq)
  <2>1. Bad(o.rc, o.list, o.live)
    BY <1>6, <1>11
  <2>2. gPc' = "failed" /\ gList' = <<>> /\ gLive' = CanonBlock
    BY <1>8, <2>1, BadFrees
  <2> QED
    BY <1>1, <1>2, <1>3, <2>2, FailedHeap
<1> QED
  BY <1>9, <1>10, <1>11

\* The addresses of one search are all in the list.
LEMMA HeapAddDone == GaiHeap /\ AddDone => GaiHeap'
<1> SUFFICES ASSUME GaiHeap, AddDone PROVE GaiHeap'
  OBVIOUS
<1>1. /\ gPc = "add" /\ gAddrs = <<>> /\ gPc' \in {"search", "canon"} /\ (gPc' = "search" => gSearch # <<>>)
      /\ UNCHANGED <<gImpl, gReq, gSearch, gAddrs, gList, gCanon, gTodo, gLive, gDns, gSvc>>
  BY DEF AddDone
<1>2. CanonBlock' = CanonBlock
  BY <1>1, GaiFrame
<1>3. GaiTypes'
  <2>1. gPc' \in GaiPlaces
    BY <1>1 DEF GaiPlaces
  <2> QED
    BY <1>1, <2>1, Zenon DEF GaiHeap, GaiTypes
<1>4. HeapInv'
  BY <1>1, <1>2 DEF GaiHeap, HeapInv, Building
<1> QED
  BY <1>3, <1>4 DEF GaiHeap

\* A Unix domain socket.
LEMMA HeapUnix == GaiHeap /\ UnixStep => GaiHeap'
<1> SUFFICES ASSUME GaiHeap, UnixStep PROVE GaiHeap'
  OBVIOUS
<1>1. gPc = "unix" /\ UNCHANGED <<gImpl, gReq, gSearch, gCanon, gTodo, gDns, gSvc>>
  BY DEF UnixStep, ga_unix
<1>2. /\ gAddrs \in Seq(Addresses) /\ gList = <<>> /\ gLive = Blocks(gList) + CanonBlock
      /\ (gImpl # "libfree" => gSearch \in Seq(SearchEntries)) /\ gTodo \in Seq(SockTypes) /\ gDns \in [{"INET", "INET6"} -> Nat]
      /\ (gCanon = "strdup" => gImpl = "libgai") /\ UnixReq(gReq) /\ gReq \in Requests
  BY <1>1 DEF GaiHeap, GaiTypes, HeapInv, Building
<1>3. CanonBlock' = CanonBlock /\ CanonBlock \in Nat /\ UnixReq(gReq)' /\ gLive = CanonBlock /\ gReq.type \in SockTypes
  <2>1. Blocks(gList) = 0
    BY <1>2, BlocksEmpty
  <2> QED
    BY <1>1, <1>2, <2>1, GaiFrame, ReqFacts
<1>4. <<>> \in Seq(Addresses) /\ <<>> \in Seq(Unnamed) /\ <<>> \in Seq(Whole)
  OBVIOUS
<1>5. ASSUME gAddrs' = gAddrs, NEW e \in {"SOCKTYPE", "MEMORY", "ADDRFAMILY"}, NEW live, UnixLost(e, live) PROVE GaiHeap'
  <2>1. gPc' = "failed" /\ gList' = <<>> /\ gRc' = e
    BY <1>5 DEF UnixLost
  <2>2. LostUnix'
    BY <1>3, <1>5, <2>1 DEF LostUnix
  <2> QED
    BY <1>1, <1>2, <1>5, <2>1, <2>2, FailedHeap
<1>6. CASE ga_unix /\ gPc' = "add"
  <2>1. /\ gPc' = "add" /\ gList' = gList /\ gLive' = gLive /\ gImpl = "libgai"
        /\ gAddrs' = IF gReq.type = "0" THEN <<<<"LOCAL", 0, "STREAM">>, <<"LOCAL", 0, "DGRAM">>>> ELSE <<<<"LOCAL", 0, gReq.type>>>>
    BY <1>6 DEF ga_unix, UnixLost
  <2>2. gAddrs' \in Seq(Addresses)
    <3>1. \A t \in SockTypes : <<"LOCAL", 0, t>> \in Addresses
      BY DEF Addresses
    <3>2. "STREAM" \in SockTypes /\ "DGRAM" \in SockTypes
      BY DEF SockTypes
    <3>3. <<<<"LOCAL", 0, "STREAM">>, <<"LOCAL", 0, "DGRAM">>>> \in Seq(Addresses) /\ <<<<"LOCAL", 0, gReq.type>>>> \in Seq(Addresses)
      BY <1>3, <3>1, <3>2
    <3> QED
      BY <2>1, <3>3, Zenon
  <2>3. GaiTypes'
    <3>1. gPc' \in GaiPlaces
      BY <2>1 DEF GaiPlaces
    <3> QED
      BY <1>1, <1>2, <1>4, <2>1, <2>2, <3>1, Zenon DEF GaiHeap, GaiTypes
  <2>4. HeapInv'
    BY <1>1, <1>2, <1>3, <1>4, <2>1, <2>2 DEF HeapInv, Building
  <2> QED
    BY <2>3, <2>4 DEF GaiHeap
<1>7. CASE gAddrs' = gAddrs /\ gPc' = "returned" /\ gRc' = "nothing" /\ UNCHANGED <<gList, gLive>>
  <2>1. GaiTypes'
    <3>1. gPc' \in GaiPlaces
      BY <1>7 DEF GaiPlaces
    <3> QED
      BY <1>1, <1>2, <1>4, <1>7, <3>1, Zenon DEF GaiHeap, GaiTypes
  <2>2. HeapInv'
    BY <1>1, <1>2, <1>3, <1>7 DEF HeapInv, Building
  <2> QED
    BY <2>1, <2>2 DEF GaiHeap
<1>8. CASE /\ gAddrs' = gAddrs /\ gPc' = "returned" /\ gRc' = "ok"
           /\ gList' = <<Struct(<<"LOCAL", 0, gReq.type>>, TRUE)>> /\ gLive' = gLive + 2
  <2> DEFINE ai == Struct(<<"LOCAL", 0, gReq.type>>, TRUE)
  <2>1. <<"LOCAL", 0, gReq.type>> \in Addresses
    BY <1>3 DEF Addresses
  <2>2. ai \in Unnamed /\ ai.sa = TRUE /\ ai.cn = FALSE
    BY <2>1, StructType
  <2> HIDE DEF ai
  <2>3. Blocks(<<ai>>) = 2
    BY <2>2, BlocksOne
  <2>4. <<ai>> \in Seq(Unnamed) /\ <<ai>> \in Seq(Whole)
    BY <2>2, InfoSets
  <2>5. gList' = <<ai>> /\ gLive' = Blocks(gList') + CanonBlock'
    BY <1>3, <1>8, <2>3 DEF ai
  <2>6. GaiTypes'
    <3>1. gPc' \in GaiPlaces
      BY <1>8 DEF GaiPlaces
    <3> QED
      BY <1>1, <1>2, <1>8, <2>4, <2>5, <3>1, Zenon DEF GaiHeap, GaiTypes
  <2>7. HeapInv'
    BY <1>1, <1>2, <1>3, <1>8, <2>5 DEF HeapInv, Building
  <2> QED
    BY <2>6, <2>7 DEF GaiHeap
<1>9. CASE gAddrs' = gAddrs /\ addrinfo_local
  BY <1>5, <1>7, <1>8, <1>9, Zenon DEF addrinfo_local
<1>10. CASE ga_unix /\ gPc' # "add"
  <2>1. gAddrs' = gAddrs /\ UnixLost("ADDRFAMILY", gLive)
    BY <1>10, Zenon DEF ga_unix
  <2> QED
    BY <1>5, <2>1
<1> QED
  BY <1>6, <1>9, <1>10, Zenon DEF UnixStep, ga_unix_old

\* A name in the first element is one block more.
LEMMA NamedBlocks ==
    ASSUME NEW list \in Seq(Unnamed), list # <<>>
    PROVE  /\ [list[1] EXCEPT !.cn = TRUE] \in Whole /\ Tail(list) \in Seq(Whole)
           /\ <<[list[1] EXCEPT !.cn = TRUE]>> \o Tail(list) \in Seq(Whole)
           /\ Blocks(<<[list[1] EXCEPT !.cn = TRUE]>> \o Tail(list)) = Blocks(list) + 1
<1> DEFINE h == list[1]
           n == [h EXCEPT !.cn = TRUE]
           r == Tail(list)
<1>1. h \in Unnamed /\ r \in Seq(Unnamed) /\ list = <<h>> \o r
  <2>1. h = Head(list) /\ h \in Unnamed
    OBVIOUS
  <2> QED
    BY <2>1, HeadTailProperties
<1>2. h \in AddrInfos /\ (h.clone => h.sa) /\ h.cn = FALSE
  BY <1>1 DEF Unnamed, Whole, AddrInfos
<1>3. n \in AddrInfos /\ n.clone = h.clone /\ n.sa = h.sa /\ n.cn = TRUE
  BY <1>2 DEF AddrInfos
<1>4. n \in Whole /\ h \in Whole /\ r \in Seq(Whole)
  BY <1>1, <1>2, <1>3, InfoSets, SeqGrows DEF Whole
<1> HIDE DEF h, n, r
<1>5. <<n>> \in Seq(Whole) /\ <<h>> \in Seq(Whole)
  BY <1>4
<1>6. Blocks(<<n>> \o r) = Blocks(<<n>>) + Blocks(r) /\ Blocks(list) = Blocks(<<h>>) + Blocks(r)
  BY <1>1, <1>4, <1>5, BlocksConcat
<1>7. Blocks(<<n>>) = Blocks(<<h>>) + 1 /\ Blocks(r) \in Nat /\ Blocks(<<h>>) \in Nat
  <2>1. Blocks(<<n>>) = 1 + (IF n.sa THEN 1 ELSE 0) + (IF n.cn THEN 1 ELSE 0)
    BY BlocksOne
  <2>2. Blocks(<<h>>) = 1 + (IF h.sa THEN 1 ELSE 0) + (IF h.cn THEN 1 ELSE 0)
    BY BlocksOne
  <2>3. Blocks(r) \in Nat
    BY <1>4, BlocksNat
  <2> QED
    BY <1>2, <1>3, <2>1, <2>2, <2>3
<1>8. Blocks(<<n>> \o r) = Blocks(list) + 1
  BY <1>6, <1>7
<1>9. <<n>> \o r \in Seq(Whole)
  BY <1>4, <1>5
<1> QED
  BY <1>4, <1>8, <1>9 DEF h, n, r

\* The name goes into the first element.
LEMMA HeapCanon == GaiHeap /\ CanonName => GaiHeap'
<1> SUFFICES ASSUME GaiHeap, CanonName PROVE GaiHeap'
  OBVIOUS
<1>1. gPc = "canon" /\ UNCHANGED <<gImpl, gReq, gSearch, gAddrs, gTodo, gDns, gSvc>>
  BY DEF CanonName
<1>2. /\ gAddrs \in Seq(Addresses) /\ gList \in Seq(Unnamed) /\ gLive = Blocks(gList) + CanonBlock
      /\ (gImpl # "libfree" => gSearch \in Seq(SearchEntries)) /\ gTodo \in Seq(SockTypes) /\ gDns \in [{"INET", "INET6"} -> Nat]
      /\ (gCanon = "strdup" => gImpl = "libgai") /\ gReq \in Requests /\ gAddrs = <<>> /\ gList \in Seq(Whole)
      /\ (gImpl # "libgai" => gList # <<>>)
  BY <1>1 DEF GaiHeap, GaiTypes, HeapInv, Building
<1>3. (UnixReq(gReq)' <=> UnixReq(gReq)) /\ CanonBlock \in Nat /\ Blocks(gList) \in Nat
  BY <1>1, <1>2, GaiFrame, BlocksNat
<1>4. AfterCanon \in {"returned", "serv"} /\ AfterCanon \in GaiPlaces
  BY DEF AfterCanon, GaiPlaces
<1>5. CASE NoName
  <2>1. gPc' = AfterCanon /\ gRc' = "ok" /\ UNCHANGED <<gList, gLive, gCanon>>
    BY <1>5 DEF NoName
  <2>2. CanonBlock' = CanonBlock
    BY <2>1, GaiFrame
  <2>3. GaiTypes'
    BY <1>1, <1>4, <2>1, Zenon DEF GaiHeap, GaiTypes
  <2>4. HeapInv'
    BY <1>1, <1>2, <1>4, <2>1, <2>2 DEF HeapInv, Building
  <2> QED
    BY <2>3, <2>4 DEF GaiHeap
<1>6. ASSUME NEW live, Named(live), gList # <<>>, live = Blocks(gList) + 1 PROVE GaiHeap'
  <2>1. /\ gList' = <<[gList[1] EXCEPT !.cn = TRUE]>> \o Tail(gList) /\ gLive' = live
        /\ gPc' = AfterCanon /\ gCanon' = "none" /\ gRc' = "ok"
    BY <1>6, Zenon DEF Named
  <2>2. gList' \in Seq(Whole) /\ Blocks(gList') = Blocks(gList) + 1
    BY <1>2, <1>6, <2>1, NamedBlocks, Zenon
  <2>3. CanonBlock' = 0
    BY <2>1 DEF CanonBlock
  <2>4. gLive' = Blocks(gList') + CanonBlock'
    BY <1>3, <1>6, <2>1, <2>2, <2>3
  <2>5. GaiTypes'
    BY <1>1, <1>4, <2>1, <2>2, Zenon DEF GaiHeap, GaiTypes
  <2>6. HeapInv'
    BY <1>1, <1>2, <1>4, <2>1, <2>4 DEF HeapInv, Building
  <2> QED
    BY <2>5, <2>6 DEF GaiHeap
<1>7. ASSUME NEW e, Bad(e, gList, gLive), gCanon' = gCanon PROVE GaiHeap'
  <2>1. gPc' = "failed" /\ gList' = <<>> /\ gLive' = CanonBlock
    BY <1>2, <1>7, BadFrees
  <2>2. CanonBlock' = CanonBlock
    BY <1>7, GaiFrame
  <2> QED
    BY <1>1, <1>2, <1>7, <2>1, <2>2, FailedHeap
<1>8. CASE CanonName_libgai
  <2> DEFINE wanted == "CANON" \in gReq.flags /\ gReq.host # "none"
  <2>1. CASE gList # <<>> /\ gCanon = "strdup" /\ Named(gLive)
    <3>1. CanonBlock = 1
      BY <2>1 DEF CanonBlock
    <3> QED
      BY <1>2, <1>6, <2>1, <3>1
  <2>2. CASE gList # <<>> /\ gCanon = "none" /\ Named(gLive + 1)
    <3>1. CanonBlock = 0
      BY <2>2 DEF CanonBlock
    <3>2. gLive + 1 = Blocks(gList) + 1
      BY <1>2, <1>3, <3>1
    <3> QED
      BY <1>6, <2>2, <3>2
  <2>3. CASE UnixReq(gReq) /\ gCanon' = gCanon /\ \E e \in {"MEMORY", "SYSTEM"} : UnixLost(e, gLive)
    <3>1. gPc' = "failed" /\ gList' = <<>> /\ gRc' \in {"MEMORY", "SYSTEM"}
      BY <2>3 DEF UnixLost
    <3>2. LostUnix'
      BY <1>3, <2>3, <3>1 DEF LostUnix
    <3> QED
      BY <1>1, <1>2, <2>3, <3>1, <3>2, FailedHeap
  <2> QED
    BY <1>5, <1>7, <1>8, <2>1, <2>2, <2>3, Zenon DEF CanonName_libgai
<1>9. gImpl # "libgai" => CanonBlock = 0 /\ gList # <<>> /\ gLive + 1 = Blocks(gList) + 1
  <2>1. gImpl # "libgai" => CanonBlock = 0 /\ gList # <<>>
    BY <1>2 DEF CanonBlock
  <2> QED
    BY <1>2, <1>3, <2>1
<1>10. CASE CanonName_libfree
  <2>1. gImpl # "libgai"
    BY <1>10 DEF CanonName_libfree
  <2> QED
    BY <1>5, <1>6, <1>7, <1>9, <1>10, <2>1, Zenon DEF CanonName_libfree
<1>11. CASE CanonName_old
  <2>1. gImpl # "libgai"
    BY <1>11 DEF CanonName_old
  <2>2. CASE gPc' = "crashed" /\ UNCHANGED <<gList, gLive, gCanon>>
    BY <1>1, <1>2, <2>2, CrashedHeap
  <2> QED
    BY <1>5, <1>6, <1>7, <1>9, <1>11, <2>1, <2>2, Zenon DEF CanonName_old
<1> QED
  BY <1>8, <1>10, <1>11, Zenon DEF CanonName

\* The socket types that ga_serv() passes on.
LEMMA ByNameType ==
    ASSUME NEW svc
    PROVE  ByName(svc) \in Seq(SockTypes)
<1> DEFINE x == IF gReq.type \in {"0", "STREAM"} /\ "STREAM" \in svc THEN <<"STREAM">> ELSE <<>>
           y == IF gReq.type \in {"0", "DGRAM"} /\ "DGRAM" \in svc THEN <<"DGRAM">> ELSE <<>>
<1>1. "STREAM" \in SockTypes /\ "DGRAM" \in SockTypes
  BY DEF SockTypes
<1>2. <<"STREAM">> \in Seq(SockTypes) /\ <<"DGRAM">> \in Seq(SockTypes) /\ <<>> \in Seq(SockTypes)
  BY <1>1
<1>3. x \in Seq(SockTypes) /\ y \in Seq(SockTypes)
  BY <1>2, Zenon
<1>4. ByName(svc) = x \o y
  BY Zenon DEF ByName
<1> HIDE DEF x, y
<1> QED
  BY <1>3, <1>4

\* The socket types that ga_serv() has found.
LEMMA TodoIs == ServStep => gTodo' = ByName(gSvc') \/ gTodo' = <<gReq.type>> \/ gTodo' = <<"STREAM", "DGRAM">>
BY Zenon DEF ServStep, ga_serv, getaddrinfo_serv, ga_serv_old

\* The service is looked up.
LEMMA HeapServ == GaiHeap /\ ServStep => GaiHeap'
<1> SUFFICES ASSUME GaiHeap, ServStep PROVE GaiHeap'
  OBVIOUS
<1>1. /\ gPc = "serv" /\ gPc' = "port" /\ UNCHANGED <<gImpl, gReq, gSearch, gAddrs, gList, gCanon, gLive, gDns>>
      /\ gSvc' \in (IF gReq.serv = "name" THEN SUBSET {"STREAM", "DGRAM"} ELSE {{}})
  BY Zenon DEF ServStep
<1>2. gSvc' \subseteq {"STREAM", "DGRAM"} /\ gReq.type \in SockTypes
  BY <1>1, ReqFacts DEF GaiHeap, GaiTypes
<1>3. gTodo' \in Seq(SockTypes)
  <2>1. <<gReq.type>> \in Seq(SockTypes) /\ <<"STREAM", "DGRAM">> \in Seq(SockTypes)
    <3>1. "STREAM" \in SockTypes /\ "DGRAM" \in SockTypes
      BY DEF SockTypes
    <3> QED
      BY <1>2, <3>1
  <2> QED
    BY <2>1, ByNameType, TodoIs, Zenon
<1>4. GaiTypes'
  <2>1. "port" \in GaiPlaces
    BY DEF GaiPlaces
  <2> QED
    BY <1>1, <1>2, <1>3, <2>1, Zenon DEF GaiHeap, GaiTypes
<1>5. CanonBlock' = CanonBlock
  BY <1>1, GaiFrame
<1>6. HeapInv'
  BY <1>1, <1>5 DEF GaiHeap, HeapInv, Building
<1> QED
  BY <1>4, <1>6 DEF GaiHeap

\* One pass of ga_port(), in whichever version.
LEMMA PortPass ==
    ASSUME GaiHeap, PortStep
    PROVE  /\ gPc = "port" /\ gTodo # <<>> /\ gTodo' = Tail(gTodo) /\ Head(gTodo) \in SockTypes /\ gTodo' \in Seq(SockTypes)
           /\ UNCHANGED <<gImpl, gReq, gSearch, gDouble, gAddrs, gCanon, gDns, gSvc>>
           /\ \E o : /\ o.list \in Seq(Whole) /\ o.live = Blocks(o.list) + CanonBlock
                     /\ \/ /\ gList' = o.list /\ gLive' = o.live /\ gRc' = "ok" /\ gPc' = gPc
                           /\ o.list = PortedUpto(Len(gList), IF gReq.serv = "13" THEN "13" ELSE Head(gTodo), Head(gTodo), gList)
                        \/ Bad("MEMORY", o.list, o.live)
<1> DEFINE t == Head(gTodo)
           port == IF gReq.serv = "13" THEN "13" ELSE t
<1>1. /\ gPc = "port" /\ gTodo # <<>> /\ gTodo' = Tail(gTodo)
      /\ UNCHANGED <<gImpl, gReq, gSearch, gDouble, gAddrs, gCanon, gDns, gSvc>>
  BY DEF PortStep
<1>2. gTodo \in Seq(SockTypes) /\ gList \in Seq(Whole) /\ gLive = Blocks(gList) + CanonBlock /\ CanonBlock \in Nat
  BY <1>1, GaiFrame DEF GaiHeap, GaiTypes, HeapInv, Building
<1>3. t \in SockTypes /\ gTodo' \in Seq(SockTypes)
  BY <1>1, <1>2, HeadTailProperties
<1>4. port \in GaiPorts
  BY <1>3 DEF GaiPorts
<1>5. PICK o \in ga_port(port, t, gList, gLive) :
        IF o.rc = "ok" THEN gList' = o.list /\ gLive' = o.live /\ gRc' = "ok" /\ UNCHANGED gPc
        ELSE Bad(o.rc, o.list, o.live)
  BY Zenon DEF PortStep, getaddrinfo_port, ga_port_old
<1> HIDE DEF t, port
<1>6. /\ o.list \in Seq(Whole) /\ o.live = Blocks(o.list) + CanonBlock /\ o.rc \in {"ok", "MEMORY"}
      /\ o.rc = "ok" => o.list = PortedUpto(Len(gList), port, t, gList)
  BY <1>2, <1>3, <1>4, <1>5, PortHeap
<1>7. \/ gList' = o.list /\ gLive' = o.live /\ gRc' = "ok" /\ gPc' = gPc /\ o.list = PortedUpto(Len(gList), port, t, gList)
      \/ Bad("MEMORY", o.list, o.live)
  <2>1. CASE o.rc = "ok"
    BY <1>5, <1>6, <2>1, Zenon
  <2>2. CASE o.rc = "MEMORY"
    BY <1>5, <2>2
  <2> QED
    BY <1>6, <2>1, <2>2
<1> QED
  BY <1>1, <1>3, <1>6, <1>7, Zenon DEF t, port

\* One pass of ga_port(), or the part of one up to the allocation that fails.
LEMMA HeapPort == GaiHeap /\ PortStep => GaiHeap'
<1> SUFFICES ASSUME GaiHeap, PortStep PROVE GaiHeap'
  OBVIOUS
<1>1. /\ gPc = "port" /\ gTodo' \in Seq(SockTypes) /\ UNCHANGED <<gImpl, gReq, gSearch, gAddrs, gCanon, gDns, gSvc>>
      /\ \E o : /\ o.list \in Seq(Whole) /\ o.live = Blocks(o.list) + CanonBlock
                /\ \/ gList' = o.list /\ gLive' = o.live /\ gRc' = "ok" /\ gPc' = gPc
                   \/ Bad("MEMORY", o.list, o.live)
  BY PortPass, Zenon
<1>2. PICK o : /\ o.list \in Seq(Whole) /\ o.live = Blocks(o.list) + CanonBlock
               /\ \/ gList' = o.list /\ gLive' = o.live /\ gRc' = "ok" /\ gPc' = gPc
                  \/ Bad("MEMORY", o.list, o.live)
  BY <1>1
<1>3. CanonBlock' = CanonBlock
  BY <1>1, GaiFrame
<1>4. /\ gAddrs \in Seq(Addresses) /\ (gImpl # "libfree" => gSearch \in Seq(SearchEntries)) /\ gDns \in [{"INET", "INET6"} -> Nat]
      /\ (gCanon = "strdup" => gImpl = "libgai")
  BY DEF GaiHeap, GaiTypes, HeapInv
<1>5. CASE gList' = o.list /\ gLive' = o.live /\ gRc' = "ok" /\ gPc' = gPc
  <2>1. GaiTypes'
    BY <1>1, <1>2, <1>5, Zenon DEF GaiHeap, GaiTypes
  <2>2. HeapInv'
    BY <1>1, <1>2, <1>3, <1>4, <1>5 DEF HeapInv, Building
  <2> QED
    BY <2>1, <2>2 DEF GaiHeap
<1>6. CASE Bad("MEMORY", o.list, o.live)
  <2>1. gPc' = "failed" /\ gList' = <<>> /\ gLive' = CanonBlock
    BY <1>2, <1>6, BadFrees
  <2> QED
    BY <1>1, <1>3, <1>4, <2>1, FailedHeap
<1> QED
  BY <1>2, <1>5, <1>6

\* All the passes are made.
LEMMA HeapPortsDone == GaiHeap /\ PortsDone => GaiHeap'
<1> SUFFICES ASSUME GaiHeap, PortsDone PROVE GaiHeap'
  OBVIOUS
<1>1. gPc = "port" /\ UNCHANGED <<gImpl, gReq, gSearch, gAddrs, gCanon, gTodo, gDns, gSvc>>
  BY DEF PortsDone
<1>2. CanonBlock' = CanonBlock /\ gLive = Blocks(gList) + CanonBlock /\ gList \in Seq(Whole)
  BY <1>1, GaiFrame DEF GaiHeap, GaiTypes, HeapInv, Building
<1>3. /\ gAddrs \in Seq(Addresses) /\ (gImpl # "libfree" => gSearch \in Seq(SearchEntries)) /\ gDns \in [{"INET", "INET6"} -> Nat]
      /\ (gCanon = "strdup" => gImpl = "libgai") /\ gTodo \in Seq(SockTypes)
  BY DEF GaiHeap, GaiTypes, HeapInv
<1>4. CASE gPc' = "returned" /\ gRc = "ok" /\ UNCHANGED <<gRc, gList, gLive>>
  <2>1. GaiTypes'
    <3>1. "returned" \in GaiPlaces
      BY DEF GaiPlaces
    <3> QED
      BY <1>1, <1>4, <3>1, Zenon DEF GaiHeap, GaiTypes
  <2>2. HeapInv'
    BY <1>1, <1>2, <1>3, <1>4 DEF HeapInv, Building
  <2> QED
    BY <2>1, <2>2 DEF GaiHeap
<1>5. ASSUME NEW e, Bad(e, gList, gLive) PROVE GaiHeap'
  <2>1. gPc' = "failed" /\ gList' = <<>> /\ gLive' = CanonBlock
    BY <1>2, <1>5, BadFrees
  <2> QED
    BY <1>1, <1>2, <1>3, <2>1, FailedHeap
<1> QED
  BY <1>4, <1>5, Zenon DEF PortsDone

\* The caller frees the list.
LEMMA HeapRelease == GaiHeap /\ Release => GaiHeap'
<1> SUFFICES ASSUME GaiHeap, Release PROVE GaiHeap'
  OBVIOUS
<1>1. /\ gPc \in {"returned", "failed"} /\ gPc' = "freed" /\ gLive' = gLive - Blocks(gList) /\ gList' = <<>>
      /\ UNCHANGED <<gImpl, gReq, gSearch, gAddrs, gCanon, gTodo, gDns, gSvc, gRc>>
  BY DEF Release, freeaddrinfo
<1>2. /\ CanonBlock' = CanonBlock /\ (UnixReq(gReq)' <=> UnixReq(gReq)) /\ CanonBlock \in Nat /\ Blocks(gList) \in Nat
  BY <1>1, GaiFrame, BlocksNat DEF GaiHeap, GaiTypes
<1>3. GaiTypes'
  <2>1. "freed" \in GaiPlaces
    BY DEF GaiPlaces
  <2>2. <<>> \in Seq(Whole)
    OBVIOUS
  <2> QED
    BY <1>1, <2>1, <2>2, Zenon DEF GaiHeap, GaiTypes
<1>4. ~LostUnix' => gLive' = CanonBlock'
  <2>1. CASE gPc = "returned"
    <3>1. gLive = Blocks(gList) + CanonBlock
      BY <2>1 DEF GaiHeap, HeapInv, Building
    <3> QED
      BY <1>1, <1>2, <3>1
  <2>2. CASE gPc = "failed"
    <3>1. gList = <<>> /\ (~LostUnix => gLive = CanonBlock)
      BY <2>2 DEF GaiHeap, HeapInv
    <3>2. Blocks(gList) = 0 /\ (LostUnix' <=> LostUnix)
      BY <1>1, <1>2, <3>1, BlocksEmpty DEF LostUnix
    <3> QED
      BY <1>1, <1>2, <3>1, <3>2
  <2> QED
    BY <1>1, <2>1, <2>2
<1>5. HeapInv'
  BY <1>1, <1>4 DEF GaiHeap, HeapInv, Building
<1> QED
  BY <1>3, <1>5 DEF GaiHeap

\* The caller goes on to its next call.
LEMMA HeapNextCall == GaiHeap /\ NextCall => GaiHeap'
<1> SUFFICES ASSUME GaiHeap, NextCall PROVE GaiHeap'
  OBVIOUS
<1>1. /\ gPc = "freed" /\ gPc' = "idle" /\ gImpl' = gImpl /\ gList' = gList /\ gReq' = NoReq /\ gSearch' = <<>>
      /\ gAddrs' = <<>> /\ gCanon' = "none" /\ gTodo' = <<>> /\ gLive' = 0 /\ gDns' = NoAddrs /\ gSvc' = {}
  BY DEF NextCall
<1>2. gList = <<>> /\ CanonBlock' = 0 /\ Blocks(gList') = 0
  BY <1>1, BlocksEmpty DEF GaiHeap, HeapInv, CanonBlock
<1>3. GaiTypes'
  <2>1. NoReq \in Requests
    BY DEF NoReq, Requests
  <2>2. NoAddrs \in [{"INET", "INET6"} -> Nat] /\ "idle" \in GaiPlaces
    BY DEF NoAddrs, GaiPlaces
  <2>3. <<>> \in Seq(Addresses) /\ <<>> \in Seq(SockTypes) /\ <<>> \in Seq(SearchEntries)
    OBVIOUS
  <2>4. {} \subseteq {"STREAM", "DGRAM"}
    OBVIOUS
  <2> QED
    BY <1>1, <2>1, <2>2, <2>3, <2>4, Zenon DEF GaiHeap, GaiTypes
<1>4. HeapInv'
  BY <1>1, <1>2 DEF HeapInv, Building
<1> QED
  BY <1>3, <1>4 DEF GaiHeap

\* Every step keeps the heap's invariant.
LEMMA HeapStep == GaiHeap /\ [GaiNext]_gaiVars => GaiHeap'
<1>1. GaiHeap /\ UNCHANGED gaiVars => GaiHeap'
  BY Zenon DEF gaiVars, GaiHeap, GaiTypes, HeapInv, Building, LostUnix, UnixReq, CanonBlock
<1> QED
  BY <1>1, HeapCall, HeapCheck, HeapHost, HeapAddOne, HeapAddDone, HeapUnix, HeapCanon, HeapServ, HeapPort, HeapPortsDone,
     HeapRelease, HeapNextCall DEF GaiNext

\* So it holds in every behaviour.
LEMMA HeapIs == GaiSpec => []GaiHeap
BY GaiHeapInit, HeapStep, PTL DEF GaiSpec

\* It implies that nothing leaks.
LEMMA HeapNothingLeaks == GaiHeap => NothingLeaks
BY DEF GaiHeap, HeapInv, LostUnix, CanonBlock, NothingLeaks

-----------------------------------------------------------------------------
(* getaddrinfo(): the addresses a call must return                          *)

\* The addresses of one family: the one given, then the n of the resolver.
FromDns(f, t, n, num) == (IF num THEN <<<<f, 0, t>>>> ELSE <<>>) \o [k \in 1 .. n |-> <<f, k, t>>]
OneType(t) == {"INET", "INET6"} \X Nat \X {t}

\* No answers, no addresses.
LEMMA EmptyRange == ASSUME NEW f, NEW t PROVE [k \in 1 .. 0 |-> <<f, k, t>>] = <<>>
OBVIOUS

\* The addresses of one family by number of answers.
LEMMA FromDnsIs ==
    ASSUME NEW f \in {"INET", "INET6"}, NEW t, NEW n \in Nat, NEW num \in BOOLEAN
    PROVE  /\ FromDns(f, t, n, num) \in Seq(OneType(t))
           /\ ~num => FromDns(f, t, n, num) = [k \in 1 .. n |-> <<f, k, t>>]
           /\ n = 0 => FromDns(f, t, n, num) = IF num THEN <<<<f, 0, t>>>> ELSE <<>>
<1> DEFINE a == IF num THEN <<<<f, 0, t>>>> ELSE <<>>
           b == [k \in 1 .. n |-> <<f, k, t>>]
<1>1. <<f, 0, t>> \in OneType(t) /\ \A k \in 1 .. n : <<f, k, t>> \in OneType(t)
  BY DEF OneType
<1>2. <<<<f, 0, t>>>> \in Seq(OneType(t)) /\ <<>> \in Seq(OneType(t))
  BY <1>1
<1>3. a \in Seq(OneType(t))
  BY <1>2, Zenon
<1>4. b \in [1 .. n -> OneType(t)]
  BY <1>1
<1>5. b \in Seq(OneType(t)) /\ Len(b) = n
  BY <1>4
<1>6. FromDns(f, t, n, num) = a \o b
  BY Zenon DEF FromDns
<1>7. n = 0 => b = <<>>
  BY <1>5
<1>8. ~num => a = <<>>
  BY Zenon
<1> HIDE DEF a, b
<1>9. a \o b \in Seq(OneType(t)) /\ (a = <<>> => a \o b = b) /\ (b = <<>> => a \o b = a)
  BY <1>3, <1>5
<1> QED
  BY <1>6, <1>7, <1>8, <1>9, Zenon DEF a, b

\* They are the ones a call must return.
LEMMA AddrsIs ==
    ASSUME NEW f
    PROVE  /\ AddrsOf(f) = FromDns(f, gReq.type, gDns[f], f \in NumericFams)
           /\ AddrsOf(f)' = FromDns(f, gReq'.type, gDns'[f], f \in NumericFams')
BY Zenon DEF AddrsOf, FromDns

\* What a call must return depends on the request and the answers alone.
LEMMA AddrsFrame ==
    ASSUME gReq' = gReq, gImpl' = gImpl
    PROVE  /\ NumericFams' = NumericFams
           /\ \A f : gDns'[f] = gDns[f] => AddrsOf(f)' = AddrsOf(f)
           /\ gDns' = gDns => AllAddrs' = AllAddrs
           /\ Searches' = Searches /\ CheckOf' = CheckOf /\ (Ordinary' <=> Ordinary) /\ (UnixReq(gReq)' <=> UnixReq(gReq))
<1>1. NumericFams' = NumericFams
  BY DEF NumericFams
<1>2. \A f : gDns'[f] = gDns[f] => AddrsOf(f)' = AddrsOf(f)
  BY <1>1, AddrsIs, Zenon
<1>3. gDns' = gDns => AllAddrs' = AllAddrs
  <2>1. gDns' = gDns => AddrsOf("INET6")' = AddrsOf("INET6") /\ AddrsOf("INET")' = AddrsOf("INET")
    BY <1>2, Zenon
  <2>2. AllAddrs' = (AddrsOf("INET6")' \o AddrsOf("INET")') /\ AllAddrs = AddrsOf("INET6") \o AddrsOf("INET")
    BY DEF AllAddrs
  <2> QED
    BY <2>1, <2>2, Zenon
<1>4. UnixReq(gReq)' <=> UnixReq(gReq)
  BY GaiFrame
<1>5. Searches' = Searches /\ CheckOf' = CheckOf /\ (Ordinary' <=> Ordinary)
  BY <1>4, Zenon DEF Searches, CheckOf, Ordinary
<1> QED
  BY <1>1, <1>2, <1>3, <1>4, <1>5

\* The addresses a call must return, by type.
LEMMA AddrsType ==
    ASSUME gDns \in [{"INET", "INET6"} -> Nat]
    PROVE  /\ \A f \in {"INET", "INET6"} : AddrsOf(f) \in Seq(OneType(gReq.type))
           /\ AllAddrs \in Seq(OneType(gReq.type))
<1>1. ASSUME NEW f \in {"INET", "INET6"} PROVE AddrsOf(f) \in Seq(OneType(gReq.type))
  <2>1. gDns[f] \in Nat
    OBVIOUS
  <2>2. FromDns(f, gReq.type, gDns[f], f \in NumericFams) \in Seq(OneType(gReq.type))
    <3>1. (f \in NumericFams) \in BOOLEAN
      OBVIOUS
    <3> QED
      BY <2>1, <3>1, FromDnsIs, Zenon
  <2> QED
    BY <2>2, AddrsIs, Zenon
<1>2. AddrsOf("INET6") \in Seq(OneType(gReq.type)) /\ AddrsOf("INET") \in Seq(OneType(gReq.type))
  BY <1>1
<1> DEFINE x == AddrsOf("INET6")
           y == AddrsOf("INET")
           T == OneType(gReq.type)
<1>3. AllAddrs = x \o y /\ x \in Seq(T) /\ y \in Seq(T)
  BY <1>2 DEF AllAddrs
<1> HIDE DEF x, y, T
<1>4. AllAddrs \in Seq(T)
  BY <1>3
<1> QED
  BY <1>1, <1>4 DEF T

\* The search of one family, in libgai.
SearchOf(f) ==
    [fam |-> f, host |-> IF gReq.host # "none" THEN gReq.host
                         ELSE IF f = "INET6" THEN "v6" ELSE IF "PASSIVE" \in gReq.flags THEN "v4" ELSE "name"]

\* libgai searches IPv6 and then IPv4, or the family of the request.
LEMMA SearchesAre ==
    ASSUME gReq \in Requests
    PROVE  /\ gReq.fam = "UNSPEC" => ga_nsearch(gReq) = <<SearchOf("INET6"), SearchOf("INET")>>
           /\ gReq.fam \in {"INET", "INET6"} => ga_nsearch(gReq) = <<SearchOf(gReq.fam)>>
           /\ gReq.fam = "LOCAL" => ga_nsearch(gReq) = <<>>
<1> DEFINE fams == IF gReq.fam = "UNSPEC" THEN <<"INET6", "INET">> ELSE IF gReq.fam = "LOCAL" THEN <<>> ELSE <<gReq.fam>>
           Default(f) == IF f = "INET6" THEN "v6" ELSE IF "PASSIVE" \in gReq.flags THEN "v4" ELSE "name"
           E(f) == [fam |-> f, host |-> IF gReq.host = "none" THEN Default(f) ELSE gReq.host]
<1>1. ga_nsearch(gReq) = [k \in 1 .. Len(fams) |-> E(fams[k])]
  BY Zenon DEF ga_nsearch
<1>2. \A f : E(f) = SearchOf(f)
  BY DEF SearchOf
<1> HIDE DEF E
<1>3. CASE gReq.fam = "UNSPEC"
  <2>1. fams = <<"INET6", "INET">>
    BY <1>3
  <2> HIDE DEF fams
  <2>2. ga_nsearch(gReq) = <<E("INET6"), E("INET")>>
    BY <1>1, <2>1
  <2> QED
    BY <1>2, <1>3, <2>2
<1>4. CASE gReq.fam = "LOCAL"
  <2>1. fams = <<>>
    BY <1>4
  <2> HIDE DEF fams
  <2>2. ga_nsearch(gReq) = <<>>
    BY <1>1, <2>1
  <2> QED
    BY <1>4, <2>2
<1>5. CASE gReq.fam \in {"INET", "INET6"}
  <2>1. fams = <<gReq.fam>>
    BY <1>5
  <2> HIDE DEF fams
  <2>2. ga_nsearch(gReq) = <<E(gReq.fam)>>
    BY <1>1, <2>1
  <2> QED
    BY <1>2, <1>5, <2>2
<1> QED
  BY <1>3, <1>4, <1>5

\* An address is expected in the families whose search is for an address.
LEMMA NumericSearch ==
    ASSUME gImpl = "libgai", NEW f \in {"INET", "INET6"}, gReq.fam \in {"UNSPEC", f}
    PROVE  f \in NumericFams <=> SearchOf(f).host \in {"v4", "v6"} /\ FamOf(SearchOf(f).host) = f
<1>1. SearchOf(f).host = IF gReq.host # "none" THEN gReq.host
                         ELSE IF f = "INET6" THEN "v6" ELSE IF "PASSIVE" \in gReq.flags THEN "v4" ELSE "name"
  BY DEF SearchOf
<1>2. CASE gReq.host # "none"
  BY <1>1, <1>2 DEF NumericFams, FamOf
<1>3. CASE gReq.host = "none"
  BY <1>1, <1>3 DEF NumericFams, FamOf
<1> QED
  BY <1>2, <1>3

\* A search of one family finds no address string of the other.
LEMMA NumericSearchOther ==
    ASSUME gImpl = "libgai", NEW f \in {"INET", "INET6"}, gReq.fam = f, NEW g \in {"INET", "INET6"}, g # f,
           SearchOf(f).host \in {"v4", "v6"} => FamOf(SearchOf(f).host) = f
    PROVE  g \notin NumericFams
<1>1. SearchOf(f).host = IF gReq.host # "none" THEN gReq.host
                         ELSE IF f = "INET6" THEN "v6" ELSE IF "PASSIVE" \in gReq.flags THEN "v4" ELSE "name"
  BY DEF SearchOf
<1>2. CASE gReq.host # "none"
  BY <1>1, <1>2 DEF NumericFams, FamOf
<1>3. CASE gReq.host = "none"
  BY <1>1, <1>3 DEF NumericFams, FamOf
<1> QED
  BY <1>2, <1>3

\* The addresses of one family after the answer of the resolver.
LEMMA AddrsNext ==
    ASSUME NEW f \in {"INET", "INET6"}, gReq' = gReq, gImpl' = gImpl, gDns'[f] \in Nat
    PROVE  /\ f \notin NumericFams => AddrsOf(f)' = [k \in 1 .. gDns'[f] |-> <<f, k, gReq.type>>]
           /\ f \in NumericFams /\ gDns'[f] = 0 => AddrsOf(f)' = Numeric(f)
           /\ f \notin NumericFams /\ gDns'[f] = 0 => AddrsOf(f)' = <<>>
<1> DEFINE n == gDns'[f]
<1>1. AddrsOf(f)' = FromDns(f, gReq.type, n, f \in NumericFams)
  BY AddrsIs, AddrsFrame
<1>2. n \in Nat
  OBVIOUS
<1> HIDE DEF n
<1>3. CASE f \in NumericFams
  <2>1. (f \in NumericFams) = TRUE
    BY <1>3
  <2>2. AddrsOf(f)' = FromDns(f, gReq.type, n, TRUE)
    BY <1>1, <2>1
  <2>3. n = 0 => FromDns(f, gReq.type, n, TRUE) = <<<<f, 0, gReq.type>>>>
    BY <1>2, FromDnsIs
  <2> QED
    BY <1>3, <2>2, <2>3 DEF Numeric, n
<1>4. CASE f \notin NumericFams
  <2>1. (f \in NumericFams) = FALSE
    BY <1>4
  <2>2. AddrsOf(f)' = FromDns(f, gReq.type, n, FALSE)
    BY <1>1, <2>1
  <2>3. FromDns(f, gReq.type, n, FALSE) = [k \in 1 .. n |-> <<f, k, gReq.type>>]
    BY <1>2, FromDnsIs
  <2>4. n = 0 => FromDns(f, gReq.type, n, FALSE) = <<>>
    BY <1>2, FromDnsIs
  <2> QED
    BY <1>4, <2>2, <2>3, <2>4, Zenon DEF n
<1> QED
  BY <1>3, <1>4

\* What a search of libgai gives: the addresses expected of its family, or an error.
SearchGives(f) ==
    /\ gPc' \in {"add", "failed"}
    /\ gPc' = "add" => /\ gAddrs' = AddrsOf(f)' /\ gRc' = gRc /\ gList' = gList
                       /\ \A g \in {"INET", "INET6"} : g # f => gDns'[g] = gDns[g]
                       /\ gReq.fam = f /\ SearchOf(f).host \in {"v4", "v6"} => FamOf(SearchOf(f).host) = f
    /\ gPc' = "failed" => /\ gRc' \in {"MEMORY", "NONAME", "ADDRFAMILY", "AGAIN", "FAIL", "NODATA"}
                          /\ gRc' \in {"AGAIN", "FAIL", "NODATA"} => gReq.fam # "UNSPEC"
                          /\ gRc' = "ADDRFAMILY" => gReq.host \in {"v4", "v6"}

\* The search of an address string finds what it must.
LEMMA SearchNumeric ==
    ASSUME GaiHeap, HostStep, NumericHost, NEW f \in {"INET", "INET6"}, Head(gSearch) = SearchOf(f),
           gReq.fam \in {"UNSPEC", f}, gDns[f] = 0
    PROVE  SearchGives(f)
<1> DEFINE h == SearchOf(f).host
           g == FamOf(h)
<1>1. /\ gImpl = "libgai" /\ h \in {"v4", "v6"} /\ gDns' = gDns /\ SearchOf(f).fam = f
      /\ IF gReq.fam \notin {"UNSPEC", g} THEN Bad("ADDRFAMILY", gList, gLive)
         ELSE gAddrs' = (IF SearchOf(f).fam = g THEN Numeric(g) ELSE <<>>) /\ gPc' = "add" /\ UNCHANGED <<gList, gLive, gRc>>
  <2>1. SearchOf(f).fam = f
    BY DEF SearchOf
  <2>2. gImpl = "libgai" /\ h \in {"v4", "v6"} /\ gDns' = gDns
    BY DEF NumericHost
  <2> QED
    BY <2>1, <2>2, Zenon DEF NumericHost
<1>2. gReq' = gReq /\ gImpl' = gImpl
  BY HostCommon
<1>3. f \in NumericFams <=> g = f
  BY <1>1, NumericSearch
<1>4. CASE gReq.fam \notin {"UNSPEC", g}
  <2>1. gPc' = "failed" /\ gRc' = "ADDRFAMILY"
    BY <1>1, <1>4 DEF Bad
  <2>2. gReq.host \in {"v4", "v6"}
    BY <1>1, <1>4 DEF SearchOf, FamOf
  <2> QED
    BY <2>1, <2>2 DEF SearchGives
<1>5. CASE gReq.fam \in {"UNSPEC", g}
  <2>1. gPc' = "add" /\ gRc' = gRc /\ gList' = gList /\ gAddrs' = IF f = g THEN Numeric(g) ELSE <<>>
    BY <1>1, <1>5, Zenon
  <2>2. (f \in NumericFams => AddrsOf(f)' = Numeric(f)) /\ (f \notin NumericFams => AddrsOf(f)' = <<>>)
    BY <1>1, <1>2, AddrsNext
  <2>3. gAddrs' = AddrsOf(f)'
    BY <1>3, <2>1, <2>2, Zenon
  <2>4. gReq.fam = f => g = f
    BY <1>5
  <2> QED
    BY <1>1, <2>1, <2>3, <2>4 DEF SearchGives
<1> QED
  BY <1>4, <1>5

\* The search of a host name finds what it must: the resolver's option is set as the
\* search needs it.
LEMMA SearchLookup ==
    ASSUME GaiHeap, HostStep, LookupHost, NEW f \in {"INET", "INET6"}, Head(gSearch) = SearchOf(f),
           gReq.fam \in {"UNSPEC", f}, gDouble = (gReq.fam = "UNSPEC")
    PROVE  SearchGives(f)
<1> DEFINE s == Head(gSearch)
           fam == IF gDouble THEN s.fam ELSE IF gRes' THEN "INET6" ELSE "INET"
<1>1. /\ gImpl = "libgai" /\ s.host \in {"name", "/path"} /\ gRes' = (~gDouble /\ s.fam = "INET6")
  BY DEF LookupHost, UseInet6
<1>2. s.fam = f /\ s.host = SearchOf(f).host
  BY DEF SearchOf
<1>3. fam = f
  BY <1>1, <1>2
<1>4. \E r \in Lookups(fam) :
        /\ Resolve(fam, r)
        /\ \/ Bad("MEMORY", gList, gLive)
           \/ gReq.fam \notin {"UNSPEC", fam} /\ Bad("ADDRFAMILY", gList, gLive)
           \/ r.err = "ok" /\ gAddrs' = r.addrs /\ gPc' = "add" /\ gList' = gList /\ gRc' = gRc
           \/ r.err # "ok" /\ gPc' = "add" /\ gAddrs' = <<>> /\ gList' = gList /\ gRc' = gRc
           \/ r.err # "ok" /\ ~gDouble /\ Bad(r.err, gList, gLive)
  BY Zenon DEF LookupHost
<1>5. PICK r \in Lookups(f) :
        /\ Resolve(f, r)
        /\ \/ Bad("MEMORY", gList, gLive)
           \/ gReq.fam \notin {"UNSPEC", f} /\ Bad("ADDRFAMILY", gList, gLive)
           \/ r.err = "ok" /\ gAddrs' = r.addrs /\ gPc' = "add" /\ gList' = gList /\ gRc' = gRc
           \/ r.err # "ok" /\ gPc' = "add" /\ gAddrs' = <<>> /\ gList' = gList /\ gRc' = gRc
           \/ r.err # "ok" /\ ~gDouble /\ Bad(r.err, gList, gLive)
  <2> HIDE DEF fam
  <2> QED
    BY <1>3, <1>4
<1> HIDE DEF fam, s
<1>6. gReq' = gReq /\ gImpl' = gImpl /\ gReq.type \in SockTypes /\ gDns \in [{"INET", "INET6"} -> Nat]
  BY HostCommon
<1>7. /\ r.err \in {"ok", "NONAME", "AGAIN", "FAIL", "NODATA"} /\ Len(r.addrs) \in Nat
      /\ r.addrs = [k \in 1 .. Len(r.addrs) |-> <<f, k, gReq.type>>]
      /\ r.err # "ok" => r.addrs = <<>>
  BY <1>5, <1>6, LookupFacts
<1>8. gDns'[f] = Len(r.addrs) /\ \A g \in {"INET", "INET6"} : g # f => gDns'[g] = gDns[g]
  BY <1>5, <1>6 DEF Resolve
<1>9. f \notin NumericFams
  BY <1>1, <1>2, NumericSearch
<1>10. AddrsOf(f)' = r.addrs
  <2>1. AddrsOf(f)' = [k \in 1 .. gDns'[f] |-> <<f, k, gReq.type>>]
    BY <1>6, <1>7, <1>8, <1>9, AddrsNext
  <2> QED
    BY <1>7, <1>8, <2>1, Zenon
<1>11. CASE gPc' = "add"
  <2>1. gAddrs' = AddrsOf(f)' /\ gList' = gList /\ gRc' = gRc
    BY <1>5, <1>7, <1>10, <1>11 DEF Bad
  <2>2. SearchOf(f).host \notin {"v4", "v6"}
    BY <1>1, <1>2
  <2> QED
    BY <1>8, <1>11, <2>1, <2>2 DEF SearchGives
<1>12. CASE gPc' # "add"
  <2>0. ~gDouble => gReq.fam # "UNSPEC"
    OBVIOUS
  <2>1. gPc' = "failed" /\ (gRc' = "MEMORY" \/ (gReq.fam # "UNSPEC" /\ gRc' \in {"NONAME", "AGAIN", "FAIL", "NODATA"}))
    BY <1>5, <1>7, <1>12, <2>0 DEF Bad
  <2> QED
    BY <2>1 DEF SearchGives
<1> QED
  BY <1>11, <1>12

\* Every search of libgai finds what it must.
LEMMA SearchLibgai ==
    ASSUME GaiHeap, HostStep, gImpl = "libgai", NEW f \in {"INET", "INET6"}, Head(gSearch) = SearchOf(f),
           gReq.fam \in {"UNSPEC", f}, gDouble = (gReq.fam = "UNSPEC"), gDns[f] = 0
    PROVE  SearchGives(f)
<1>1. NumericHost \/ LookupHost
  BY DEF HostStep, Search_old, getaddrinfo_host
<1> QED
  BY <1>1, SearchNumeric, SearchLookup

\* Only one family is expected.
LEMMA OneFamily ==
    ASSUME NEW f \in {"INET", "INET6"}, NEW g \in {"INET", "INET6"}, g # f, gReq' = gReq, gImpl' = gImpl,
           gDns'[g] = 0, g \notin NumericFams, NEW S, AddrsOf(f)' \in Seq(S)
    PROVE  AllAddrs' = AddrsOf(f)'
<1>1. AddrsOf(g)' = <<>>
  BY AddrsNext
<1>2. AllAddrs' = (AddrsOf("INET6")' \o AddrsOf("INET")')
  BY DEF AllAddrs
<1> DEFINE x == AddrsOf(f)'
<1>3. x \in Seq(S)
  OBVIOUS
<1>4. AllAddrs' = x \o <<>> \/ AllAddrs' = <<>> \o x
  <2>1. (f = "INET6" /\ g = "INET") \/ (f = "INET" /\ g = "INET6")
    OBVIOUS
  <2> QED
    BY <1>1, <1>2, <2>1
<1> HIDE DEF x
<1>5. x \o <<>> = x /\ <<>> \o x = x
  BY <1>3
<1>6. AllAddrs' = x
  BY <1>4, <1>5, Zenon
<1> QED
  BY <1>6 DEF x

\* The one search of libfree.
LEMMA SearchLibfree ==
    ASSUME GaiHeap, HostStep, gImpl = "libfree", gSearch = search_libfree(gReq), echeck_libfree(gReq) = "ok",
           gDns = NoAddrs, gPc' = "add"
    PROVE  gAddrs' = AllAddrs' /\ gList' = gList
<1> DEFINE host == IF gReq.host # "none" THEN gReq.host
                   ELSE IF "PASSIVE" \notin gReq.flags THEN "name"
                   ELSE IF gReq.fam = "INET6" THEN "v6" ELSE "v4"
           sfam == IF gReq.fam # "UNSPEC" THEN gReq.fam
                   ELSE IF gReq.host = "v4" THEN "INET" ELSE IF gReq.host = "v6" THEN "INET6" ELSE "UNSPEC"
           fam == IF host \in {"v4", "v6"} THEN FamOf(host) ELSE IF gRes' THEN "INET6" ELSE "INET"
<1>1. Head(gSearch).host = host /\ Head(gSearch).fam = sfam
  BY DEF search_libfree
<1>2. /\ gReq' = gReq /\ gImpl' = gImpl /\ gReq.type \in SockTypes /\ gDns \in [{"INET", "INET6"} -> Nat]
      /\ getaddrinfo_host /\ gReq \in Requests
  BY HostCommon DEF HostStep, NumericHost, LookupHost, Search_old
<1>3. PICK f \in {"INET", "INET6"} : f = fam
  BY DEF FamOf
<1>4. /\ sfam \in {"UNSPEC", fam} /\ gList' = gList
      /\ \/ host \in {"v4", "v6"} /\ gDns' = gDns /\ gAddrs' = Numeric(fam)
         \/ host \notin {"v4", "v6"} /\ \E r \in Lookups(fam) : Resolve(fam, r) /\ gAddrs' = r.addrs
  <2>1. \A e : ~Wild(e)
    BY DEF Wild, Bad
  <2> HIDE DEF sfam, host
  <2>2. getaddrinfo_host
    BY <1>2
  <2> QED
    BY <1>1, <2>1, <2>2, Zenon DEF getaddrinfo_host
<1>5. NumericFams = IF host \in {"v4", "v6"} THEN {f} ELSE {}
  <2>1. gReq.host \in {"none", "v4", "v6", "name", "/path"}
    BY <1>2, ReqFacts
  <2>2. CASE gReq.host # "none"
    BY <1>3, <2>1, <2>2 DEF NumericFams, FamOf
  <2>3. CASE gReq.host = "none" /\ "PASSIVE" \notin gReq.flags
    BY <2>3 DEF NumericFams
  <2>4. CASE gReq.host = "none" /\ "PASSIVE" \in gReq.flags
    <3>1. gReq.fam # "UNSPEC"
      <4>1. gReq.fam = "UNSPEC" => FamilyCheck(gReq) = "ok"
        BY DEF FamilyCheck
      <4> QED
        BY <2>4, <4>1 DEF echeck_libfree
    <3>2. gReq.fam = f
      BY <1>3, <1>4, <3>1
    <3>3. host \in {"v4", "v6"} /\ NumericFams = {gReq.fam}
      BY <2>4, <3>1 DEF NumericFams
    <3> QED
      BY <3>2, <3>3
  <2> QED
    BY <2>2, <2>3, <2>4
<1> HIDE DEF host, sfam, fam
<1>6. PICK g \in {"INET", "INET6"} : g # f
  OBVIOUS
<1>7. gDns[f] = 0 /\ gDns[g] = 0 /\ g \notin NumericFams
  BY <1>5, <1>6 DEF NoAddrs
<1>8. AddrsOf(f)' = gAddrs' /\ gDns'[g] = 0
  <2>1. CASE host \in {"v4", "v6"} /\ gDns' = gDns /\ gAddrs' = Numeric(fam)
    <3>1. f \in NumericFams
      BY <1>5, <2>1
    <3> QED
      BY <1>2, <1>3, <1>7, <2>1, <3>1, AddrsNext
  <2>2. CASE host \notin {"v4", "v6"} /\ \E r \in Lookups(fam) : Resolve(fam, r) /\ gAddrs' = r.addrs
    <3>1. PICK r \in Lookups(f) : Resolve(f, r) /\ gAddrs' = r.addrs
      BY <1>3, <2>2
    <3>2. Len(r.addrs) \in Nat /\ r.addrs = [k \in 1 .. Len(r.addrs) |-> <<f, k, gReq.type>>]
      BY <1>2, LookupFacts
    <3>3. gDns'[f] = Len(r.addrs) /\ gDns'[g] = 0
      BY <1>2, <1>6, <1>7, <3>1 DEF Resolve
    <3>4. f \notin NumericFams
      BY <1>5, <2>2
    <3>5. AddrsOf(f)' = [k \in 1 .. gDns'[f] |-> <<f, k, gReq.type>>]
      BY <1>2, <3>2, <3>3, <3>4, AddrsNext
    <3> QED
      BY <3>1, <3>2, <3>3, <3>5, Zenon
  <2> QED
    BY <1>4, <2>1, <2>2
<1>9. gAddrs' \in Seq(Addresses)
  BY HeapHost DEF GaiHeap, GaiTypes
<1> QED
  BY <1>2, <1>4, <1>6, <1>7, <1>8, <1>9, OneFamily

-----------------------------------------------------------------------------
(* getaddrinfo(): the list while it is built                                *)

GaiList == SearchInv /\ PortInv /\ PlaceInv /\ CodeInv

\* Where there is no list yet, or no longer, nothing is said of it.
LEMMA NoList ==
    ASSUME gPc' \in {"idle", "check", "unix", "failed", "freed", "quit", "crashed"}
    PROVE  SearchInv' /\ PortInv'
BY DEF SearchInv, PortInv

\* The empty list is made of no addresses.
LEMMA MadeOfNone == MadeOf(<<>>)' <=> gList' = <<>>
<1>1. [k \in 1 .. Len(<<>>) |-> Struct(<<>>[k], TRUE)] = <<>>
  OBVIOUS
<1> QED
  BY <1>1, Zenon DEF MadeOf

\* The invariant of the list holds at the start.
LEMMA ListStarts == GaiInit => GaiList
<1> SUFFICES ASSUME NEW impl \in GaiImpls, GaiStart(impl) PROVE GaiList
  BY DEF GaiInit
<1>1. gPc = "idle" /\ gRc = "none" /\ gDns = NoAddrs /\ gSvc = {}
  BY DEF GaiStart
<1>2. SearchInv /\ PortInv
  BY <1>1 DEF SearchInv, PortInv
<1>3. PlaceInv /\ CodeInv
  BY <1>1 DEF PlaceInv, CodeInv
<1> QED
  BY <1>2, <1>3 DEF GaiList

\* The caller asks.
LEMMA ListCall == GaiList /\ GaiCall => GaiList'
<1> SUFFICES ASSUME GaiList, GaiCall PROVE GaiList'
  OBVIOUS
<1>1. gPc = "idle" /\ gPc' = "check" /\ UNCHANGED <<gRc, gDns, gSvc>>
  BY DEF GaiCall
<1>2. gRc = "none" /\ gDns = NoAddrs /\ gSvc = {}
  BY <1>1 DEF GaiList, PlaceInv
<1>3. NoAddrs' = NoAddrs
  BY DEF NoAddrs
<1>4. PlaceInv' /\ CodeInv'
  BY <1>1, <1>2, <1>3 DEF PlaceInv, CodeInv
<1> QED
  BY <1>1, <1>4, NoList DEF GaiList

\* The call has failed, or has ended in another way.
LEMMA ListEnds ==
    ASSUME GaiList, gPc' \in {"failed", "crashed", "quit"}, gReq' = gReq, gImpl' = gImpl, gSvc' = gSvc,
           gImpl = "libgai" =>
              /\ gRc' = "ADDRFAMILY" => gReq.host \in {"v4", "v6", "/path"}
              /\ gPc' = "failed" /\ ga_echeck(gReq) # "ok" => gRc' = ga_echeck(gReq)
              /\ gPc' = "failed" /\ ga_echeck(gReq) = "ok" =>
                   /\ gRc' \in {"MEMORY", "NONAME", "SERVICE", "ADDRFAMILY", "AGAIN", "FAIL", "NODATA", "SYSTEM"}
                   /\ gRc' \in {"AGAIN", "FAIL", "NODATA"} => gReq.fam # "UNSPEC"
                   /\ gRc' = "SYSTEM" => UnixReq(gReq)
                   /\ gRc' = "SERVICE" => gReq.type # "0" \/ gReq.serv = "/long"
                   /\ gSvc # {} => gRc' = "MEMORY" \/ (gReq.type # "0" /\ gRc' = "SERVICE")
    PROVE  GaiList'
<1>1. PlaceInv'
  BY DEF GaiList, PlaceInv
<1>2. CodeInv'
  <2>1. ga_echeck(gReq)' = ga_echeck(gReq)
    BY DEF ga_echeck, FamilyCheck
  <2>2. UnixReq(gReq)' <=> UnixReq(gReq)
    BY GaiFrame
  <2> QED
    BY <2>1, <2>2 DEF CodeInv
<1> QED
  BY <1>1, <1>2, NoList DEF GaiList

\* The arguments are checked.
LEMMA ListCheck == GaiHeap /\ GaiList /\ CheckStep => GaiList'
<1> SUFFICES ASSUME GaiHeap, GaiList, CheckStep PROVE GaiList'
  OBVIOUS
<1>1. /\ gPc = "check" /\ UNCHANGED <<gImpl, gReq, gAddrs, gDns, gSvc>> /\ gImpl \in {"libgai", "libfree", "savecopy"}
      /\ gReq \in Requests
  BY DEF CheckStep, CheckArgs, CheckArgs_old, CheckArgs_libfree, GaiHeap, GaiTypes
<1>2. gList = <<>> /\ gAddrs = <<>> /\ gRc = "none" /\ gDns = NoAddrs /\ gSvc = {} /\ NoAddrs' = NoAddrs
  BY <1>1 DEF GaiHeap, HeapInv, GaiList, PlaceInv, NoAddrs
<1>3. Searches' = Searches /\ CheckOf' = CheckOf /\ (UnixReq(gReq)' <=> UnixReq(gReq)) /\ (Ordinary' <=> Ordinary)
  BY <1>1, AddrsFrame
<1>4. ga_echeck(gReq) # "ADDRFAMILY"
  BY DEF ga_echeck, FamilyCheck
<1>5. ASSUME NEW e, gImpl = "libgai" => e = ga_echeck(gReq) /\ e # "ok", NEW list, NEW live, Bad(e, list, live) PROVE GaiList'
  <2>1. gPc' = "failed" /\ gRc' = e
    BY <1>5 DEF Bad
  <2> QED
    BY <1>1, <1>4, <1>5, <2>1, ListEnds
<1>6. CASE gPc' = "crashed" /\ gImpl # "libgai"
  BY <1>1, <1>6, ListEnds
<1>7. CASE UnixReq(gReq) /\ gPc' = "unix" /\ gSearch' = <<>> /\ gRc' = gRc /\ (gImpl # "savecopy" => CheckOf = "ok")
  <2>1. PlaceInv'
    BY <1>1, <1>2, <1>3, <1>7 DEF PlaceInv
  <2>2. CodeInv'
    BY <1>2, <1>7 DEF CodeInv
  <2> QED
    BY <1>7, <2>1, <2>2, NoList DEF GaiList
<1>8. ASSUME NEW q, BeginLookup(q), ~UnixReq(gReq), gImpl # "savecopy" => q = Searches /\ CheckOf = "ok" PROVE GaiList'
  <2>1. CASE gPc' = "quit"
    <3>1. gRc' = "quit"
      BY <1>8, <2>1 DEF BeginLookup
    <3> QED
      BY <1>1, <2>1, <3>1, ListEnds
  <2>2. CASE gPc' # "quit"
    <3>1. gPc' = "search" /\ gRc' = gRc /\ gSearch' = q /\ q # <<>> /\ gDouble' = (Len(q) = 2) /\ gList' = gList
      BY <1>8, <2>2 DEF BeginLookup
    <3>2. gImpl = "libgai" => gReq.fam \in {"UNSPEC", "INET", "INET6"} /\ gDouble' = (gReq.fam = "UNSPEC")
      <4>1. SUFFICES ASSUME gImpl = "libgai" PROVE gReq.fam \in {"UNSPEC", "INET", "INET6"} /\ gDouble' = (gReq.fam = "UNSPEC")
        OBVIOUS
      <4>2. q = ga_nsearch(gReq) /\ ga_echeck(gReq) = "ok"
        BY <1>8, <4>1 DEF Searches, CheckOf
      <4>3. gReq.fam \in {"UNSPEC", "INET", "INET6", "LOCAL"}
        BY <1>1, <4>2, ReqFacts DEF ga_echeck, FamilyCheck
      <4>4. gReq.fam # "LOCAL"
        BY <1>1, <3>1, <4>2, SearchesAre
      <4>5. CASE gReq.fam = "UNSPEC"
        <5>1. Len(q) = 2
          BY <1>1, <4>2, <4>5, SearchesAre
        <5> QED
          BY <3>1, <4>5, <5>1
      <4>6. CASE gReq.fam \in {"INET", "INET6"}
        <5>1. Len(q) = 1
          BY <1>1, <4>2, <4>6, SearchesAre
        <5> QED
          BY <3>1, <4>6, <5>1
      <4> QED
        BY <4>3, <4>4, <4>5, <4>6
    <3>3. PlaceInv'
      BY <1>1, <1>2, <1>3, <1>8, <3>1, <3>2 DEF PlaceInv
    <3>4. CodeInv'
      BY <1>2, <3>1 DEF CodeInv
    <3>5. PortInv'
      BY <3>1 DEF PortInv
    <3>6. SearchInv'
      <4>1. SUFFICES ASSUME Ordinary PROVE SearchInv'
        BY <1>3, Zenon DEF SearchInv
      <4>2. MadeOf(<<>>)'
        BY <1>2, <3>1, MadeOfNone
      <4>3. gSearch' = Searches'
        BY <1>3, <1>8, <3>1, <4>1 DEF Ordinary
      <4>4. <<>> \in Seq(Addresses)
        OBVIOUS
      <4>5. gAddrs' = <<>> /\ gDns' = NoAddrs /\ NoAddrs' = NoAddrs
        BY <1>1, <1>2
      <4> QED
        BY <3>1, <4>2, <4>3, <4>4, <4>5, Zenon DEF SearchInv
    <3> QED
      BY <3>3, <3>4, <3>5, <3>6 DEF GaiList
  <2> QED
    BY <2>1, <2>2
<1>9. CASE CheckArgs
  <2>1. gImpl = "libgai" /\ CheckOf = ga_echeck(gReq) /\ Searches = ga_nsearch(gReq)
    BY <1>9 DEF CheckArgs, CheckOf, Searches
  <2> QED
    BY <1>5, <1>7, <1>8, <1>9, <2>1, Zenon DEF CheckArgs, NothingFound
<1>10. CASE CheckArgs_old
  <2>1. gImpl = "savecopy" /\ gImpl # "libgai"
    BY <1>10 DEF CheckArgs_old
  <2> QED
    BY <1>5, <1>6, <1>7, <1>8, <1>10, <2>1, Zenon DEF CheckArgs_old, Wild, NothingFound
<1>11. CASE CheckArgs_libfree
  <2>1. gImpl = "libfree" /\ gImpl # "libgai" /\ CheckOf = echeck_libfree(gReq) /\ Searches = search_libfree(gReq)
    BY <1>11 DEF CheckArgs_libfree, CheckOf, Searches
  <2> QED
    BY <1>5, <1>6, <1>7, <1>8, <1>11, <2>1, Zenon DEF CheckArgs_libfree, Wild, NothingFound
<1> QED
  BY <1>9, <1>10, <1>11 DEF CheckStep

\* A Unix domain socket.
LEMMA ListUnix == GaiHeap /\ GaiList /\ UnixStep => GaiList'
<1> SUFFICES ASSUME GaiHeap, GaiList, UnixStep PROVE GaiList'
  OBVIOUS
<1>1. gPc = "unix" /\ UNCHANGED <<gImpl, gReq, gSearch, gDouble, gDns, gSvc>>
  BY DEF UnixStep, ga_unix
<1>2. UnixReq(gReq) /\ gSvc = {} /\ gSearch = <<>> /\ (gImpl # "savecopy" => CheckOf = "ok")
  BY <1>1 DEF GaiHeap, HeapInv, GaiList, PlaceInv
<1>3. CheckOf' = CheckOf /\ UnixReq(gReq)' /\ ~Ordinary'
  BY <1>1, <1>2, AddrsFrame DEF Ordinary
<1>4. gImpl = "libgai" => gReq.host = "/path" /\ ga_echeck(gReq) = "ok"
  BY <1>2 DEF UnixReq, CheckOf
<1>5. CASE gImpl = "libgai"
  <2>1. ga_unix
    BY <1>5 DEF UnixStep
  <2>2. CASE UnixLost("ADDRFAMILY", gLive)
    <3>1. gPc' = "failed" /\ gRc' = "ADDRFAMILY"
      BY <2>2 DEF UnixLost
    <3> QED
      BY <1>1, <1>2, <1>4, <1>5, <3>1, ListEnds
  <2>3. CASE gPc' = "add" /\ gRc' = gRc
    <3>1. PlaceInv'
      BY <1>1, <1>2, <1>3, <2>3 DEF GaiList, PlaceInv
    <3>2. CodeInv'
      BY <1>1, <2>3 DEF GaiList, CodeInv
    <3>3. SearchInv' /\ PortInv'
      BY <1>3, <2>3 DEF SearchInv, PortInv
    <3> QED
      BY <3>1, <3>2, <3>3 DEF GaiList
  <2> QED
    BY <2>1, <2>2, <2>3, Zenon DEF ga_unix
<1>6. CASE gImpl # "libgai"
  <2>1. addrinfo_local
    BY <1>6 DEF UnixStep, ga_unix, ga_unix_old
  <2>2. gPc' \in {"failed", "returned"}
    BY <2>1 DEF addrinfo_local, UnixLost
  <2>3. PlaceInv'
    BY <1>1, <1>2, <1>3, <1>6, <2>2 DEF GaiList, PlaceInv
  <2>4. CodeInv'
    BY <1>1, <1>6 DEF CodeInv
  <2>5. SearchInv' /\ PortInv'
    BY <1>3, <2>2 DEF SearchInv, PortInv
  <2> QED
    BY <2>3, <2>4, <2>5 DEF GaiList
<1> QED
  BY <1>5, <1>6

\* The caller frees the list.
LEMMA ListRelease == GaiHeap /\ GaiList /\ Release => GaiList'
<1> SUFFICES ASSUME GaiHeap, GaiList, Release PROVE GaiList'
  OBVIOUS
<1>1. gPc' = "freed" /\ UNCHANGED <<gImpl, gReq, gSvc, gRc>>
  BY DEF Release
<1>2. PlaceInv' /\ CodeInv'
  BY <1>1 DEF GaiList, PlaceInv, CodeInv
<1> QED
  BY <1>1, <1>2, NoList DEF GaiList

\* The caller goes on to its next call.
LEMMA ListNextCall == GaiHeap /\ GaiList /\ NextCall => GaiList'
<1> SUFFICES ASSUME GaiHeap, GaiList, NextCall PROVE GaiList'
  OBVIOUS
<1>1. gPc' = "idle" /\ gRc' = "none" /\ gDns' = NoAddrs /\ gSvc' = {} /\ NoAddrs' = NoAddrs
  BY DEF NextCall, NoAddrs
<1>2. PlaceInv' /\ CodeInv'
  BY <1>1 DEF PlaceInv, CodeInv
<1> QED
  BY <1>1, <1>2, NoList DEF GaiList

\* The state of the searches of an ordinary call, and where a step leads to.
SearchedFor(src) ==
    \/ gSearch = Searches /\ gPc = "search" /\ src = <<>> /\ gDns = NoAddrs
    \/ /\ gImpl = "libgai" /\ gReq.fam = "UNSPEC" /\ gSearch = Tail(Searches)
       /\ src \o gAddrs = AddrsOf("INET6") /\ gDns["INET"] = 0
    \/ gSearch = <<>> /\ gPc = "add" /\ src \o gAddrs = AllAddrs

\* SearchInv in terms of SearchedFor.
LEMMA SearchInvIs ==
    /\ SearchInv <=> (Ordinary /\ gPc \in {"search", "add"} =>
                        \E src \in Seq(Addresses) : MadeOf(src) /\ (gPc = "search" => gAddrs = <<>>) /\ SearchedFor(src))
    /\ SearchInv' <=> (Ordinary' /\ gPc' \in {"search", "add"} =>
                        \E src \in Seq(Addresses) : MadeOf(src)' /\ (gPc' = "search" => gAddrs' = <<>>) /\ SearchedFor(src)')
BY Zenon DEF SearchInv, SearchedFor

\* A search that has been made in libgai.
LEMMA FoundNext ==
    ASSUME GaiHeap, GaiList, HostStep, gPc' = "add", Ordinary, gImpl = "libgai",
           NEW src \in Seq(Addresses), MadeOf(src), SearchedFor(src)
    PROVE  SearchInv'
<1>1. /\ gPc = "search" /\ gSearch # <<>> /\ gSearch' = Tail(gSearch) /\ gReq' = gReq /\ gImpl' = gImpl
      /\ gDns \in [{"INET", "INET6"} -> Nat] /\ gReq \in Requests
  BY HostCommon
<1>2. gReq.fam \in {"UNSPEC", "INET", "INET6"} /\ gDouble = (gReq.fam = "UNSPEC")
  BY <1>1 DEF GaiList, PlaceInv, Ordinary
<1>3. Searches = ga_nsearch(gReq) /\ Searches' = Searches
  BY <1>1, AddrsFrame DEF Searches
<1>4. gAddrs' \in Seq(Addresses) /\ <<>> \in Seq(Addresses) /\ gDns' \in [{"INET", "INET6"} -> Nat]
  BY HeapHost DEF GaiHeap, GaiTypes
<1>5. SUFFICES MadeOf(src)' /\ SearchedFor(src)'
  BY SearchInvIs
<1>6. ASSUME gList' = gList PROVE MadeOf(src)'
  BY <1>6 DEF MadeOf
<1>7. gAddrs = <<>>
  <2>1. Ordinary /\ gPc = "search" => \E s \in Seq(Addresses) : gPc = "search" => gAddrs = <<>>
    BY SearchInvIs DEF GaiList
  <2> QED
    BY <1>1, <2>1
<1>8. CASE gSearch = Searches /\ src = <<>> /\ gDns = NoAddrs /\ gReq.fam = "UNSPEC"
  <2>1. gSearch = <<SearchOf("INET6"), SearchOf("INET")>>
    BY <1>1, <1>3, <1>8, SearchesAre
  <2>2. Head(gSearch) = SearchOf("INET6") /\ gDns["INET6"] = 0 /\ gDns["INET"] = 0
    BY <1>8, <2>1 DEF NoAddrs
  <2>3. SearchGives("INET6")
    BY <1>2, <1>8, <2>2, SearchLibgai
  <2>4. gAddrs' = AddrsOf("INET6")' /\ gList' = gList /\ gDns'["INET"] = 0
    BY <2>2, <2>3 DEF SearchGives
  <2>5. src \o gAddrs' = gAddrs'
    BY <1>4, <1>8
  <2>6. SearchedFor(src)'
    BY <1>1, <1>3, <1>8, <2>4, <2>5 DEF SearchedFor
  <2> QED
    BY <1>6, <2>4, <2>6
<1>9. CASE gSearch = Searches /\ src = <<>> /\ gDns = NoAddrs /\ gReq.fam # "UNSPEC"
  <2>1. PICK f \in {"INET", "INET6"} : gReq.fam = f
    BY <1>2, <1>9
  <2>2. PICK g \in {"INET", "INET6"} : g # f
    OBVIOUS
  <2>3. gSearch = <<SearchOf(f)>> /\ gDns[f] = 0 /\ gDns[g] = 0
    BY <1>1, <1>3, <1>9, <2>1, SearchesAre DEF NoAddrs
  <2>4. Head(gSearch) = SearchOf(f) /\ Tail(gSearch) = <<>>
    BY <2>3
  <2>5. SearchGives(f)
    BY <1>2, <2>1, <2>3, <2>4, SearchLibgai
  <2>6. /\ gAddrs' = AddrsOf(f)' /\ gList' = gList /\ gDns'[g] = 0
        /\ (SearchOf(f).host \in {"v4", "v6"} => FamOf(SearchOf(f).host) = f)
    BY <2>1, <2>2, <2>3, <2>5 DEF SearchGives
  <2>7. g \notin NumericFams
    BY <2>1, <2>2, <2>6, NumericSearchOther
  <2>8. AllAddrs' = gAddrs'
    BY <1>1, <1>4, <2>2, <2>6, <2>7, OneFamily
  <2>9. src \o gAddrs' = AllAddrs'
    BY <1>4, <1>9, <2>8
  <2>10. SearchedFor(src)'
    BY <1>1, <2>4, <2>9 DEF SearchedFor
  <2> QED
    BY <1>6, <2>6, <2>10
<1>10. CASE gReq.fam = "UNSPEC" /\ gSearch = Tail(Searches) /\ src \o gAddrs = AddrsOf("INET6") /\ gDns["INET"] = 0
  <2>1. Searches = <<SearchOf("INET6"), SearchOf("INET")>>
    BY <1>1, <1>3, <1>10, SearchesAre
  <2>2. gSearch = <<SearchOf("INET")>>
    BY <1>10, <2>1
  <2>3. Head(gSearch) = SearchOf("INET") /\ Tail(gSearch) = <<>>
    BY <2>2
  <2>4. SearchGives("INET")
    BY <1>2, <1>10, <2>3, SearchLibgai
  <2>5. gAddrs' = AddrsOf("INET")' /\ gList' = gList /\ gDns'["INET6"] = gDns["INET6"]
    BY <2>4 DEF SearchGives
  <2>6. AddrsOf("INET6")' = AddrsOf("INET6")
    BY <1>1, <2>5, AddrsFrame
  <2>7. src = AddrsOf("INET6")
    <3>1. src \o <<>> = src
      OBVIOUS
    <3> QED
      BY <1>7, <1>10, <3>1
  <2>8. src \o gAddrs' = AllAddrs'
    BY <2>5, <2>6, <2>7 DEF AllAddrs
  <2>9. SearchedFor(src)'
    BY <1>1, <2>3, <2>8 DEF SearchedFor
  <2> QED
    BY <1>6, <2>5, <2>9
<1> QED
  BY <1>1, <1>8, <1>9, <1>10 DEF SearchedFor

\* The search of libgai fails with an error that fits the request.
LEMMA SearchFails ==
    ASSUME GaiHeap, GaiList, HostStep, gImpl = "libgai"
    PROVE  /\ Ordinary /\ gPc' \in {"add", "failed"} /\ (gPc' = "add" => gRc' = gRc)
           /\ gPc' = "failed" => /\ gRc' \in {"MEMORY", "NONAME", "ADDRFAMILY", "AGAIN", "FAIL", "NODATA"}
                                 /\ gRc' \in {"AGAIN", "FAIL", "NODATA"} => gReq.fam # "UNSPEC"
                                 /\ gRc' = "ADDRFAMILY" => gReq.host \in {"v4", "v6"}
<1>1. gPc = "search" /\ gSearch # <<>> /\ gReq \in Requests
  BY HostCommon
<1>2. Ordinary /\ gReq.fam \in {"UNSPEC", "INET", "INET6"} /\ gDouble = (gReq.fam = "UNSPEC")
  BY <1>1 DEF GaiList, PlaceInv, Ordinary
<1>3. PICK src \in Seq(Addresses) : SearchedFor(src)
  BY <1>1, <1>2, SearchInvIs DEF GaiList
<1>4. Searches = ga_nsearch(gReq)
  BY DEF Searches
<1>5. \E f \in {"INET", "INET6"} : Head(gSearch) = SearchOf(f) /\ gReq.fam \in {"UNSPEC", f} /\ gDns[f] = 0
  <2>1. CASE gSearch = Searches /\ gDns = NoAddrs /\ gReq.fam = "UNSPEC"
    <3>1. gSearch = <<SearchOf("INET6"), SearchOf("INET")>>
      BY <1>1, <1>4, <2>1, SearchesAre
    <3>2. Head(gSearch) = SearchOf("INET6") /\ gDns["INET6"] = 0
      BY <2>1, <3>1 DEF NoAddrs
    <3> QED
      BY <2>1, <3>2
  <2>2. CASE gSearch = Searches /\ gDns = NoAddrs /\ gReq.fam # "UNSPEC"
    <3>1. PICK f \in {"INET", "INET6"} : gReq.fam = f
      BY <1>2, <2>2
    <3>2. gSearch = <<SearchOf(f)>> /\ gDns[f] = 0
      BY <1>1, <1>4, <2>2, <3>1, SearchesAre DEF NoAddrs
    <3>3. Head(gSearch) = SearchOf(f)
      BY <3>2
    <3> QED
      BY <3>1, <3>2, <3>3
  <2>3. CASE gReq.fam = "UNSPEC" /\ gSearch = Tail(Searches) /\ gDns["INET"] = 0
    <3>1. Searches = <<SearchOf("INET6"), SearchOf("INET")>>
      BY <1>1, <1>4, <2>3, SearchesAre
    <3>2. gSearch = <<SearchOf("INET")>>
      BY <2>3, <3>1
    <3>3. Head(gSearch) = SearchOf("INET")
      BY <3>2
    <3> QED
      BY <2>3, <3>3
  <2> QED
    BY <1>1, <1>3, <2>1, <2>2, <2>3 DEF SearchedFor
<1>6. PICK f \in {"INET", "INET6"} : Head(gSearch) = SearchOf(f) /\ gReq.fam \in {"UNSPEC", f} /\ gDns[f] = 0
  BY <1>5
<1>7. SearchGives(f)
  BY <1>2, <1>6, SearchLibgai
<1> QED
  BY <1>2, <1>7 DEF SearchGives

\* One step of the search, in every version.
LEMMA ListHost == GaiHeap /\ GaiList /\ HostStep => GaiList'
<1> SUFFICES ASSUME GaiHeap, GaiList, HostStep PROVE GaiList'
  OBVIOUS
<1>1. gPc = "search" /\ UNCHANGED <<gImpl, gReq, gSvc, gDouble>>
  BY HostCommon DEF HostStep
<1>2. gSvc = {} /\ ~UnixReq(gReq) /\ (gImpl # "savecopy" => CheckOf = "ok")
  BY <1>1 DEF GaiList, PlaceInv
<1>3. CheckOf' = CheckOf /\ (UnixReq(gReq)' <=> UnixReq(gReq)) /\ (Ordinary' <=> Ordinary)
  BY <1>1, AddrsFrame
<1>4. gPc' \in {"add", "failed", "crashed"}
  BY Zenon DEF HostStep, NumericHost, LookupHost, Search_old, getaddrinfo_host, Wild, Bad
<1>5. CASE gPc' \in {"failed", "crashed"}
  <2>1. gImpl = "libgai" => /\ gPc' = "failed" /\ gRc' \in {"MEMORY", "NONAME", "ADDRFAMILY", "AGAIN", "FAIL", "NODATA"}
                            /\ (gRc' \in {"AGAIN", "FAIL", "NODATA"} => gReq.fam # "UNSPEC") /\ (gRc' = "ADDRFAMILY" => gReq.host \in {"v4", "v6"})
                            /\ ga_echeck(gReq) = "ok"
    BY <1>2, <1>5, SearchFails DEF CheckOf
  <2> QED
    BY <1>1, <1>2, <1>5, <2>1, ListEnds
<1>6. CASE gPc' = "add"
  <2>1. PlaceInv'
    BY <1>1, <1>2, <1>3, <1>6 DEF GaiList, PlaceInv
  <2>2. CodeInv'
    <3>1. gImpl = "libgai" => gRc' = gRc
      BY <1>6, SearchFails
    <3> QED
      BY <1>1, <1>6, <3>1 DEF GaiList, CodeInv
  <2>3. PortInv'
    BY <1>6 DEF PortInv
  <2>4. SearchInv'
    <3>1. SUFFICES ASSUME Ordinary PROVE SearchInv'
      BY <1>3, SearchInvIs
    <3>2. PICK src \in Seq(Addresses) : MadeOf(src) /\ SearchedFor(src)
      BY <1>1, <3>1, SearchInvIs DEF GaiList
    <3>3. CASE gImpl = "libgai"
      BY <1>6, <3>1, <3>2, <3>3, FoundNext
    <3>4. CASE gImpl = "libfree"
      <4>1. /\ gSearch # <<>> /\ gSearch' = Tail(gSearch) /\ Searches = search_libfree(gReq) /\ CheckOf = echeck_libfree(gReq)
        BY <3>4, HostCommon DEF Searches, CheckOf
      <4>2. gSearch = Searches /\ src = <<>> /\ gDns = NoAddrs
        BY <1>1, <3>2, <3>4, <4>1 DEF SearchedFor
      <4>3. gAddrs' = AllAddrs' /\ gList' = gList
        BY <1>2, <1>6, <3>4, <4>1, <4>2, SearchLibfree
      <4>4. Tail(gSearch) = <<>>
        BY <4>1, <4>2 DEF search_libfree
      <4>5. gAddrs' \in Seq(Addresses)
        BY HeapHost DEF GaiHeap, GaiTypes
      <4>6. src \o gAddrs' = AllAddrs'
        BY <4>2, <4>3, <4>5
      <4>7. SearchedFor(src)' /\ MadeOf(src)'
        BY <1>6, <3>2, <4>1, <4>3, <4>4, <4>6 DEF SearchedFor, MadeOf
      <4> QED
        BY <1>6, <3>2, <4>7, SearchInvIs
    <3> QED
      BY <3>1, <3>3, <3>4 DEF Ordinary, GaiHeap, GaiTypes
  <2> QED
    BY <2>1, <2>2, <2>3, <2>4 DEF GaiList
<1> QED
  BY <1>4, <1>5, <1>6

\* The structure made of the next address.
LEMMA AddOneMakes ==
    ASSUME GaiHeap, AddOne, gImpl # "savecopy"
    PROVE  \/ gPc' = "add" /\ gRc' = gRc /\ gList' = Append(gList, Struct(Head(gAddrs), TRUE))
           \/ gPc' = "failed" /\ gRc' \in {"MEMORY", "SERVICE"} /\ (gRc' = "SERVICE" => gReq.serv = "/long")
<1>1. gPc = "add" /\ gAddrs # <<>>
  BY DEF AddOne
<1>2. gAddrs \in Seq(Addresses) /\ gList \in Seq(Unnamed) /\ gLive = Blocks(gList) + CanonBlock /\ CanonBlock \in Nat
  BY <1>1, GaiFrame DEF GaiHeap, GaiTypes, HeapInv, Building
<1>3. Head(gAddrs) \in Addresses
  BY <1>1, <1>2
<1>4. PICK o \in ga_aistruct(Head(gAddrs), gList, gLive) :
        IF o.rc = "ok" THEN gList' = o.list /\ gLive' = o.live /\ UNCHANGED <<gPc, gRc>>
        ELSE IF UnixReq(gReq) THEN UnixLost(o.rc, o.live) ELSE Bad(o.rc, o.list, o.live)
  BY Zenon DEF AddOne, fill_libfree
<1>5. MadeWell(o, gList, Head(gAddrs), CanonBlock)
  BY <1>2, <1>3, <1>4, MadeFacts
<1>6. CASE o.rc = "ok"
  BY <1>1, <1>4, <1>5, <1>6 DEF MadeWell
<1>7. CASE o.rc # "ok"
  <2>1. gPc' = "failed" /\ gRc' = o.rc
    BY <1>4, <1>7 DEF UnixLost, Bad
  <2> QED
    BY <1>5, <1>7, <2>1 DEF MadeWell, TooLong
<1> QED
  BY <1>6, <1>7

\* The first that waits becomes the last that is done.
LEMMA ShiftHead ==
    ASSUME NEW S, NEW s \in Seq(S), NEW t \in Seq(S), t # <<>>
    PROVE  Append(s, Head(t)) \in Seq(S) /\ Append(s, Head(t)) \o Tail(t) = s \o t
<1> DEFINE h == Head(t)
           u == Tail(t)
<1>1. h \in S /\ u \in Seq(S) /\ t = <<h>> \o u
  BY HeadTailProperties
<1> HIDE DEF h, u
<1>2. Append(s, h) = s \o <<h>> /\ <<h>> \in Seq(S)
  BY <1>1, AppendIsConcat
<1>3. (s \o <<h>>) \o u = s \o (<<h>> \o u)
  BY <1>1, <1>2, Regroup
<1>4. Append(s, h) \in Seq(S) /\ Append(s, h) \o u = s \o t
  BY <1>1, <1>2, <1>3
<1> QED
  BY <1>4 DEF h, u

\* The list with it is made of one address more.
LEMMA MadeOfMore ==
    ASSUME NEW src \in Seq(Addresses), NEW a \in Addresses, MadeOf(src), gList' = Append(gList, Struct(a, TRUE))
    PROVE  MadeOf(Append(src, a))'
<1> DEFINE n == Len(src)
           t == Append(src, a)
           F == [k \in 1 .. n + 1 |-> Struct(t[k], TRUE)]
<1>1. n \in Nat /\ Len(t) = n + 1 /\ t[n + 1] = a /\ \A k \in 1 .. n : t[k] = src[k] /\ src[k] \in Addresses
  OBVIOUS
<1> HIDE DEF t, n
<1>2. \A k \in 1 .. n + 1 : F[k] \in Unnamed
  <2>1. \A k \in 1 .. n + 1 : t[k] \in Addresses
    <3>1. \A k \in 1 .. n + 1 : k = n + 1 \/ k \in 1 .. n
      BY <1>1
    <3> QED
      BY <1>1, <3>1
  <2> QED
    BY <2>1, StructType, Zenon
<1>3. F = [k \in 1 .. n + 1 |-> F[k]] /\ F[n + 1] = Struct(a, TRUE) /\ [k \in 1 .. n |-> F[k]] = [k \in 1 .. n |-> Struct(src[k], TRUE)]
  <2>1. n + 1 \in 1 .. n + 1 /\ \A k \in 1 .. n : k \in 1 .. n + 1
    BY <1>1
  <2>2. F[n + 1] = Struct(a, TRUE)
    BY <1>1, <2>1, Zenon
  <2>3. \A k \in 1 .. n : F[k] = Struct(src[k], TRUE)
    BY <1>1, <2>1, Zenon
  <2> QED
    BY <2>2, <2>3, Zenon
<1> HIDE DEF F
<1>4. [k \in 1 .. n + 1 |-> F[k]] = Append([k \in 1 .. n |-> F[k]], F[n + 1])
  BY <1>1, <1>2, MapAppend
<1>5. gList = [k \in 1 .. n |-> Struct(src[k], TRUE)]
  BY DEF MadeOf, n
<1>6. gList' = F
  BY <1>3, <1>4, <1>5, Zenon
<1>7. gList' = [k \in 1 .. Len(t) |-> Struct(t[k], TRUE)]
  BY <1>1, <1>6 DEF F
<1> QED
  BY <1>7, Zenon DEF MadeOf, t

\* An addrinfo{} is made, or one of its allocations fails.
LEMMA ListAddOne == GaiHeap /\ GaiList /\ AddOne => GaiList'
<1> SUFFICES ASSUME GaiHeap, GaiList, AddOne PROVE GaiList'
  OBVIOUS
<1>1. /\ gPc = "add" /\ gAddrs # <<>> /\ gAddrs' = Tail(gAddrs) /\ UNCHANGED <<gImpl, gReq, gSearch, gDouble, gDns, gSvc>>
      /\ gAddrs \in Seq(Addresses) /\ gPc' \in {"add", "failed"}
  <2>1. gPc' \in {"add", "failed"}
    BY Zenon DEF AddOne, UnixLost, Bad
  <2> QED
    BY <2>1 DEF AddOne, GaiHeap, GaiTypes
<1>2. gSvc = {} /\ (gImpl # "savecopy" => CheckOf = "ok")
  BY <1>1 DEF GaiList, PlaceInv
<1>3. CheckOf' = CheckOf /\ (UnixReq(gReq)' <=> UnixReq(gReq)) /\ (Ordinary' <=> Ordinary) /\ AllAddrs' = AllAddrs
      /\ Searches' = Searches /\ AddrsOf("INET6")' = AddrsOf("INET6")
  BY <1>1, AddrsFrame
<1>4. gImpl # "savecopy" =>
        \/ gPc' = "add" /\ gRc' = gRc /\ gList' = Append(gList, Struct(Head(gAddrs), TRUE))
        \/ gPc' = "failed" /\ gRc' \in {"MEMORY", "SERVICE"} /\ (gRc' = "SERVICE" => gReq.serv = "/long")
  BY AddOneMakes
<1>5. CASE gPc' = "failed"
  <2>1. gImpl = "libgai" => gRc' \in {"MEMORY", "SERVICE"} /\ (gRc' = "SERVICE" => gReq.serv = "/long") /\ ga_echeck(gReq) = "ok"
    BY <1>2, <1>4, <1>5 DEF CheckOf
  <2> QED
    BY <1>1, <1>2, <1>5, <2>1, ListEnds
<1>6. CASE gPc' = "add"
  <2>1. PlaceInv'
    BY <1>1, <1>2, <1>3, <1>6 DEF GaiList, PlaceInv
  <2>2. CodeInv'
    BY <1>1, <1>4, <1>6 DEF GaiList, CodeInv
  <2>3. PortInv'
    BY <1>6 DEF PortInv
  <2>4. SearchInv'
    <3>1. SUFFICES ASSUME Ordinary PROVE SearchInv'
      BY <1>3, SearchInvIs
    <3>2. PICK src \in Seq(Addresses) : MadeOf(src) /\ SearchedFor(src)
      BY <1>1, <3>1, SearchInvIs DEF GaiList
    <3>3. PICK a \in Addresses : a = Head(gAddrs)
      BY <1>1
    <3>4. Append(src, a) \in Seq(Addresses) /\ Append(src, a) \o gAddrs' = src \o gAddrs
      BY <1>1, <3>3, ShiftHead
    <3>5. MadeOf(Append(src, a))'
      BY <1>4, <1>6, <3>1, <3>2, <3>3, MadeOfMore DEF Ordinary
    <3>6. SearchedFor(Append(src, a))'
      BY <1>1, <1>3, <1>6, <3>2, <3>4 DEF SearchedFor
    <3> QED
      BY <1>6, <3>4, <3>5, <3>6, SearchInvIs
  <2> QED
    BY <2>1, <2>2, <2>3, <2>4 DEF GaiList
<1> QED
  BY <1>1, <1>5, <1>6

\* The addresses of one search are all in the list.
LEMMA ListAddDone == GaiHeap /\ GaiList /\ AddDone => GaiList'
<1> SUFFICES ASSUME GaiHeap, GaiList, AddDone PROVE GaiList'
  OBVIOUS
<1>1. /\ gPc = "add" /\ gAddrs = <<>> /\ gPc' = (IF gSearch # <<>> THEN "search" ELSE "canon")
      /\ UNCHANGED <<gImpl, gReq, gSearch, gDouble, gAddrs, gList, gDns, gSvc, gRc>>
  BY DEF AddDone
<1>2. CheckOf' = CheckOf /\ (UnixReq(gReq)' <=> UnixReq(gReq)) /\ (Ordinary' <=> Ordinary) /\ AllAddrs' = AllAddrs
      /\ Searches' = Searches /\ AddrsOf("INET6")' = AddrsOf("INET6")
  BY <1>1, AddrsFrame
<1>3. PlaceInv'
  BY <1>1, <1>2 DEF GaiList, PlaceInv
<1>4. CodeInv'
  BY <1>1 DEF GaiList, CodeInv
<1>5. SearchInv' /\ PortInv'
  <2>1. CASE ~Ordinary
    BY <1>2, <2>1 DEF SearchInv, PortInv
  <2>2. CASE Ordinary
    <3>1. PICK src \in Seq(Addresses) : MadeOf(src) /\ SearchedFor(src)
      BY <1>1, <2>2, SearchInvIs DEF GaiList
    <3>2. MadeOf(src)'
      BY <1>1, <3>1 DEF MadeOf
    <3>3. src \o gAddrs = src
      BY <1>1
    <3>4. CASE gSearch # <<>>
      <4>1. SearchedFor(src)'
        BY <1>1, <1>2, <3>1, <3>4 DEF SearchedFor
      <4>2. SearchInv'
        BY <1>1, <3>2, <4>1, SearchInvIs
      <4> QED
        BY <1>1, <3>4, <4>2 DEF PortInv
    <3>5. CASE gSearch = <<>>
      <4>1. gReq.fam = "UNSPEC" /\ gImpl = "libgai" => Tail(Searches) # <<>>
        <5>1. gReq \in Requests
          BY DEF GaiHeap, GaiTypes
        <5>2. gReq.fam = "UNSPEC" => ga_nsearch(gReq) = <<SearchOf("INET6"), SearchOf("INET")>>
          BY <5>1, SearchesAre
        <5>3. Tail(<<SearchOf("INET6"), SearchOf("INET")>>) # <<>>
          OBVIOUS
        <5> QED
          BY <5>2, <5>3 DEF Searches
      <4>2. src = AllAddrs
        BY <1>1, <3>1, <3>3, <3>5, <4>1 DEF SearchedFor
      <4>3. gList' = [k \in 1 .. Len(AllAddrs') |-> Struct(AllAddrs'[k], TRUE)]
        BY <1>2, <3>2, <4>2, Zenon DEF MadeOf
      <4>4. MadeOf(AllAddrs)'
        BY <4>3, Zenon DEF MadeOf
      <4>5. gPc' = "canon"
        BY <1>1, <3>5
      <4> QED
        BY <4>4, <4>5 DEF SearchInv, PortInv
    <3> QED
      BY <3>4, <3>5
  <2> QED
    BY <2>1, <2>2
<1> QED
  BY <1>3, <1>4, <1>5 DEF GaiList

\* The list does not change as long as the request and the addresses stay.
LEMMA ListFrame ==
    ASSUME gReq' = gReq, gImpl' = gImpl, gDns' = gDns
    PROVE  /\ List0' = List0
           /\ \A t : List1(t)' = List1(t)
           /\ \A t, u : List2(t, u)' = List2(t, u)
           /\ gSvc' = gSvc => TypesTodo' = TypesTodo
<1>1. AllAddrs' = AllAddrs
  BY AddrsFrame
<1>2. \A k : Entry(k)' = Entry(k)
  BY <1>1, Zenon DEF Entry, CnAt
<1>3. \A t : PortOf(t)' = PortOf(t)
  BY Zenon DEF PortOf
<1>4. \A k, t : Passed1(k, t)' = Passed1(k, t)
  BY <1>2, <1>3, Zenon DEF Passed1
<1>5. \A k, t, u : Passed2(k, t, u)' = Passed2(k, t, u)
  BY <1>3, <1>4, Zenon DEF Passed2
<1>6. List0' = List0
  BY <1>1, <1>2, Zenon DEF List0
<1>7. \A t : List1(t)' = List1(t)
  BY <1>1, <1>4, Zenon DEF List1
<1>8. \A t, u : List2(t, u)' = List2(t, u)
  BY <1>1, <1>4, <1>5, Zenon DEF List2
<1>9. gSvc' = gSvc => TypesTodo' = TypesTodo
  BY Zenon DEF TypesTodo, ByName
<1> QED
  BY <1>6, <1>7, <1>8, <1>9

\* An element, with and without a name.
LEMMA EntryIs ==
    ASSUME NEW k
    PROVE  /\ ~CnAt(k) => Entry(k) = Struct(AllAddrs[k], TRUE)
           /\ CnAt(k) => Entry(k) = [Struct(AllAddrs[k], TRUE) EXCEPT !.cn = TRUE]
BY Zenon DEF Entry

\* The list after the name: the name is in the first element if it is wanted.
LEMMA NotNamedIs ==
    ASSUME MadeOf(AllAddrs), ~CnAt(1)
    PROVE  gList = List0
<1>1. \A k : ~CnAt(k)
  BY DEF CnAt
<1>2. \A k : Entry(k) = Struct(AllAddrs[k], TRUE)
  BY <1>1, EntryIs
<1> QED
  BY <1>2, Zenon DEF List0, MadeOf

\* With a name the list differs in its first element.
LEMMA NamedIs ==
    ASSUME MadeOf(AllAddrs), CnAt(1), gList \in Seq(Unnamed), gList # <<>>, AllAddrs \in Seq(OneType(gReq.type))
    PROVE  <<[gList[1] EXCEPT !.cn = TRUE]>> \o Tail(gList) = List0
<1> DEFINE n == Len(AllAddrs)
           h == [gList[1] EXCEPT !.cn = TRUE]
           r == Tail(gList)
           l == <<h>> \o r
<1>1. n \in Nat /\ gList = [k \in 1 .. n |-> Struct(AllAddrs[k], TRUE)]
  BY DEF MadeOf
<1>2. Len(gList) = n /\ \A k \in 1 .. n : gList[k] = Struct(AllAddrs[k], TRUE)
  BY <1>1
<1>3. n >= 1 /\ r \in Seq(Unnamed) /\ Len(r) = n - 1 /\ \A k \in 1 .. n - 1 : r[k] = gList[k + 1]
  BY <1>2
<1>4. h = Entry(1)
  <2>1. 1 \in 1 .. n
    BY <1>1, <1>3
  <2>2. gList[1] = Struct(AllAddrs[1], TRUE)
    BY <1>2, <2>1, Zenon
  <2> QED
    BY <2>2, EntryIs, Zenon
<1>5. \A k \in 2 .. n : ~CnAt(k)
  BY DEF CnAt
<1>6. \A k \in 2 .. n : Entry(k) = gList[k]
  <2>1. \A k \in 2 .. n : k \in 1 .. n
    BY <1>1
  <2> QED
    BY <1>2, <1>5, <2>1, EntryIs, Zenon
<1>7. h \in Whole /\ r \in Seq(Whole)
  BY NamedBlocks
<1> HIDE DEF h, r, n
<1>8. l \in Seq(Whole) /\ Len(l) = n /\ l[1] = h /\ \A k \in 2 .. n : l[k] = r[k - 1]
  BY <1>1, <1>3, <1>7
<1>9. ASSUME NEW k \in 2 .. n PROVE r[k - 1] = gList[k]
  <2>1. k - 1 \in 1 .. n - 1 /\ (k - 1) + 1 = k
    BY <1>1
  <2> QED
    BY <1>3, <2>1
<1>10. \A k \in 1 .. n : l[k] = Entry(k)
  <2>1. \A k \in 1 .. n : k = 1 \/ k \in 2 .. n
    BY <1>1
  <2> HIDE DEF l
  <2> QED
    BY <1>4, <1>6, <1>8, <1>9, <2>1
<1> HIDE DEF l
<1>11. l = [k \in 1 .. n |-> l[k]]
  BY <1>8
<1>12. l = List0
  BY <1>10, <1>11, Zenon DEF List0, n
<1> QED
  BY <1>12 DEF l, h, r

\* The name goes into the first element.
LEMMA ListCanon == GaiHeap /\ GaiList /\ CanonName => GaiList'
<1> SUFFICES ASSUME GaiHeap, GaiList, CanonName PROVE GaiList'
  OBVIOUS
<1>1. gPc = "canon" /\ UNCHANGED <<gImpl, gReq, gSearch, gDouble, gAddrs, gDns, gSvc>>
  BY DEF CanonName
<1>2. /\ gSvc = {} /\ (gImpl # "savecopy" => CheckOf = "ok") /\ (Ordinary => MadeOf(AllAddrs))
      /\ gList \in Seq(Unnamed) /\ gDns \in [{"INET", "INET6"} -> Nat] /\ (gImpl # "libgai" => gList # <<>>)
  BY <1>1 DEF GaiList, PlaceInv, PortInv, GaiHeap, GaiTypes, HeapInv
<1>3. CheckOf' = CheckOf /\ (UnixReq(gReq)' <=> UnixReq(gReq)) /\ (Ordinary' <=> Ordinary) /\ List0' = List0
  BY <1>1, AddrsFrame, ListFrame
<1>4. AllAddrs \in Seq(OneType(gReq.type))
  BY <1>2, AddrsType
<1>5. ASSUME NEW e, e \in {"MEMORY", "NONAME"} \/ (e = "SYSTEM" /\ UnixReq(gReq)), gPc' = "failed", gRc' = e PROVE GaiList'
  BY <1>1, <1>2, <1>5, ListEnds DEF CheckOf
<1>6. ASSUME gPc' = AfterCanon, gRc' = "ok", gList # <<>>, Ordinary => gList' = List0, gList' # <<>> PROVE GaiList'
  <2>1. gPc' \in {"serv", "returned"} /\ (Ordinary => (gPc' = "returned" <=> gReq.serv = "none"))
    BY <1>6 DEF AfterCanon, Ordinary
  <2>a. gPc' = "serv" => gReq'.serv # "none" /\ ~UnixReq(gReq)'
    BY <1>1, <1>3, <1>6 DEF AfterCanon
  <2>2. PlaceInv'
    BY <1>1, <1>2, <1>3, <2>1, <2>a DEF GaiList, PlaceInv
  <2>3. CodeInv'
    BY <1>1, <1>6, <2>1 DEF CodeInv
  <2>4. SearchInv' /\ PortInv'
    BY <1>1, <1>3, <1>6, <2>1 DEF SearchInv, PortInv
  <2> QED
    BY <2>2, <2>3, <2>4 DEF GaiList
<1>7. ASSUME NoName, gList # <<>>, Ordinary => ~CnAt(1) PROVE GaiList'
  <2>1. gPc' = AfterCanon /\ gRc' = "ok" /\ gList' = gList
    BY <1>7 DEF NoName
  <2>2. Ordinary => gList' = List0
    BY <1>2, <1>7, <2>1, NotNamedIs
  <2> QED
    BY <1>6, <1>7, <2>1, <2>2
<1>8. ASSUME NEW live, Named(live), gList # <<>>, Ordinary => CnAt(1) PROVE GaiList'
  <2>1. gPc' = AfterCanon /\ gRc' = "ok" /\ gList' = <<[gList[1] EXCEPT !.cn = TRUE]>> \o Tail(gList)
    BY <1>8, Zenon DEF Named
  <2>2. Ordinary => gList' = List0
    BY <1>2, <1>4, <1>8, <2>1, NamedIs, Zenon
  <2>3. gList' # <<>>
    <3> DEFINE h == [gList[1] EXCEPT !.cn = TRUE]
               r == Tail(gList)
    <3>1. h \in Whole /\ r \in Seq(Whole)
      BY <1>2, <1>8, NamedBlocks
    <3> HIDE DEF h, r
    <3>2. <<h>> \o r # <<>>
      BY <3>1
    <3> QED
      BY <2>1, <3>2, Zenon DEF h, r
  <2> QED
    BY <1>6, <1>8, <2>1, <2>2, <2>3
<1>9. CASE CanonName_libgai
  <2> DEFINE wanted == "CANON" \in gReq.flags /\ gReq.host # "none"
  <2>1. gImpl = "libgai"
    BY <1>9 DEF CanonName_libgai
  <2>2. CnAt(1) <=> wanted
    BY <2>1 DEF CnAt
  <2>3. \/ gPc' = "failed" /\ (gRc' \in {"MEMORY", "NONAME"} \/ (gRc' = "SYSTEM" /\ UnixReq(gReq)))
        \/ gList # <<>> /\ ~wanted /\ NoName
        \/ gList # <<>> /\ wanted /\ \E live : Named(live)
    BY <1>9, Zenon DEF CanonName_libgai, UnixLost, Bad
  <2> HIDE DEF wanted
  <2> QED
    BY <1>5, <1>7, <1>8, <2>2, <2>3
<1>10. CASE CanonName_libfree
  <2>1. gImpl = "libfree"
    BY <1>10 DEF CanonName_libfree
  <2>2. CnAt(1) <=> "CANON" \in gReq.flags
    BY <2>1 DEF CnAt
  <2>3. \/ gPc' = "failed" /\ gRc' = "MEMORY"
        \/ "CANON" \notin gReq.flags /\ NoName
        \/ "CANON" \in gReq.flags /\ \E live : Named(live)
    BY <1>10, Zenon DEF CanonName_libfree, Bad
  <2> QED
    BY <1>2, <1>5, <1>7, <1>8, <2>1, <2>2, <2>3
<1>11. CASE CanonName_old
  <2>1. gImpl = "savecopy" /\ ~Ordinary
    BY <1>11 DEF CanonName_old, Ordinary
  <2>2. \/ gPc' = "failed" /\ gRc' = "MEMORY"
        \/ NoName \/ (\E live : Named(live))
        \/ gPc' = "crashed"
    BY <1>11, Zenon DEF CanonName_old, Bad
  <2>3. CASE gPc' = "crashed"
    BY <1>1, <2>1, <2>3, ListEnds
  <2> QED
    BY <1>2, <1>5, <1>7, <1>8, <2>1, <2>2, <2>3
<1> QED
  BY <1>9, <1>10, <1>11, Zenon DEF CanonName

\* The service is looked up.
LEMMA ListServ == GaiHeap /\ GaiList /\ ServStep => GaiList'
<1> SUFFICES ASSUME GaiHeap, GaiList, ServStep PROVE GaiList'
  OBVIOUS
<1>1. /\ gPc = "serv" /\ gPc' = "port" /\ gRc' = "none" /\ UNCHANGED <<gImpl, gReq, gSearch, gDouble, gAddrs, gList, gDns>>
      /\ (gReq.serv # "name" => gSvc' = {})
  <2>1. gSvc' \in (IF gReq.serv = "name" THEN SUBSET {"STREAM", "DGRAM"} ELSE {{}})
    BY Zenon DEF ServStep
  <2> QED
    BY <2>1 DEF ServStep
<1>2. (gImpl # "savecopy" => CheckOf = "ok") /\ (Ordinary => gList = List0 /\ gReq.serv # "none")
  BY <1>1 DEF GaiList, PlaceInv, PortInv
<1>3. CheckOf' = CheckOf /\ (UnixReq(gReq)' <=> UnixReq(gReq)) /\ (Ordinary' <=> Ordinary) /\ List0' = List0
  BY <1>1, AddrsFrame, ListFrame
<1>4. PlaceInv'
  BY <1>1, <1>2, <1>3 DEF GaiList, PlaceInv
<1>5. CodeInv'
  BY <1>1 DEF CodeInv
<1>6. Ordinary => gTodo' = TypesTodo'
  <2>1. SUFFICES ASSUME Ordinary PROVE gTodo' = TypesTodo'
    OBVIOUS
  <2>2. TypesTodo' = IF gReq.serv = "13" /\ gReq.type # "0" THEN <<gReq.type>>
                     ELSE IF gReq.serv = "13" /\ gImpl = "libgai" THEN <<"STREAM", "DGRAM">> ELSE ByName(gSvc)'
    BY <1>1, Zenon DEF TypesTodo
  <2>3. ByName(gSvc)' = ByName(gSvc')
    BY <1>1, Zenon DEF ByName
  <2>4. CASE ga_serv
    <3>1. gImpl = "libgai" /\ gTodo' = IF gReq.serv # "13" THEN ByName(gSvc')
                                      ELSE IF gReq.type # "0" THEN <<gReq.type>> ELSE <<"STREAM", "DGRAM">>
      BY <2>4, Zenon DEF ga_serv
    <3> QED
      BY <2>2, <2>3, <3>1, Zenon
  <2>5. CASE gImpl = "libfree" /\ getaddrinfo_serv
    <3>1. gTodo' = IF gReq.serv = "13" /\ gReq.type # "0" THEN <<gReq.type>> ELSE ByName(gSvc')
      BY <2>5, Zenon DEF getaddrinfo_serv
    <3>2. gImpl # "libgai"
      BY <2>5
    <3> QED
      BY <2>2, <2>3, <3>1, <3>2, Zenon
  <2> QED
    BY <2>1, <2>4, <2>5, Zenon DEF ServStep, Ordinary
<1>7. SearchInv' /\ PortInv'
  BY <1>1, <1>2, <1>3, <1>6 DEF SearchInv, PortInv
<1> QED
  BY <1>4, <1>5, <1>7 DEF GaiList

-----------------------------------------------------------------------------
(* getaddrinfo(): the passes of ga_port()                                   *)

\* Sequences of up to two elements.
LEMMA JoinTwo ==
    ASSUME NEW a, NEW b
    PROVE  /\ <<a>> \o <<b>> = <<a, b>> /\ <<>> \o <<b>> = <<b>> /\ <<a>> \o <<>> = <<a>>
<1> DEFINE S == {a, b}
<1>0. a \in S /\ b \in S
  OBVIOUS
<1> HIDE DEF S
<1>1. <<a>> \in Seq(S) /\ <<b>> \in Seq(S)
  BY <1>0
<1>2. <<a>> \o <<b>> = Append(<<a>>, b)
  BY <1>0, <1>1, AppendIsConcat
<1>3. <<a>> \o <<b>> = <<a, b>>
  BY <1>2, AppendSecond
<1>4. \A s \in Seq(S) : <<>> \o s = s /\ s \o <<>> = s
  OBVIOUS
<1> QED
  BY <1>1, <1>3, <1>4

Singles(f) == [k \in 1 .. Len(f) |-> <<f[k]>>]

\* A flattened sequence of sequences of one element each is the sequence of the elements.
LEMMA FlattenSingles ==
    ASSUME NEW S, NEW f \in Seq(S)
    PROVE  FlattenSeq(Singles(f)) = f
<1> DEFINE n == Len(f)
<1>0. n \in Nat /\ (\A k \in 1 .. n : f[k] \in S) /\ f = [k \in 1 .. n |-> f[k]]
  OBVIOUS
<1> SUFFICES FlattenSeq([k \in 1 .. n |-> <<f[k]>>]) = [k \in 1 .. n |-> f[k]]
  BY <1>0, Zenon DEF Singles
<1> HIDE DEF n
<1> DEFINE A(m) == [k \in 1 .. m |-> <<f[k]>>]
           B(m) == [k \in 1 .. m |-> f[k]]
           Off == {m \in 0 .. n : FlattenSeq(A(m)) # B(m)}
<1>1. Off \subseteq Nat
  BY <1>0
<1>2. SUFFICES ASSUME Off # {} PROVE FALSE
  <2>1. n \in 0 .. n
    BY <1>0
  <2> QED
    BY <2>1, Zenon
<1>3. PICK x \in Off : \A y \in Off : x <= y
  BY <1>1, <1>2, LeastOf
<1>4. x \in 0 .. n /\ x \in Nat /\ FlattenSeq(A(x)) # B(x)
  BY <1>0, <1>3
<1>5. x # 0
  <2>1. A(0) = <<>> /\ B(0) = <<>>
    OBVIOUS
  <2> QED
    BY <1>4, <2>1, FlattenEmpty, Zenon
<1> DEFINE w == x - 1
<1>6. w \in Nat /\ w \in 0 .. n /\ w + 1 = x /\ ~(x <= w) /\ w + 1 \in 1 .. n
  BY <1>0, <1>4, <1>5
<1> HIDE DEF w, A, B
<1>7. FlattenSeq(A(w)) = B(w)
  <2>1. w \notin Off
    BY <1>3, <1>6
  <2> QED
    BY <1>6, <2>1
<1>8. \A k \in 1 .. w + 1 : f[k] \in S
  BY <1>0, <1>4, <1>6
<1>9. B(w) \in Seq(S) /\ B(w + 1) = Append(B(w), f[w + 1])
  BY <1>6, <1>8, MapAppend DEF B
<1>10. A(w) \in Seq(Seq(S)) /\ A(w + 1) = Append(A(w), <<f[w + 1]>>)
  <2> DEFINE g == [k \in 1 .. w + 1 |-> <<f[k]>>]
  <2>1. \A k \in 1 .. w + 1 : g[k] \in Seq(S)
    BY <1>8
  <2>2. w + 1 \in 1 .. w + 1 /\ \A k \in 1 .. w : k \in 1 .. w + 1
    BY <1>6
  <2>3. A(w) = [k \in 1 .. w |-> g[k]] /\ A(w + 1) = [k \in 1 .. w + 1 |-> g[k]] /\ g[w + 1] = <<f[w + 1]>>
    BY <2>2, Zenon DEF A
  <2> HIDE DEF g
  <2>4. /\ [k \in 1 .. w |-> g[k]] \in Seq(Seq(S))
        /\ [k \in 1 .. w + 1 |-> g[k]] = Append([k \in 1 .. w |-> g[k]], g[w + 1])
    BY <1>6, <2>1, MapAppend
  <2> QED
    BY <2>3, <2>4, Zenon
<1>11. f[w + 1] \in S /\ <<f[w + 1]>> \in Seq(S)
  BY <1>6, <1>8
<1>12. FlattenSeq(A(w + 1)) = FlattenSeq(A(w)) \o <<f[w + 1]>>
  BY <1>10, <1>11, FlattenAppend
<1>13. B(w) \o <<f[w + 1]>> = Append(B(w), f[w + 1])
  BY <1>9, <1>11, AppendIsConcat
<1> QED
  BY <1>4, <1>6, <1>7, <1>9, <1>12, <1>13, Zenon

Images(G, f) == [k \in 1 .. Len(f) |-> Image(G, f[k])]

\* Applying G to the elements commutes with flattening.
LEMMA FlattenMap ==
    ASSUME NEW S, NEW T, NEW G, \A z \in S : G[z] \in T, NEW f \in Seq(Seq(S))
    PROVE  Image(G, FlattenSeq(f)) = FlattenSeq(Images(G, f))
<1> DEFINE n == Len(f)
<1>0. n \in Nat /\ (\A k \in 1 .. n : f[k] \in Seq(S)) /\ f = [k \in 1 .. n |-> f[k]]
  OBVIOUS
<1> SUFFICES Image(G, FlattenSeq([k \in 1 .. n |-> f[k]])) = FlattenSeq([k \in 1 .. n |-> Image(G, f[k])])
  BY <1>0, Zenon DEF Images
<1> HIDE DEF n
<1> DEFINE A(m) == [k \in 1 .. m |-> f[k]]
           B(m) == [k \in 1 .. m |-> Image(G, f[k])]
           Off == {m \in 0 .. n : Image(G, FlattenSeq(A(m))) # FlattenSeq(B(m))}
<1>1. Off \subseteq Nat
  BY <1>0
<1>2. SUFFICES ASSUME Off # {} PROVE FALSE
  <2>1. n \in 0 .. n
    BY <1>0
  <2> QED
    BY <2>1, Zenon
<1>3. PICK x \in Off : \A y \in Off : x <= y
  BY <1>1, <1>2, LeastOf
<1>4. x \in 0 .. n /\ x \in Nat /\ Image(G, FlattenSeq(A(x))) # FlattenSeq(B(x))
  BY <1>0, <1>3
<1>5. x # 0
  <2>1. A(0) = <<>> /\ B(0) = <<>>
    OBVIOUS
  <2>2. Image(G, <<>>) = <<>>
    BY DEF Image
  <2> QED
    BY <1>4, <2>1, <2>2, FlattenEmpty, Zenon
<1> DEFINE w == x - 1
<1>6. w \in Nat /\ w \in 0 .. n /\ w + 1 = x /\ ~(x <= w) /\ w + 1 \in 1 .. n
  BY <1>0, <1>4, <1>5
<1> HIDE DEF w, A, B
<1>7. Image(G, FlattenSeq(A(w))) = FlattenSeq(B(w))
  <2>1. w \notin Off
    BY <1>3, <1>6
  <2> QED
    BY <1>6, <2>1
<1>8. \A k \in 1 .. w + 1 : f[k] \in Seq(S)
  BY <1>0, <1>4, <1>6
<1>9. A(w) \in Seq(Seq(S)) /\ A(w + 1) = Append(A(w), f[w + 1])
  BY <1>6, <1>8, MapAppend DEF A
<1>10. B(w) \in Seq(Seq(T)) /\ B(w + 1) = Append(B(w), Image(G, f[w + 1]))
  <2> DEFINE g == [k \in 1 .. w + 1 |-> Image(G, f[k])]
  <2>1. \A k \in 1 .. w + 1 : g[k] \in Seq(T)
    BY <1>8, ImageType, Zenon
  <2>2. w + 1 \in 1 .. w + 1 /\ \A k \in 1 .. w : k \in 1 .. w + 1
    BY <1>6
  <2>3. B(w) = [k \in 1 .. w |-> g[k]] /\ B(w + 1) = [k \in 1 .. w + 1 |-> g[k]] /\ g[w + 1] = Image(G, f[w + 1])
    BY <2>2, Zenon DEF B
  <2> HIDE DEF g
  <2>4. /\ [k \in 1 .. w |-> g[k]] \in Seq(Seq(T))
        /\ [k \in 1 .. w + 1 |-> g[k]] = Append([k \in 1 .. w |-> g[k]], g[w + 1])
    BY <1>6, <2>1, MapAppend
  <2> QED
    BY <2>3, <2>4, Zenon
<1>11. f[w + 1] \in Seq(S) /\ Image(G, f[w + 1]) \in Seq(T)
  <2>1. f[w + 1] \in Seq(S)
    BY <1>6, <1>8
  <2> QED
    BY <2>1, ImageType, Zenon
<1>12. FlattenSeq(A(w + 1)) = FlattenSeq(A(w)) \o f[w + 1] /\ FlattenSeq(A(w)) \in Seq(S)
  BY <1>9, <1>11, FlattenAppend, FlattenType
<1>13. FlattenSeq(B(w + 1)) = FlattenSeq(B(w)) \o Image(G, f[w + 1])
  BY <1>10, <1>11, FlattenAppend
<1>14. Image(G, FlattenSeq(A(w)) \o f[w + 1]) = Image(G, FlattenSeq(A(w))) \o Image(G, f[w + 1])
  BY <1>11, <1>12, ImageConcat, ZenonT(90)
<1> QED
  BY <1>4, <1>6, <1>7, <1>12, <1>13, <1>14, Zenon

\* The elements of the list before and after the passes of ga_port().
LEMMA EntryFacts ==
    ASSUME AllAddrs \in Seq(OneType(gReq.type)), gReq.type \in SockTypes, NEW k \in 1 .. Len(AllAddrs)
    PROVE  /\ Entry(k) \in Whole /\ Entry(k).fam = AllAddrs[k][1] /\ Entry(k).id = AllAddrs[k][2] /\ Entry(k).type = gReq.type
           /\ Entry(k).port = "none" /\ (Entry(k).cn <=> CnAt(k)) /\ Entry(k).cn \in BOOLEAN
           /\ Entry(k).clone \in BOOLEAN /\ (Entry(k).clone <=> gReq.type = "0")
           /\ AllAddrs[k] = <<AllAddrs[k][1], AllAddrs[k][2], gReq.type>>
<1> DEFINE a == AllAddrs[k]
           e == Struct(a, TRUE)
<1>1. a \in OneType(gReq.type)
  OBVIOUS
<1>2. a[1] \in {"INET", "INET6"} /\ a[2] \in Nat /\ a[3] = gReq.type /\ a \in Addresses /\ a = <<a[1], a[2], gReq.type>>
  BY <1>1 DEF OneType, Addresses
<1> HIDE DEF a
<1>3. e \in Unnamed
  BY <1>2, StructType
<1>4. /\ e.fam = a[1] /\ e.id = a[2] /\ e.type = gReq.type /\ e.port = "none" /\ e.cn = FALSE /\ e.sa = TRUE
      /\ (e.clone <=> gReq.type = "0")
  BY <1>2 DEF Struct
<1>5. Entry(k) = e \/ Entry(k) = [e EXCEPT !.cn = TRUE]
  BY Zenon DEF Entry, a
<1>6. CASE CnAt(k)
  <2>1. Entry(k) = [e EXCEPT !.cn = TRUE]
    BY <1>6, EntryIs DEF a
  <2> HIDE DEF e
  <2>2. e \in AddrInfos
    BY <1>3 DEF Unnamed, Whole
  <2>3. /\ Entry(k) \in AddrInfos /\ Entry(k).fam = e.fam /\ Entry(k).id = e.id /\ Entry(k).type = e.type /\ Entry(k).port = e.port
        /\ Entry(k).cn = TRUE /\ Entry(k).sa = e.sa /\ Entry(k).clone = e.clone /\ e.clone \in BOOLEAN
    BY <2>1, <2>2 DEF AddrInfos
  <2>4. Entry(k) \in Whole
    BY <1>4, <2>3 DEF Whole
  <2> QED
    BY <1>2, <1>4, <1>6, <2>3, <2>4 DEF a
<1>7. CASE ~CnAt(k)
  <2>1. Entry(k) = e
    BY <1>7, EntryIs DEF a
  <2> HIDE DEF e
  <2>2. e \in Whole /\ e.clone \in BOOLEAN
    BY <1>3 DEF Unnamed, Whole, AddrInfos
  <2> QED
    BY <1>2, <1>4, <1>7, <2>1, <2>2 DEF a
<1> QED
  BY <1>6, <1>7

\* The ports an element may have.
LEMMA PortOfType ==
    ASSUME NEW t \in SockTypes
    PROVE  PortOf(t) \in GaiPorts
BY DEF PortOf, GaiPorts

\* An element after the first pass.
LEMMA FirstFacts ==
    ASSUME AllAddrs \in Seq(OneType(gReq.type)), gReq.type \in SockTypes, NEW k \in 1 .. Len(AllAddrs), NEW t \in SockTypes
    PROVE  /\ Passed1(k, t) \in Whole /\ Passed1(k, t).fam = AllAddrs[k][1] /\ Passed1(k, t).id = AllAddrs[k][2]
           /\ Passed1(k, t).type = t /\ Passed1(k, t).port = PortOf(t) /\ (Passed1(k, t).cn <=> CnAt(k)) /\ Passed1(k, t).cn \in BOOLEAN
           /\ Passed1(k, t).clone \in BOOLEAN /\ (Passed1(k, t).clone <=> gReq.type = "0")
<1> DEFINE e == Entry(k)
           f == Passed1(k, t)
           p == PortOf(t)
<1>1. f = [e EXCEPT !.type = t, !.port = p]
  BY Zenon DEF Passed1
<1>2. /\ e \in Whole /\ e.fam = AllAddrs[k][1] /\ e.id = AllAddrs[k][2] /\ (e.cn <=> CnAt(k)) /\ e.cn \in BOOLEAN
      /\ e.clone \in BOOLEAN /\ (e.clone <=> gReq.type = "0")
  BY EntryFacts
<1>3. p \in GaiPorts
  BY PortOfType
<1> HIDE DEF e, f, p
<1>4. e \in AddrInfos /\ (e.clone => e.sa)
  BY <1>2 DEF Whole
<1>5. /\ f \in AddrInfos /\ f.fam = e.fam /\ f.id = e.id /\ f.type = t /\ f.port = p /\ f.cn = e.cn /\ f.sa = e.sa /\ f.clone = e.clone
  BY <1>1, <1>3, <1>4 DEF AddrInfos, GaiPorts
<1>6. f \in Whole
  BY <1>4, <1>5 DEF Whole
<1> QED
  BY <1>2, <1>5, <1>6 DEF f, p

\* Its clone after the second pass.
LEMMA SecondFacts ==
    ASSUME AllAddrs \in Seq(OneType(gReq.type)), gReq.type \in SockTypes, NEW k \in 1 .. Len(AllAddrs),
           NEW t \in SockTypes, NEW u \in SockTypes
    PROVE  /\ Passed2(k, t, u) \in Whole /\ Passed2(k, t, u).fam = AllAddrs[k][1] /\ Passed2(k, t, u).id = AllAddrs[k][2]
           /\ Passed2(k, t, u).type = u /\ Passed2(k, t, u).port = PortOf(u) /\ Passed2(k, t, u).cn = FALSE
<1> DEFINE f == Passed1(k, t)
           s == Passed2(k, t, u)
           p == PortOf(u)
<1>1. s = [[f EXCEPT !.cn = FALSE, !.port = "none", !.clone = FALSE] EXCEPT !.type = u, !.port = p]
  BY Zenon DEF Passed2, ga_clone
<1>2. f \in Whole /\ f.fam = AllAddrs[k][1] /\ f.id = AllAddrs[k][2]
  BY FirstFacts
<1>3. p \in GaiPorts
  BY PortOfType
<1> HIDE DEF f, s, p
<1>4. f \in AddrInfos
  BY <1>2 DEF Whole
<1>5. /\ s \in AddrInfos /\ s.fam = f.fam /\ s.id = f.id /\ s.type = u /\ s.port = p /\ s.cn = FALSE /\ s.clone = FALSE
  BY <1>1, <1>3, <1>4 DEF AddrInfos, GaiPorts
<1>6. s \in Whole
  BY <1>5 DEF Whole
<1> QED
  BY <1>2, <1>5, <1>6 DEF s, p

\* The first pass fills the elements in.
LEMMA FirstPass ==
    ASSUME AllAddrs \in Seq(OneType(gReq.type)), gReq.type \in SockTypes, NEW t \in SockTypes,
           gReq.type = "0" \/ t = gReq.type, gReq.serv # "none"
    PROVE  PortedUpto(Len(List0), IF gReq.serv = "13" THEN "13" ELSE t, t, List0) = List1(t)
<1> DEFINE n == Len(AllAddrs)
           p == IF gReq.serv = "13" THEN "13" ELSE t
<1>1. n \in Nat /\ Len(List0) = n /\ \A k \in 1 .. n : List0[k] = Entry(k)
  <2>1. n \in Nat
    OBVIOUS
  <2> QED
    BY <2>1 DEF List0
<1>2. p = PortOf(t)
  BY DEF PortOf
<1> HIDE DEF p
<1>3. ASSUME NEW k \in 1 .. n PROVE Ported(List0[k], p, t) = <<Passed1(k, t)>>
  <2>1. List0[k] = Entry(k) /\ Entry(k).type = gReq.type /\ Entry(k).clone \in BOOLEAN /\ (Entry(k).clone <=> gReq.type = "0")
    BY <1>1, <1>3, EntryFacts
  <2>2. ~NeedsClone(Entry(k)) /\ ~(~Entry(k).clone /\ Entry(k).type # t)
    BY <2>1 DEF NeedsClone
  <2>3. Ported(Entry(k), p, t) = <<[Entry(k) EXCEPT !.type = t, !.port = p]>>
    BY <2>2, Zenon DEF Ported
  <2> QED
    BY <1>2, <2>1, <2>3, Zenon DEF Passed1
<1>4. PortedUpto(n, p, t, List0) = FlattenSeq([k \in 1 .. n |-> <<Passed1(k, t)>>])
  BY <1>3, Zenon DEF PortedUpto
<1> DEFINE L == List1(t)
<1>5. L \in Seq(Whole) /\ Len(L) = n /\ \A k \in 1 .. n : L[k] = Passed1(k, t)
  <2>1. \A k \in 1 .. n : Passed1(k, t) \in Whole
    BY FirstFacts
  <2>2. n \in Nat
    BY <1>1
  <2> HIDE DEF n
  <2> QED
    BY <2>1, <2>2 DEF List1, n
<1> HIDE DEF L
<1>6. FlattenSeq(Singles(L)) = L
  BY <1>5, FlattenSingles, Zenon
<1>7. Singles(L) = [k \in 1 .. n |-> <<Passed1(k, t)>>]
  BY <1>5, Zenon DEF Singles
<1> QED
  BY <1>1, <1>4, <1>6, <1>7, Zenon DEF p, L

\* The second pass adds a clone to each of them.
LEMMA SecondPass ==
    ASSUME AllAddrs \in Seq(OneType(gReq.type)), gReq.type \in SockTypes, NEW t \in SockTypes, t # "0", NEW u \in SockTypes,
           gReq.type = "0", gReq.serv # "none"
    PROVE  PortedUpto(Len(List1(t)), IF gReq.serv = "13" THEN "13" ELSE u, u, List1(t)) = List2(t, u)
<1> DEFINE n == Len(AllAddrs)
           p == IF gReq.serv = "13" THEN "13" ELSE u
<1>1. n \in Nat /\ Len(List1(t)) = n /\ \A k \in 1 .. n : List1(t)[k] = Passed1(k, t)
  <2>1. n \in Nat
    OBVIOUS
  <2> QED
    BY <2>1 DEF List1
<1>2. p = PortOf(u)
  BY DEF PortOf
<1> HIDE DEF p
<1>3. ASSUME NEW k \in 1 .. n PROVE Ported(List1(t)[k], p, u) = <<Passed1(k, t), Passed2(k, t, u)>>
  <2>1. List1(t)[k] = Passed1(k, t) /\ Passed1(k, t).type = t /\ Passed1(k, t).clone
    BY <1>1, <1>3, FirstFacts
  <2>2. NeedsClone(Passed1(k, t))
    BY <2>1 DEF NeedsClone
  <2>3. Ported(Passed1(k, t), p, u) = <<Passed1(k, t), [ga_clone(Passed1(k, t)) EXCEPT !.type = u, !.port = p]>>
    BY <2>2, Zenon DEF Ported
  <2> QED
    BY <1>2, <2>1, <2>3, Zenon DEF Passed2
<1>4. PortedUpto(n, p, u, List1(t)) = FlattenSeq([k \in 1 .. n |-> <<Passed1(k, t), Passed2(k, t, u)>>])
  BY <1>3, Zenon DEF PortedUpto
<1> QED
  BY <1>1, <1>4, Zenon DEF p, List2

\* What ga_serv() passes on are the types wanted, or none.
LEMMA TodoFacts ==
    ASSUME gReq \in Requests, gSvc \subseteq {"STREAM", "DGRAM"}, gReq.serv # "name" => gSvc = {}, gReq.serv # "none"
    PROVE  /\ \/ TypesTodo = <<>>
              \/ TypesTodo = TypesWanted /\ \E t \in SockTypes : TypesTodo = <<t>> /\ (gReq.type = "0" \/ t = gReq.type)
              \/ TypesTodo = TypesWanted /\ TypesTodo = <<"STREAM", "DGRAM">> /\ gReq.type = "0"
           /\ gReq.type = "0" /\ gSvc # {} => TypesTodo # <<>>
           /\ gReq.type \in {"STREAM", "DGRAM"} /\ gReq.serv = "name" /\ gReq.type \notin gSvc => TypesTodo = <<>>
           /\ gReq.serv = "name" /\ gSvc = {} => TypesTodo = <<>>
<1>1. gReq.type \in SockTypes /\ "STREAM" \in SockTypes /\ "DGRAM" \in SockTypes
  BY ReqFacts DEF SockTypes
<1> DEFINE x == IF gReq.type \in {"0", "STREAM"} /\ "STREAM" \in gSvc THEN <<"STREAM">> ELSE <<>>
           y == IF gReq.type \in {"0", "DGRAM"} /\ "DGRAM" \in gSvc THEN <<"DGRAM">> ELSE <<>>
<1>2. ByName(gSvc) = x \o y
  BY Zenon DEF ByName
<1>3. <<"STREAM">> \o <<"DGRAM">> = <<"STREAM", "DGRAM">> /\ <<>> \o <<"DGRAM">> = <<"DGRAM">> /\ <<"STREAM">> \o <<>> = <<"STREAM">>
      /\ <<>> \o <<>> = <<>>
  BY JoinTwo
<1>4. CASE gReq.serv = "13" /\ gReq.type # "0"
  <2>1. TypesTodo = <<gReq.type>> /\ TypesWanted = <<gReq.type>>
    BY <1>4, Zenon DEF TypesTodo, TypesWanted
  <2> QED
    BY <1>1, <1>4, <2>1
<1>5. CASE gReq.serv = "13" /\ gReq.type = "0"
  <2>1. TypesWanted = <<"STREAM", "DGRAM">>
    BY <1>3, <1>5, Zenon DEF TypesWanted
  <2>2. gSvc = {}
    BY <1>5
  <2>3. ByName(gSvc) = <<>>
    BY <1>2, <1>3, <2>2, Zenon
  <2>4. TypesTodo = <<"STREAM", "DGRAM">> \/ TypesTodo = <<>>
    BY <1>5, <2>3, Zenon DEF TypesTodo
  <2> QED
    BY <1>5, <2>1, <2>2, <2>4
<1>6. CASE gReq.serv # "13"
  <2>1. TypesTodo = x \o y
    BY <1>2, <1>6, Zenon DEF TypesTodo
  <2>2. CASE gReq.type = "0"
    <3>1. TypesWanted = (IF "STREAM" \in gSvc THEN <<"STREAM">> ELSE <<>>) \o (IF "DGRAM" \in gSvc THEN <<"DGRAM">> ELSE <<>>)
      BY <1>6, <2>2, Zenon DEF TypesWanted
    <3>2. TypesTodo = (IF "STREAM" \in gSvc THEN <<"STREAM">> ELSE <<>>) \o (IF "DGRAM" \in gSvc THEN <<"DGRAM">> ELSE <<>>)
      BY <2>1, <2>2
    <3>3. CASE "STREAM" \in gSvc /\ "DGRAM" \in gSvc
      <4>1. TypesTodo = <<"STREAM", "DGRAM">> /\ TypesWanted = <<"STREAM", "DGRAM">>
        BY <1>3, <3>1, <3>2, <3>3, Zenon
      <4>2. <<"STREAM", "DGRAM">> # <<>>
        OBVIOUS
      <4> QED
        BY <2>2, <3>3, <4>1, <4>2
    <3>4. CASE "STREAM" \in gSvc /\ "DGRAM" \notin gSvc
      <4>1. TypesTodo = <<"STREAM">> /\ TypesWanted = <<"STREAM">>
        BY <1>3, <3>1, <3>2, <3>4, Zenon
      <4>2. <<"STREAM">> # <<>>
        OBVIOUS
      <4> QED
        BY <1>1, <2>2, <3>4, <4>1, <4>2
    <3>5. CASE "STREAM" \notin gSvc /\ "DGRAM" \in gSvc
      <4>1. TypesTodo = <<"DGRAM">> /\ TypesWanted = <<"DGRAM">>
        BY <1>3, <3>1, <3>2, <3>5, Zenon
      <4>2. <<"DGRAM">> # <<>>
        OBVIOUS
      <4> QED
        BY <1>1, <2>2, <3>5, <4>1, <4>2
    <3>6. CASE "STREAM" \notin gSvc /\ "DGRAM" \notin gSvc
      <4>1. TypesTodo = <<>>
        BY <1>3, <3>2, <3>6, Zenon
      <4>2. gSvc = {}
        BY <3>6
      <4> QED
        BY <4>1, <4>2
    <3> QED
      BY <3>3, <3>4, <3>5, <3>6
  <2>3. CASE gReq.type # "0"
    <3>1. TypesWanted = <<gReq.type>>
      BY <2>3, Zenon DEF TypesWanted
    <3>2. CASE gReq.type = "STREAM" /\ "STREAM" \in gSvc
      <4>1. TypesTodo = <<"STREAM">>
        BY <1>3, <2>1, <3>2
      <4> QED
        BY <1>1, <2>3, <3>1, <3>2, <4>1
    <3>3. CASE gReq.type = "DGRAM" /\ "DGRAM" \in gSvc
      <4>1. TypesTodo = <<"DGRAM">>
        BY <1>3, <2>1, <3>3
      <4> QED
        BY <1>1, <2>3, <3>1, <3>3, <4>1
    <3>4. CASE ~(gReq.type = "STREAM" /\ "STREAM" \in gSvc) /\ ~(gReq.type = "DGRAM" /\ "DGRAM" \in gSvc)
      <4>1. TypesTodo = <<>>
        BY <1>3, <2>1, <2>3, <3>4
      <4> QED
        BY <2>3, <4>1
    <3> QED
      BY <3>2, <3>3, <3>4
  <2> QED
    BY <2>2, <2>3
<1> QED
  BY <1>4, <1>5, <1>6

\* The types still to be passed on, split at the first.
LEMMA HeadOfOne == ASSUME NEW t PROVE Head(<<t>>) = t /\ Tail(<<t>>) = <<>>
OBVIOUS

\* Likewise for two.
LEMMA HeadOfTwo == ASSUME NEW t, NEW u PROVE Head(<<t, u>>) = t /\ Tail(<<t, u>>) = <<u>>
OBVIOUS

\* Arithmetic.
LEMMA TwoLessOne == ASSUME NEW a \in Nat, 2 = 1 + a PROVE a = 1
OBVIOUS

\* The passes that have been made, and those to come.
PassInv ==
    \/ gTodo = TypesTodo /\ gRc = "none" /\ gList = List0
    \/ \E t \in SockTypes : TypesTodo = <<t>> \o gTodo /\ gRc = "ok" /\ gList = List1(t)
    \/ \E t, u \in SockTypes : TypesTodo = <<t, u>> /\ gTodo = <<>> /\ gRc = "ok" /\ gList = List2(t, u)

\* A pass of ga_port() over the whole list.
LEMMA PortPassed ==
    ASSUME GaiHeap, GaiList, gPc = "port", Ordinary, gReq.serv # "none", PassInv, gTodo # <<>>, gTodo' = Tail(gTodo),
           UNCHANGED <<gImpl, gReq, gDns, gSvc>>, gRc' = "ok",
           gList' = PortedUpto(Len(gList), IF gReq.serv = "13" THEN "13" ELSE Head(gTodo), Head(gTodo), gList)
    PROVE  PassInv'
<1>1. /\ gReq \in Requests /\ gSvc \subseteq {"STREAM", "DGRAM"} /\ (gReq.serv # "name" => gSvc = {})
      /\ gDns \in [{"INET", "INET6"} -> Nat] /\ gReq.type \in SockTypes
  BY ReqFacts DEF GaiHeap, GaiTypes, GaiList, PlaceInv
<1>2. AllAddrs \in Seq(OneType(gReq.type))
  BY <1>1, AddrsType
<1>3. \/ TypesTodo = <<>>
      \/ \E t \in SockTypes : TypesTodo = <<t>> /\ (gReq.type = "0" \/ t = gReq.type)
      \/ TypesTodo = <<"STREAM", "DGRAM">> /\ gReq.type = "0"
  BY <1>1, TodoFacts
<1>4. /\ TypesTodo' = TypesTodo /\ (\A t : List1(t)' = List1(t)) /\ (\A t, u : List2(t, u)' = List2(t, u))
  BY ListFrame
<1>5. "STREAM" \in SockTypes /\ "DGRAM" \in SockTypes
  BY DEF SockTypes
<1>6. CASE gTodo = TypesTodo /\ gList = List0
  <2>1. ASSUME NEW t \in SockTypes, gReq.type = "0" \/ t = gReq.type, Head(gTodo) = t, TypesTodo = <<t>> \o gTodo' PROVE PassInv'
    <3>1. gList' = List1(t)
      BY <1>1, <1>2, <1>6, <2>1, FirstPass
    <3> QED
      BY <1>4, <2>1, <3>1 DEF PassInv
  <2>2. CASE \E t \in SockTypes : TypesTodo = <<t>> /\ (gReq.type = "0" \/ t = gReq.type)
    <3>1. PICK t \in SockTypes : TypesTodo = <<t>> /\ (gReq.type = "0" \/ t = gReq.type)
      BY <2>2
    <3>2. Head(gTodo) = t /\ gTodo' = <<>>
      BY <1>6, <3>1, HeadOfOne
    <3>3. TypesTodo = <<t>> \o gTodo'
      BY <3>1, <3>2, JoinTwo
    <3> QED
      BY <2>1, <3>1, <3>2, <3>3
  <2>3. CASE TypesTodo = <<"STREAM", "DGRAM">> /\ gReq.type = "0"
    <3>1. Head(gTodo) = "STREAM" /\ gTodo' = <<"DGRAM">>
      BY <1>6, <2>3, HeadOfTwo
    <3>2. TypesTodo = <<"STREAM">> \o gTodo'
      BY <2>3, <3>1, JoinTwo
    <3> QED
      BY <1>5, <2>1, <2>3, <3>1, <3>2
  <2> QED
    BY <1>3, <1>6, <2>2, <2>3
<1>7. ASSUME NEW t \in SockTypes, TypesTodo = <<t>> \o gTodo, gList = List1(t) PROVE PassInv'
  <2>1. gTodo \in Seq(SockTypes)
    BY DEF GaiHeap, GaiTypes
  <2>2. Len(TypesTodo) = 1 + Len(gTodo) /\ Len(gTodo) >= 1 /\ \A k \in 1 .. Len(gTodo) : TypesTodo[k + 1] = gTodo[k]
    <3>1. <<t>> \in Seq(SockTypes)
      OBVIOUS
    <3>2. Len(gTodo) >= 1
      BY <2>1
    <3> QED
      BY <1>7, <2>1, <3>1, <3>2
  <2>3. TypesTodo = <<"STREAM", "DGRAM">> /\ gReq.type = "0"
    <3>1. Len(<<>>) = 0 /\ \A v : Len(<<v>>) = 1
      OBVIOUS
    <3>2. Len(TypesTodo) # 0 /\ Len(TypesTodo) # 1
      BY <2>1, <2>2
    <3> QED
      BY <1>3, <3>1, <3>2
  <2>4. TypesTodo[1] = t
    BY <1>7, <2>1
  <2>5. t = "STREAM"
    BY <2>3, <2>4
  <2>6. Len(gTodo) = 1 /\ gTodo[1] = "DGRAM"
    <3>1. Len(TypesTodo) = 2 /\ TypesTodo[2] = "DGRAM"
      BY <2>3
    <3>2. Len(gTodo) = 1
      <4>1. Len(gTodo) \in Nat
        BY <2>1
      <4> QED
        BY <2>2, <3>1, <4>1, TwoLessOne, Zenon
    <3>3. TypesTodo[1 + 1] = gTodo[1]
      BY <2>2, <3>2
    <3> QED
      BY <3>1, <3>2, <3>3
  <2>7. Head(gTodo) = "DGRAM" /\ gTodo' = <<>>
    BY <2>1, <2>6
  <2>8. t # "0" /\ "DGRAM" \in SockTypes
    BY <1>5, <2>5
  <2>9. gList' = List2(t, "DGRAM")
    BY <1>1, <1>2, <1>7, <2>3, <2>7, <2>8, SecondPass
  <2> QED
    BY <1>4, <2>3, <2>5, <2>7, <2>8, <2>9 DEF PassInv
<1> QED
  BY <1>6, <1>7 DEF PassInv

\* One pass of ga_port(), or the part of one up to the allocation that fails.
LEMMA ListPort == GaiHeap /\ GaiList /\ PortStep => GaiList'
<1> SUFFICES ASSUME GaiHeap, GaiList, PortStep PROVE GaiList'
  OBVIOUS
<1>1. /\ gPc = "port" /\ gTodo # <<>> /\ gTodo' = Tail(gTodo)
      /\ UNCHANGED <<gImpl, gReq, gSearch, gDouble, gAddrs, gCanon, gDns, gSvc>>
  BY PortPass
<1>2. \/ /\ gRc' = "ok" /\ gPc' = gPc
         /\ gList' = PortedUpto(Len(gList), IF gReq.serv = "13" THEN "13" ELSE Head(gTodo), Head(gTodo), gList)
      \/ gPc' = "failed" /\ gRc' = "MEMORY"
  <2>1. PICK o : \/ /\ gList' = o.list /\ gLive' = o.live /\ gRc' = "ok" /\ gPc' = gPc
                    /\ o.list = PortedUpto(Len(gList), IF gReq.serv = "13" THEN "13" ELSE Head(gTodo), Head(gTodo), gList)
                 \/ Bad("MEMORY", o.list, o.live)
    BY PortPass, Zenon
  <2> QED
    BY <2>1, Zenon DEF Bad
<1>3. CheckOf' = CheckOf /\ (UnixReq(gReq)' <=> UnixReq(gReq)) /\ (Ordinary' <=> Ordinary)
  BY <1>1, AddrsFrame
<1>4. gImpl # "savecopy" => CheckOf = "ok"
  BY <1>1 DEF GaiList, PlaceInv
<1>5. CASE gPc' = "failed" /\ gRc' = "MEMORY"
  BY <1>1, <1>4, <1>5, ListEnds DEF CheckOf
<1>6. CASE /\ gRc' = "ok" /\ gPc' = gPc
           /\ gList' = PortedUpto(Len(gList), IF gReq.serv = "13" THEN "13" ELSE Head(gTodo), Head(gTodo), gList)
  <2>1. PlaceInv'
    BY <1>1, <1>3, <1>4, <1>6 DEF GaiList, PlaceInv
  <2>2. CodeInv'
    BY <1>1, <1>6 DEF CodeInv
  <2>3. SearchInv'
    BY <1>1, <1>6 DEF SearchInv
  <2>4. PortInv'
    <3>1. CASE ~Ordinary
      BY <1>3, <3>1 DEF PortInv
    <3>2. CASE Ordinary
      <4>1. gReq.serv # "none" /\ PassInv
        BY <1>1, <3>2, Zenon DEF GaiList, PortInv, PassInv
      <4>2. PassInv'
        BY <1>1, <1>6, <3>2, <4>1, PortPassed
      <4>3. gPc' = "port" /\ gReq'.serv # "none"
        BY <1>1, <1>6, <4>1
      <4>4. gPc' # "canon" /\ gPc' # "serv" /\ gPc' # "returned"
        BY <4>3
      <4> QED
        BY <4>2, <4>3, <4>4, Zenon DEF PortInv, PassInv
    <3> QED
      BY <3>1, <3>2
  <2> QED
    BY <2>1, <2>2, <2>3, <2>4 DEF GaiList
<1> QED
  BY <1>2, <1>5, <1>6

\* All the passes are made.
LEMMA ListPortsDone == GaiHeap /\ GaiList /\ PortsDone => GaiList'
<1> SUFFICES ASSUME GaiHeap, GaiList, PortsDone PROVE GaiList'
  OBVIOUS
<1>1. gPc = "port" /\ gTodo = <<>> /\ UNCHANGED <<gImpl, gReq, gSearch, gDouble, gAddrs, gCanon, gDns, gSvc>>
  BY DEF PortsDone
<1>2. CheckOf' = CheckOf /\ (UnixReq(gReq)' <=> UnixReq(gReq)) /\ (Ordinary' <=> Ordinary)
  BY <1>1, AddrsFrame
<1>3. /\ gReq \in Requests /\ gSvc \subseteq {"STREAM", "DGRAM"} /\ (gReq.serv # "name" => gSvc = {})
      /\ (gImpl # "savecopy" => CheckOf = "ok") /\ (Ordinary => gReq.serv # "none" /\ PassInv)
  BY <1>1 DEF GaiHeap, GaiTypes, GaiList, PlaceInv, PortInv, PassInv
<1>4. CASE gRc = "ok"
  <2>1. gPc' = "returned" /\ gRc' = gRc /\ gList' = gList
    BY <1>4 DEF PortsDone
  <2>2. PlaceInv'
    BY <1>1, <1>2, <1>3, <2>1 DEF GaiList, PlaceInv
  <2>3. gImpl = "libgai" => gReq.serv # "none"
    BY <1>1 DEF GaiList, PlaceInv
  <2>4. CodeInv'
    BY <1>1, <1>4, <2>1, <2>3 DEF CodeInv
  <2>5. SearchInv'
    BY <2>1 DEF SearchInv
  <2>6. PortInv'
    <3>1. CASE ~Ordinary
      BY <1>2, <3>1 DEF PortInv
    <3>2. CASE Ordinary
      <4>1. /\ TypesTodo' = TypesTodo /\ (\A t : List1(t)' = List1(t)) /\ (\A t, u : List2(t, u)' = List2(t, u))
        BY <1>1, ListFrame
      <4>2. \/ \E t \in SockTypes : TypesTodo = <<t>> /\ gList = List1(t)
            \/ \E t, u \in SockTypes : TypesTodo = <<t, u>> /\ gList = List2(t, u)
        <5>1. gRc # "none"
          BY <1>4
        <5>2. \A t : <<t>> \o gTodo = <<t>>
          BY <1>1, JoinTwo
        <5> QED
          BY <1>3, <3>2, <5>1, <5>2 DEF PassInv
      <4>3. gReq'.serv # "none" /\ gPc' = "returned" /\ gPc' # "canon" /\ gPc' # "serv" /\ gPc' # "port"
        BY <1>1, <1>3, <2>1, <3>2
      <4> QED
        BY <2>1, <4>1, <4>2, <4>3, Zenon DEF PortInv
    <3> QED
      BY <3>1, <3>2
  <2> QED
    BY <2>2, <2>4, <2>5, <2>6 DEF GaiList
<1>5. CASE gRc # "ok"
  <2>1. gPc' = "failed" /\ gRc' = IF gReq.type = "0" THEN "NONAME" ELSE "SERVICE"
    BY <1>5 DEF PortsDone, Bad
  <2>2. gImpl = "libgai" => ga_echeck(gReq) = "ok"
    BY <1>3 DEF CheckOf
  <2>3. Ordinary /\ gReq.type = "0" => gSvc = {}
    <3>1. Ordinary => TypesTodo = <<>>
      BY <1>1, <1>3, <1>5 DEF PassInv
    <3>2. Ordinary /\ gReq.type = "0" /\ gSvc # {} => TypesTodo # <<>>
      BY <1>3, TodoFacts
    <3> QED
      BY <3>1, <3>2
  <2>4. gImpl = "libgai" => Ordinary
    BY <1>1 DEF GaiList, PlaceInv, Ordinary
  <2> QED
    BY <1>1, <2>1, <2>2, <2>3, <2>4, ListEnds
<1> QED
  BY <1>4, <1>5

-----------------------------------------------------------------------------
(* getaddrinfo(): every step, and the result                                *)

\* Nothing happens.
LEMMA ListStutters == GaiHeap /\ GaiList /\ UNCHANGED gaiVars => GaiList'
<1> SUFFICES ASSUME GaiHeap, GaiList, UNCHANGED gaiVars PROVE GaiList'
  OBVIOUS
<1>1. UNCHANGED <<gImpl, gPc, gReq, gSearch, gDouble, gAddrs, gList, gCanon, gTodo, gDns, gSvc, gRc>>
  BY DEF gaiVars
<1>2. CheckOf' = CheckOf /\ (UnixReq(gReq)' <=> UnixReq(gReq)) /\ (Ordinary' <=> Ordinary) /\ AllAddrs' = AllAddrs
      /\ Searches' = Searches /\ \A f : AddrsOf(f)' = AddrsOf(f)
  BY <1>1, AddrsFrame
<1>3. /\ List0' = List0 /\ (\A t : List1(t)' = List1(t)) /\ (\A t, u : List2(t, u)' = List2(t, u)) /\ TypesTodo' = TypesTodo
  BY <1>1, ListFrame
<1>4. \A src : MadeOf(src)' <=> MadeOf(src)
  BY <1>1, Zenon DEF MadeOf
<1>5. PlaceInv'
  BY <1>1, <1>2, Zenon DEF GaiList, PlaceInv
<1>6. CodeInv'
  BY <1>1, <1>2, Zenon DEF GaiList, CodeInv, ga_echeck, FamilyCheck
<1>7. SearchInv'
  <2>1. \A src : SearchedFor(src)' <=> SearchedFor(src)
    BY <1>1, <1>2, Zenon DEF SearchedFor
  <2>2. SearchInv
    BY DEF GaiList
  <2> QED
    BY <1>1, <1>2, <1>4, <2>1, <2>2, SearchInvIs, Zenon
<1>8. PortInv'
  <2>1. MadeOf(AllAddrs)' <=> MadeOf(AllAddrs)
    BY <1>1, <1>2, Zenon DEF MadeOf
  <2> QED
    BY <1>1, <1>2, <1>3, <2>1, Zenon DEF GaiList, PortInv
<1> QED
  BY <1>5, <1>6, <1>7, <1>8 DEF GaiList

\* Every step keeps the list's invariant.
LEMMA ListStep == GaiHeap /\ GaiList /\ [GaiNext]_gaiVars => GaiList'
BY ListStutters, ListCall, ListCheck, ListHost, ListAddOne, ListAddDone, ListUnix, ListCanon, ListServ, ListPort, ListPortsDone,
   ListRelease, ListNextCall DEF GaiNext

\* So both invariants hold in every behaviour.
LEMMA ListIs == GaiSpec => [](GaiHeap /\ GaiList)
BY GaiHeapInit, ListStarts, HeapStep, ListStep, PTL DEF GaiSpec

\* What the caller reads of an addrinfo{}, and what it should read there.
QuadOf == [ai \in Whole |-> <<ai.fam, ai.id, ai.type, ai.port>>]
Quad(k, t) == <<AllAddrs[k][1], AllAddrs[k][2], t, PortOf(t)>>
Quads == {"INET", "INET6", "LOCAL", "UNSPEC"} \X Nat \X SockTypes \X (SockTypes \cup {"none", "13"})
Row(k) == [j \in 1 .. Len(TypesWanted) |-> <<AllAddrs[k][1], AllAddrs[k][2], TypesWanted[j], PortOf(TypesWanted[j])>>]

\* What is read of an addrinfo{}, by type.
LEMMA QuadOfType == \A z \in Whole : QuadOf[z] \in Quads /\ QuadOf[z] = <<z.fam, z.id, z.type, z.port>>
<1> SUFFICES ASSUME NEW z \in Whole PROVE QuadOf[z] \in Quads /\ QuadOf[z] = <<z.fam, z.id, z.type, z.port>>
  OBVIOUS
<1>1. QuadOf[z] = <<z.fam, z.id, z.type, z.port>>
  BY Zenon DEF QuadOf
<1>2. z \in AddrInfos
  BY DEF Whole
<1>3. z.fam \in {"INET", "INET6", "LOCAL", "UNSPEC"} /\ z.id \in Nat /\ z.type \in SockTypes /\ z.port \in SockTypes \cup {"none", "13"}
  BY <1>2 DEF AddrInfos
<1> QED
  BY <1>1, <1>3 DEF Quads

\* What should be read, by type.
LEMMA QuadType ==
    ASSUME AllAddrs \in Seq(OneType(gReq.type)), NEW k \in 1 .. Len(AllAddrs), NEW t \in SockTypes
    PROVE  Quad(k, t) \in Quads
<1>1. AllAddrs[k] \in OneType(gReq.type)
  OBVIOUS
<1>2. AllAddrs[k][1] \in {"INET", "INET6", "LOCAL", "UNSPEC"} /\ AllAddrs[k][2] \in Nat
  BY <1>1 DEF OneType
<1>3. PortOf(t) \in SockTypes \cup {"none", "13"}
  BY DEF PortOf
<1> QED
  BY <1>2, <1>3 DEF Quads, Quad

\* What the caller reads of the list.
LEMMA ListRead ==
    ASSUME gList \in Seq(Whole)
    PROVE  /\ [ix \in 1 .. Len(gList) |-> <<gList[ix].fam, gList[ix].id, gList[ix].type, gList[ix].port>>] = Image(QuadOf, gList)
           /\ Len(Image(QuadOf, gList)) = Len(gList) /\ Image(QuadOf, gList) \in Seq(Quads)
<1>1. \A ix \in 1 .. Len(gList) : gList[ix] \in Whole
  OBVIOUS
<1>2. \A ix \in 1 .. Len(gList) : QuadOf[gList[ix]] = <<gList[ix].fam, gList[ix].id, gList[ix].type, gList[ix].port>>
  BY <1>1, QuadOfType, Zenon
<1>3. [ix \in 1 .. Len(gList) |-> <<gList[ix].fam, gList[ix].id, gList[ix].type, gList[ix].port>>] = Image(QuadOf, gList)
  BY <1>2, Zenon DEF Image
<1>4. \A z \in Whole : QuadOf[z] \in Quads
  BY QuadOfType
<1>5. Len(Image(QuadOf, gList)) = Len(gList) /\ Image(QuadOf, gList) \in Seq(Quads)
  BY <1>4, ImageLen, ImageType
<1> QED
  BY <1>3, <1>5

\* The expected list, row by row.
LEMMA ExpectedIs == Expected = FlattenSeq([k \in 1 .. Len(AllAddrs) |-> Row(k)])
BY Zenon DEF Expected, Row

\* One socket type: an element per address.
LEMMA ReadOne ==
    ASSUME AllAddrs \in Seq(OneType(gReq.type)), NEW t \in SockTypes, TypesWanted = <<t>>,
           gList \in Seq(Whole), Len(gList) = Len(AllAddrs),
           \A k \in 1 .. Len(AllAddrs) : QuadOf[gList[k]] = Quad(k, t)
    PROVE  [ix \in 1 .. Len(gList) |-> <<gList[ix].fam, gList[ix].id, gList[ix].type, gList[ix].port>>] = Expected
<1> DEFINE n == Len(AllAddrs)
           q == Image(QuadOf, gList)
<1>1. q \in Seq(Quads) /\ Len(q) = n /\ [ix \in 1 .. Len(gList) |-> <<gList[ix].fam, gList[ix].id, gList[ix].type, gList[ix].port>>] = q
  BY ListRead
<1>2. \A k \in 1 .. n : q[k] = Quad(k, t)
  BY Zenon DEF Image
<1>3. \A k \in 1 .. n : Row(k) = <<Quad(k, t)>>
  BY DEF Row, Quad
<1> HIDE DEF q, n
<1>4. FlattenSeq(Singles(q)) = q
  BY <1>1, FlattenSingles, Zenon
<1>5. Singles(q) = [k \in 1 .. n |-> Row(k)]
  BY <1>1, <1>2, <1>3, Zenon DEF Singles
<1> QED
  BY <1>1, <1>4, <1>5, ExpectedIs, Zenon DEF n

\* Two socket types: an element and its clone per address.
LEMMA ReadTwo ==
    ASSUME AllAddrs \in Seq(OneType(gReq.type)), gReq.type \in SockTypes, NEW t \in SockTypes, NEW u \in SockTypes,
           TypesWanted = <<t, u>>, gList \in Seq(Whole), gList = List2(t, u)
    PROVE  [ix \in 1 .. Len(gList) |-> <<gList[ix].fam, gList[ix].id, gList[ix].type, gList[ix].port>>] = Expected
<1> DEFINE n == Len(AllAddrs)
           p == [k \in 1 .. n |-> <<Passed1(k, t), Passed2(k, t, u)>>]
<1>1. n \in Nat /\ \A k \in 1 .. n : Passed1(k, t) \in Whole /\ Passed2(k, t, u) \in Whole
  <2>1. n \in Nat
    OBVIOUS
  <2>2. ASSUME NEW k \in 1 .. n PROVE Passed1(k, t) \in Whole
    BY FirstFacts
  <2>3. ASSUME NEW k \in 1 .. n PROVE Passed2(k, t, u) \in Whole
    BY SecondFacts
  <2> QED
    BY <2>1, <2>2, <2>3
<1>2. ASSUME NEW k \in 1 .. n PROVE QuadOf[Passed1(k, t)] = Quad(k, t) /\ QuadOf[Passed2(k, t, u)] = Quad(k, u)
  <2>1. /\ Passed1(k, t).fam = AllAddrs[k][1] /\ Passed1(k, t).id = AllAddrs[k][2] /\ Passed1(k, t).type = t /\ Passed1(k, t).port = PortOf(t)
    BY FirstFacts
  <2>2. /\ Passed2(k, t, u).fam = AllAddrs[k][1] /\ Passed2(k, t, u).id = AllAddrs[k][2] /\ Passed2(k, t, u).type = u
        /\ Passed2(k, t, u).port = PortOf(u)
    BY SecondFacts
  <2>3. /\ QuadOf[Passed1(k, t)] = <<Passed1(k, t).fam, Passed1(k, t).id, Passed1(k, t).type, Passed1(k, t).port>>
        /\ QuadOf[Passed2(k, t, u)] = <<Passed2(k, t, u).fam, Passed2(k, t, u).id, Passed2(k, t, u).type, Passed2(k, t, u).port>>
    BY <1>1, <1>2, QuadOfType, Zenon
  <2> QED
    BY <2>1, <2>2, <2>3, Zenon DEF Quad
<1>3. \A k \in 1 .. n : Row(k) = <<Quad(k, t), Quad(k, u)>>
  BY DEF Row, Quad
<1> HIDE DEF n
<1>4. p \in Seq(Seq(Whole)) /\ Len(p) = n /\ \A k \in 1 .. n : p[k] = <<Passed1(k, t), Passed2(k, t, u)>>
  BY <1>1
<1>5. \A k \in 1 .. n : Image(QuadOf, <<Passed1(k, t), Passed2(k, t, u)>>) = <<Quad(k, t), Quad(k, u)>>
  <2>1. \A x, y : Image(QuadOf, <<x, y>>) = <<QuadOf[x], QuadOf[y]>>
    BY DEF Image
  <2> QED
    BY <1>2, <2>1, Zenon
<1>6. gList = FlattenSeq(p)
  BY Zenon DEF List2, n
<1> HIDE DEF p
<1>7. Images(QuadOf, p) = [k \in 1 .. n |-> Row(k)]
  BY <1>3, <1>4, <1>5, Zenon DEF Images
<1>8. \A z \in Whole : QuadOf[z] \in Quads
  BY QuadOfType
<1>9. Image(QuadOf, FlattenSeq(p)) = FlattenSeq(Images(QuadOf, p))
  BY <1>4, <1>8, FlattenMap, Zenon
<1> QED
  BY <1>6, <1>7, <1>9, ListRead, ExpectedIs, Zenon DEF n

\* Facts about sequences.
LEMMA PairType == ASSUME NEW S, NEW a \in S, NEW b \in S PROVE <<a, b>> \in Seq(S)
OBVIOUS

\* A sequence is one over any set that has its elements.
LEMMA SeqOfOthers ==
    ASSUME NEW S, NEW T, NEW s \in Seq(S), \A k \in 1 .. Len(s) : s[k] \in T
    PROVE  s \in Seq(T)
<1> DEFINE n == Len(s)
<1>1. n \in Nat /\ s = [k \in 1 .. n |-> s[k]]
  OBVIOUS
<1> HIDE DEF n
<1>2. \A k \in 1 .. n : s[k] \in T
  BY DEF n
<1> QED
  BY <1>1, <1>2

\* A sequence is its first element and the others.
LEMMA HeadAndTail ==
    ASSUME NEW S, NEW s \in Seq(S), s # <<>>
    PROVE  s = <<s[1]>> \o Tail(s)
OBVIOUS

\* The elements of a concatenation.
LEMMA ConcatAt ==
    ASSUME NEW S, NEW a \in Seq(S), NEW b \in Seq(S), NEW ix \in 1 .. Len(a \o b)
    PROVE  /\ ix <= Len(a) => (a \o b)[ix] = a[ix]
           /\ ~(ix <= Len(a)) => ix - Len(a) \in 1 .. Len(b) /\ (a \o b)[ix] = b[ix - Len(a)]
OBVIOUS

\* The name is in the first element, if it was asked for, and in no other.
LEMMA NameOne ==
    ASSUME gList \in Seq(Whole), NEW ix \in 1 .. Len(gList), gList[ix].cn <=> CnAt(ix)
    PROVE  gList[ix].cn = (ix = 1 /\ "CANON" \in gReq.flags /\ (gReq.host # "none" \/ gImpl = "libfree"))
<1>1. gList[ix] \in Whole
  OBVIOUS
<1>2. gList[ix].cn \in BOOLEAN
  BY <1>1 DEF Whole, AddrInfos
<1>3. CASE gList[ix].cn
  <2>1. gList[ix].cn = TRUE /\ CnAt(ix)
    BY <1>2, <1>3
  <2> QED
    BY <2>1 DEF CnAt
<1>4. CASE ~gList[ix].cn
  <2>1. gList[ix].cn = FALSE /\ ~CnAt(ix)
    BY <1>2, <1>4
  <2> QED
    BY <2>1 DEF CnAt
<1> QED
  BY <1>3, <1>4

\* With two socket types the clones have no name.
LEMMA NameTwo ==
    ASSUME AllAddrs \in Seq(OneType(gReq.type)), gReq.type \in SockTypes, NEW t \in SockTypes, NEW u \in SockTypes,
           gList \in Seq(Whole), gList = List2(t, u), NEW ix \in 1 .. Len(gList)
    PROVE  gList[ix].cn <=> CnAt(ix)
<1> DEFINE n == Len(AllAddrs)
           p == [k \in 1 .. n |-> <<Passed1(k, t), Passed2(k, t, u)>>]
<1>1. n \in Nat
  OBVIOUS
<1>2. \A k \in 1 .. n : Passed1(k, t) \in Whole /\ (Passed1(k, t).cn <=> CnAt(k)) /\ Passed1(k, t).cn \in BOOLEAN
  BY FirstFacts
<1>3. \A k \in 1 .. n : Passed2(k, t, u) \in Unnamed
  <2> SUFFICES ASSUME NEW k \in 1 .. n PROVE Passed2(k, t, u) \in Unnamed
    OBVIOUS
  <2>1. Passed2(k, t, u) \in Whole /\ Passed2(k, t, u).cn = FALSE
    BY SecondFacts
  <2> QED
    BY <2>1 DEF Unnamed
<1> HIDE DEF n
<1>4. \A k \in 1 .. n : Passed2(k, t, u) \in Whole /\ ~Passed2(k, t, u).cn
  BY <1>3 DEF Unnamed
<1>5. p \in Seq(Seq(Whole)) /\ Len(p) = n /\ \A k \in 1 .. n : p[k] = <<Passed1(k, t), Passed2(k, t, u)>>
  BY <1>1, <1>2, <1>4
<1>6. gList = FlattenSeq(p)
  BY Zenon DEF List2, n
<1> HIDE DEF p
<1>7. n # 0
  <2> SUFFICES ASSUME n = 0 PROVE FALSE
    OBVIOUS
  <2>1. p = <<>>
    BY <1>5
  <2>2. gList = <<>>
    BY <1>6, <2>1, FlattenEmpty, Zenon
  <2> QED
    BY <2>2
<1> DEFINE h == <<Passed1(1, t), Passed2(1, t, u)>>
           r == Tail(p)
           w == FlattenSeq(r)
<1>8. 1 \in 1 .. n
  BY <1>1, <1>7
<1>9. h \in Seq(Whole) /\ Len(h) = 2 /\ h[1] = Passed1(1, t) /\ h[2] = Passed2(1, t, u) /\ p[1] = h
  BY <1>2, <1>4, <1>5, <1>8
<1>10. r \in Seq(Seq(Whole)) /\ Len(r) = n - 1 /\ \A k \in 1 .. n - 1 : r[k] = p[k + 1]
  BY <1>1, <1>5, <1>7
<1>11. r \in Seq(Seq(Unnamed))
  <2>1. ASSUME NEW k \in 1 .. n - 1 PROVE r[k] \in Seq(Unnamed)
    <3>1. k + 1 \in 1 .. n /\ k + 1 # 1
      BY <1>1
    <3>2. ~CnAt(k + 1)
      BY <3>1 DEF CnAt
    <3>3. Passed1(k + 1, t) \in Unnamed
      BY <1>2, <3>1, <3>2 DEF Unnamed
    <3>4. Passed2(k + 1, t, u) \in Unnamed
      BY <1>3, <3>1
    <3>5. r[k] = <<Passed1(k + 1, t), Passed2(k + 1, t, u)>>
      BY <1>5, <1>10, <2>1, <3>1
    <3> QED
      BY <3>3, <3>4, <3>5, PairType, Zenon
  <2> HIDE DEF r
  <2> QED
    BY <1>10, <2>1, SeqOfOthers, Zenon
<1>12. p = <<h>> \o r
  <2>1. p # <<>>
    BY <1>5, <1>7
  <2> QED
    BY <1>5, <1>9, <2>1, HeadAndTail, Zenon
<1> HIDE DEF h, r
<1>13. FlattenSeq(<<h>> \o r) = FlattenSeq(<<h>>) \o FlattenSeq(r)
  <2>1. <<h>> \in Seq(Seq(Whole))
    BY <1>9
  <2> QED
    BY <1>10, <2>1, FlattenConcat, Zenon
<1>14. FlattenSeq(<<h>>) = h
  BY <1>9, FlattenOne, Zenon
<1>15. w \in Seq(Unnamed)
  BY <1>11, FlattenType, Zenon
<1>16. gList = h \o w
  BY <1>6, <1>12, <1>13, <1>14, Zenon
<1> HIDE DEF w
<1>17. w \in Seq(Whole) /\ Len(w) \in Nat /\ \A k \in 1 .. Len(w) : w[k] \in Whole /\ ~w[k].cn
  BY <1>15 DEF Unnamed
<1>18. /\ ix <= 2 => gList[ix] = h[ix]
       /\ ~(ix <= 2) => ix - 2 \in 1 .. Len(w) /\ gList[ix] = w[ix - 2]
  <2>1. ix \in 1 .. Len(h \o w)
    BY <1>16
  <2>2. h \in Seq(Whole) /\ w \in Seq(Whole)
    BY <1>9, <1>17
  <2>3. /\ ix <= Len(h) => (h \o w)[ix] = h[ix]
        /\ ~(ix <= Len(h)) => ix - Len(h) \in 1 .. Len(w) /\ (h \o w)[ix] = w[ix - Len(h)]
    BY <2>1, <2>2, ConcatAt, Zenon
  <2>4. Len(h) = 2
    BY <1>9
  <2> QED
    BY <1>16, <2>3, <2>4, Zenon
<1>19. CASE ix = 1
  BY <1>2, <1>8, <1>9, <1>18, <1>19
<1>20. CASE ix # 1
  <2>1. ~CnAt(ix)
    BY <1>20 DEF CnAt
  <2>2. CASE ix = 2
    BY <1>4, <1>8, <1>9, <1>18, <2>1, <2>2
  <2>3. CASE ix # 2
    <3>1. ix \in Nat
      OBVIOUS
    <3>2. ~(ix <= 2)
      BY <1>20, <2>3, <3>1
    <3> QED
      BY <1>17, <1>18, <2>1, <3>2, Zenon
  <2> QED
    BY <2>2, <2>3
<1> QED
  BY <1>19, <1>20

\* A call that returns a list returns the expected one.
LEMMA ReturnedRight ==
    ASSUME GaiHeap, GaiList, gPc = "returned", gRc = "ok", gImpl # "savecopy", ~UnixReq(gReq)
    PROVE  InetRight
<1> DEFINE n == Len(AllAddrs)
<1>1. /\ gReq \in Requests /\ gSvc \subseteq {"STREAM", "DGRAM"} /\ (gReq.serv # "name" => gSvc = {})
      /\ gDns \in [{"INET", "INET6"} -> Nat] /\ gReq.type \in SockTypes /\ gList \in Seq(Whole)
  BY ReqFacts DEF GaiHeap, GaiTypes, GaiList, PlaceInv
<1>2. AllAddrs \in Seq(OneType(gReq.type)) /\ n \in Nat
  BY <1>1, AddrsType
<1>3. \/ gReq.serv = "none" /\ gList = List0
      \/ gReq.serv # "none" /\ \E t \in SockTypes : TypesTodo = <<t>> /\ gList = List1(t)
      \/ gReq.serv # "none" /\ \E t, u \in SockTypes : TypesTodo = <<t, u>> /\ gList = List2(t, u)
  BY DEF GaiList, PortInv, Ordinary
<1>4. gReq.serv # "none" /\ TypesTodo # <<>> => TypesTodo = TypesWanted
  BY <1>1, TodoFacts
<1>5. SUFFICES /\ [ix \in 1 .. Len(gList) |-> <<gList[ix].fam, gList[ix].id, gList[ix].type, gList[ix].port>>] = Expected
               /\ \A ix \in 1 .. Len(gList) : gList[ix].cn <=> CnAt(ix)
  <2>1. SUFFICES /\ [ix \in 1 .. Len(gList) |-> <<gList[ix].fam, gList[ix].id, gList[ix].type, gList[ix].port>>] = Expected
                 /\ \A ix \in 1 .. Len(gList) :
                       gList[ix].cn = (ix = 1 /\ "CANON" \in gReq.flags /\ (gReq.host # "none" \/ gImpl = "libfree"))
    BY Zenon DEF InetRight
  <2> QED
    BY <1>1, NameOne
<1>6. CASE gReq.serv = "none" /\ gList = List0
  <2>1. TypesWanted = <<gReq.type>> /\ PortOf(gReq.type) = "none"
    BY <1>6, Zenon DEF TypesWanted, PortOf
  <2>2. Len(gList) = n /\ \A k \in 1 .. n : gList[k] = Entry(k)
    BY <1>2, <1>6 DEF List0
  <2>3. ASSUME NEW k \in 1 .. n PROVE QuadOf[gList[k]] = Quad(k, gReq.type) /\ (gList[k].cn <=> CnAt(k))
    <3>1. /\ Entry(k) \in Whole /\ Entry(k).fam = AllAddrs[k][1] /\ Entry(k).id = AllAddrs[k][2] /\ Entry(k).type = gReq.type
          /\ Entry(k).port = "none" /\ (Entry(k).cn <=> CnAt(k))
      BY <1>1, <1>2, EntryFacts
    <3>2. QuadOf[Entry(k)] = <<Entry(k).fam, Entry(k).id, Entry(k).type, Entry(k).port>>
      BY <3>1, QuadOfType
    <3>3. QuadOf[Entry(k)] = Quad(k, gReq.type)
      BY <2>1, <3>1, <3>2, Zenon DEF Quad
    <3> QED
      BY <2>2, <2>3, <3>1, <3>3
  <2> QED
    BY <1>1, <1>2, <2>1, <2>2, <2>3, ReadOne
<1>7. ASSUME gReq.serv # "none", NEW t \in SockTypes, TypesTodo = <<t>>, gList = List1(t)
      PROVE  /\ [ix \in 1 .. Len(gList) |-> <<gList[ix].fam, gList[ix].id, gList[ix].type, gList[ix].port>>] = Expected
             /\ \A ix \in 1 .. Len(gList) : gList[ix].cn <=> CnAt(ix)
  <2>1. TypesWanted = <<t>>
    BY <1>4, <1>7
  <2>2. Len(gList) = n /\ \A k \in 1 .. n : gList[k] = Passed1(k, t)
    BY <1>2, <1>7 DEF List1
  <2>3. ASSUME NEW k \in 1 .. n PROVE QuadOf[gList[k]] = Quad(k, t) /\ (gList[k].cn <=> CnAt(k))
    <3>1. /\ Passed1(k, t) \in Whole /\ Passed1(k, t).fam = AllAddrs[k][1] /\ Passed1(k, t).id = AllAddrs[k][2] /\ Passed1(k, t).type = t
          /\ Passed1(k, t).port = PortOf(t) /\ (Passed1(k, t).cn <=> CnAt(k))
      BY <1>1, <1>2, FirstFacts
    <3>2. QuadOf[Passed1(k, t)] = <<Passed1(k, t).fam, Passed1(k, t).id, Passed1(k, t).type, Passed1(k, t).port>>
      BY <3>1, QuadOfType
    <3>3. QuadOf[Passed1(k, t)] = Quad(k, t)
      BY <3>1, <3>2, Zenon DEF Quad
    <3> QED
      BY <2>2, <2>3, <3>1, <3>3
  <2> QED
    BY <1>1, <1>2, <2>1, <2>2, <2>3, ReadOne
<1>8. ASSUME gReq.serv # "none", NEW t \in SockTypes, NEW u \in SockTypes, TypesTodo = <<t, u>>, gList = List2(t, u)
      PROVE  /\ [ix \in 1 .. Len(gList) |-> <<gList[ix].fam, gList[ix].id, gList[ix].type, gList[ix].port>>] = Expected
             /\ \A ix \in 1 .. Len(gList) : gList[ix].cn <=> CnAt(ix)
  <2>1. TypesWanted = <<t, u>>
    BY <1>4, <1>8
  <2>2. [ix \in 1 .. Len(gList) |-> <<gList[ix].fam, gList[ix].id, gList[ix].type, gList[ix].port>>] = Expected
    BY <1>1, <1>2, <1>8, <2>1, ReadTwo
  <2>3. \A ix \in 1 .. Len(gList) : gList[ix].cn <=> CnAt(ix)
    BY <1>1, <1>2, <1>8, NameTwo
  <2> QED
    BY <2>2, <2>3
<1> QED
  BY <1>3, <1>6, <1>7, <1>8

\* An ordinary call that asks for a service the services file does not have does not return.
LEMMA NoServiceFails ==
    ASSUME GaiHeap, GaiList, Ordinary, gReq.serv # "none", TypesTodo = <<>>
    PROVE  gPc # "returned"
<1>1. \A t, u : <<t>> # <<>> /\ <<t, u>> # <<>>
  OBVIOUS
<1> QED
  BY <1>1 DEF GaiList, PortInv

\* The requests of do_errtest().
Asks(h, v, f, t, fl) == gReq = [host |-> h, serv |-> v, fam |-> f, type |-> t, flags |-> fl]

\* do_errtest() says something of nine requests.
LEMMA ErrTests ==
    ASSUME do_errtest # "any"
    PROVE  \/ Asks("none", "name", "UNSPEC", "0", {"PASSIVE"}) /\ gSvc # {} /\ do_errtest = "ok"
           \/ Asks("name", "none", "UNSPEC", "0", {"bad"}) /\ do_errtest = "BADFLAGS"
           \/ Asks("name", "none", "bad", "0", {}) /\ do_errtest = "FAMILY"
           \/ Asks("none", "none", "UNSPEC", "0", {}) /\ do_errtest = "NONAME"
           \/ Asks("name", "none", "UNSPEC", "0", {}) /\ gDns = NoAddrs /\ do_errtest = "NONAME"
           \/ Asks("none", "name", "UNSPEC", "0", {}) /\ gSvc = {} /\ do_errtest = "NONAME"
           \/ Asks("name", "name", "UNSPEC", "DGRAM", {}) /\ gSvc = {"STREAM"} /\ do_errtest = "SERVICE"
           \/ Asks("name", "name", "UNSPEC", "STREAM", {}) /\ gSvc = {"DGRAM"} /\ do_errtest = "SERVICE"
           \/ Asks("name", "none", "INET", "bad", {}) /\ do_errtest = "SOCKTYPE"
BY DEF do_errtest, Asks

\* A name that no lookup finds gives no address.
LEMMA NothingToReturn ==
    ASSUME gReq.host = "name", gDns = NoAddrs
    PROVE  AllAddrs = <<>>
<1>1. NumericFams = {}
  BY DEF NumericFams
<1>2. gDns["INET"] = 0 /\ gDns["INET6"] = 0
  BY DEF NoAddrs
<1>3. ASSUME NEW f \in {"INET", "INET6"} PROVE AddrsOf(f) = <<>>
  <2>1. gDns[f] = 0 /\ ~(f \in NumericFams)
    BY <1>1, <1>2
  <2>2. AddrsOf(f) = <<>> \o [ix \in 1 .. 0 |-> <<f, ix, gReq.type>>]
    BY <2>1, Zenon DEF AddrsOf
  <2>3. <<>> \o <<>> = <<>>
    OBVIOUS
  <2> QED
    BY <2>2, <2>3, EmptyRange, ZenonT(60)
<1>4. <<>> \o <<>> = <<>>
  OBVIOUS
<1> QED
  BY <1>3, <1>4 DEF AllAddrs

\* The error codes are the ones testga.c expects.
LEMMA CodesRight ==
    ASSUME GaiHeap, GaiList, gPc \in {"returned", "failed"}, gImpl = "libgai", do_errtest # "any"
    PROVE  gRc \in {do_errtest, "MEMORY"}
<1>1. /\ gReq \in Requests /\ gSvc \subseteq {"STREAM", "DGRAM"} /\ (gReq.serv # "name" => gSvc = {})
      /\ gDns \in [{"INET", "INET6"} -> Nat] /\ gList \in Seq(Whole)
  BY DEF GaiHeap, GaiTypes, GaiList, PlaceInv
<1>2. /\ gPc = "returned" => gRc = "ok" /\ ga_echeck(gReq) = "ok" /\ (gReq.serv = "none" => gList # <<>>)
      /\ gPc = "failed" /\ ga_echeck(gReq) # "ok" => gRc = ga_echeck(gReq)
      /\ gPc = "failed" /\ ga_echeck(gReq) = "ok" =>
          /\ gRc \in {"MEMORY", "NONAME", "SERVICE", "ADDRFAMILY", "AGAIN", "FAIL", "NODATA", "SYSTEM"}
          /\ gRc \in {"AGAIN", "FAIL", "NODATA"} => gReq.fam # "UNSPEC"
          /\ gRc = "SYSTEM" => UnixReq(gReq)
          /\ gRc = "SERVICE" => gReq.type # "0" \/ gReq.serv = "/long"
          /\ gSvc # {} => gRc = "MEMORY" \/ (gReq.type # "0" /\ gRc = "SERVICE")
      /\ gRc = "ADDRFAMILY" => gReq.host \in {"v4", "v6", "/path"}
  BY DEF GaiList, PlaceInv, CodeInv, CheckOf
<1>3. gReq.host # "/path" => Ordinary
  BY DEF Ordinary, UnixReq
<1>4. ASSUME Ordinary, gReq.serv # "none", TypesTodo = <<>> PROVE gPc = "failed"
  BY <1>4, NoServiceFails
<1>5. CASE Asks("none", "name", "UNSPEC", "0", {"PASSIVE"}) /\ gSvc # {} /\ do_errtest = "ok"
  <2>1. gReq.type = "0" /\ gReq.fam = "UNSPEC" /\ ga_echeck(gReq) = "ok"
    BY <1>5 DEF Asks, ga_echeck, FamilyCheck
  <2> QED
    BY <1>2, <1>5, <2>1
<1>6. CASE Asks("name", "none", "UNSPEC", "0", {"bad"}) /\ do_errtest = "BADFLAGS"
  <2>1. ga_echeck(gReq) = "BADFLAGS"
    BY <1>6 DEF Asks, ga_echeck
  <2> QED
    BY <1>2, <1>6, <2>1
<1>7. CASE Asks("name", "none", "bad", "0", {}) /\ do_errtest = "FAMILY"
  <2>1. ga_echeck(gReq) = "FAMILY"
    BY <1>7 DEF Asks, ga_echeck, FamilyCheck
  <2> QED
    BY <1>2, <1>7, <2>1
<1>8. CASE Asks("none", "none", "UNSPEC", "0", {}) /\ do_errtest = "NONAME"
  <2>1. ga_echeck(gReq) = "NONAME"
    BY <1>8 DEF Asks, ga_echeck
  <2> QED
    BY <1>2, <1>8, <2>1
<1>9. CASE Asks("name", "none", "INET", "bad", {}) /\ do_errtest = "SOCKTYPE"
  <2>1. ga_echeck(gReq) = "SOCKTYPE"
    BY <1>9 DEF Asks, ga_echeck, FamilyCheck
  <2> QED
    BY <1>2, <1>9, <2>1
<1>10. CASE Asks("name", "none", "UNSPEC", "0", {}) /\ gDns = NoAddrs /\ do_errtest = "NONAME"
  <2>1. gReq.host = "name" /\ gReq.serv = "none" /\ gReq.fam = "UNSPEC" /\ gReq.type = "0" /\ ga_echeck(gReq) = "ok"
    BY <1>10 DEF Asks, ga_echeck, FamilyCheck
  <2>2. AllAddrs = <<>>
    BY <1>10, <2>1, NothingToReturn
  <2>3. gPc = "failed"
    <3> SUFFICES ASSUME gPc = "returned" PROVE FALSE
      OBVIOUS
    <3>1. gList = List0
      BY <1>3, <2>1 DEF GaiList, PortInv
    <3>2. Len(List0) = 0
      BY <2>2 DEF List0
    <3> QED
      BY <1>1, <1>2, <2>1, <3>1, <3>2
  <2> QED
    BY <1>2, <1>3, <1>10, <2>1, <2>3 DEF Ordinary
<1>11. CASE Asks("none", "name", "UNSPEC", "0", {}) /\ gSvc = {} /\ do_errtest = "NONAME"
  <2>1. gReq.host = "none" /\ gReq.serv = "name" /\ gReq.fam = "UNSPEC" /\ gReq.type = "0" /\ ga_echeck(gReq) = "ok"
    BY <1>11 DEF Asks, ga_echeck, FamilyCheck
  <2>2. TypesTodo = <<>>
    BY <1>1, <1>11, <2>1, TodoFacts
  <2>3. gPc = "failed"
    BY <1>3, <1>4, <2>1, <2>2
  <2> QED
    BY <1>2, <1>3, <1>11, <2>1, <2>3 DEF Ordinary
<1>12. ASSUME NEW t \in {"STREAM", "DGRAM"}, Asks("name", "name", "UNSPEC", t, {}), t \notin gSvc, gSvc # {}, do_errtest = "SERVICE"
       PROVE  gRc \in {do_errtest, "MEMORY"}
  <2>1. gReq.host = "name" /\ gReq.serv = "name" /\ gReq.fam = "UNSPEC" /\ gReq.type = t /\ ga_echeck(gReq) = "ok"
    BY <1>12 DEF Asks, ga_echeck, FamilyCheck
  <2>2. TypesTodo = <<>>
    BY <1>1, <1>12, <2>1, TodoFacts
  <2>3. gPc = "failed"
    BY <1>3, <1>4, <2>1, <2>2
  <2> QED
    BY <1>2, <1>12, <2>1, <2>3
<1> QED
  BY <1>5, <1>6, <1>7, <1>8, <1>9, <1>10, <1>11, <1>12, ErrTests

-----------------------------------------------------------------------------
(* A pathname                                                               *)

UnixAddr(t) == <<"LOCAL", 0, t>>
UnixInfo(t) == Struct(UnixAddr(t), TRUE)

\* Both socket types, or the one asked for.
UnixList == IF gReq.type = "0" THEN <<UnixInfo("STREAM"), UnixInfo("DGRAM")>> ELSE <<UnixInfo(gReq.type)>>

\* ga_unix() makes one addrinfo{} after the other.
UnixHalf ==
    \/ gReq.type = "0" /\ gAddrs = <<UnixAddr("STREAM"), UnixAddr("DGRAM")>> /\ gList = <<>>
    \/ gReq.type = "0" /\ gAddrs = <<UnixAddr("DGRAM")>> /\ gList = <<UnixInfo("STREAM")>>
    \/ gReq.type # "0" /\ gAddrs = <<UnixAddr(gReq.type)>> /\ gList = <<>>

UnixInv ==
    UnixReq(gReq) =>
       /\ gPc \in {"add", "canon"} => gImpl = "libgai"
       /\ gPc = "add" => UnixHalf \/ (gAddrs = <<>> /\ gList = UnixList)
       /\ gPc = "canon" => gList = UnixList
       /\ gPc = "returned" /\ gRc = "ok" => UnixRight

\* The addrinfo{} of a Unix domain socket, and the same with a name.
LEMMA UnixInfoIs ==
    ASSUME NEW t
    PROVE  /\ UnixInfo(t).fam = "LOCAL" /\ UnixInfo(t).id = 0 /\ UnixInfo(t).type = t /\ UnixInfo(t).port = "none"
           /\ UnixInfo(t).sa = TRUE /\ UnixInfo(t).cn = FALSE
           /\ [UnixInfo(t) EXCEPT !.cn = TRUE].fam = "LOCAL" /\ [UnixInfo(t) EXCEPT !.cn = TRUE].id = 0
           /\ [UnixInfo(t) EXCEPT !.cn = TRUE].type = t /\ [UnixInfo(t) EXCEPT !.cn = TRUE].port = "none"
           /\ [UnixInfo(t) EXCEPT !.cn = TRUE].sa = TRUE /\ [UnixInfo(t) EXCEPT !.cn = TRUE].cn = TRUE
<1>1. UnixAddr(t)[1] = "LOCAL" /\ UnixAddr(t)[2] = 0 /\ UnixAddr(t)[3] = t
  BY DEF UnixAddr
<1> QED
  BY <1>1 DEF UnixInfo, Struct

\* What is to be read of one element.
UnixElement(x, t, named) ==
    x.fam = "LOCAL" /\ x.id = 0 /\ x.type = t /\ x.port = "none" /\ x.sa = TRUE /\ x.cn = named

\* One element that is right.
LEMMA UnixElementIs ==
    ASSUME NEW t
    PROVE  UnixElement(UnixInfo(t), t, FALSE) /\ UnixElement([UnixInfo(t) EXCEPT !.cn = TRUE], t, TRUE)
BY UnixInfoIs, Zenon DEF UnixElement

\* A list of elements that are right.
LEMMA UnixRightOne ==
    ASSUME NEW x, NEW t, gList' = <<x>>, UnixTypes' = <<t>>, UnixElement(x, t, "CANON" \in gReq'.flags /\ gImpl' = "libgai")
    PROVE  UnixRight'
<1> DEFINE named == "CANON" \in gReq'.flags /\ gImpl' = "libgai"
<1>1. Len(gList') = 1 /\ Len(UnixTypes') = 1 /\ gList'[1] = x /\ UnixTypes'[1] = t /\ 1 .. 1 = {1}
  OBVIOUS
<1>2. ASSUME NEW k \in 1 .. 1
      PROVE  /\ <<gList'[k].fam, gList'[k].id, gList'[k].type, gList'[k].port>> = <<"LOCAL", 0, UnixTypes'[k], "none">>
             /\ gList'[k].sa /\ gList'[k].cn = (k = 1 /\ "CANON" \in gReq'.flags /\ gImpl' = "libgai")
  <2>1. k = 1
    OBVIOUS
  <2>2. (1 = 1 /\ "CANON" \in gReq'.flags /\ gImpl' = "libgai") = named
    OBVIOUS
  <2> QED
    BY <1>1, <2>1, <2>2, Zenon DEF UnixElement
<1> QED
  BY <1>1, <1>2, Zenon DEF UnixRight

\* A list of two elements that are right.
LEMMA UnixRightTwo ==
    ASSUME NEW x, NEW y, NEW t, NEW u, gList' = <<x, y>>, UnixTypes' = <<t, u>>,
           UnixElement(x, t, "CANON" \in gReq'.flags /\ gImpl' = "libgai"), UnixElement(y, u, FALSE)
    PROVE  UnixRight'
<1> DEFINE named == "CANON" \in gReq'.flags /\ gImpl' = "libgai"
<1>1. Len(gList') = 2 /\ Len(UnixTypes') = 2 /\ gList'[1] = x /\ UnixTypes'[1] = t /\ gList'[2] = y /\ UnixTypes'[2] = u
  OBVIOUS
<1>2. ASSUME NEW k \in 1 .. 2
      PROVE  /\ <<gList'[k].fam, gList'[k].id, gList'[k].type, gList'[k].port>> = <<"LOCAL", 0, UnixTypes'[k], "none">>
             /\ gList'[k].sa /\ gList'[k].cn = (k = 1 /\ "CANON" \in gReq'.flags /\ gImpl' = "libgai")
  <2>1. k = 1 \/ k = 2
    OBVIOUS
  <2>2. /\ (1 = 1 /\ "CANON" \in gReq'.flags /\ gImpl' = "libgai") = named
        /\ (2 = 1 /\ "CANON" \in gReq'.flags /\ gImpl' = "libgai") = FALSE
    OBVIOUS
  <2>3. CASE k = 1
    BY <1>1, <2>2, <2>3, Zenon DEF UnixElement
  <2>4. CASE k = 2
    BY <1>1, <2>2, <2>4, Zenon DEF UnixElement
  <2> QED
    BY <2>1, <2>3, <2>4
<1> QED
  BY <1>1, <1>2, Zenon DEF UnixRight

\* The list as ga_unix() has made it, without the name.
LEMMA UnixPlain ==
    ASSUME gList' = UnixList, ~("CANON" \in gReq.flags /\ gImpl = "libgai"), UNCHANGED <<gReq, gImpl>>
    PROVE  UnixRight'
<1>1. ("CANON" \in gReq'.flags /\ gImpl' = "libgai") = FALSE
  OBVIOUS
<1>2. CASE gReq.type = "0"
  <2>1. gList' = <<UnixInfo("STREAM"), UnixInfo("DGRAM")>> /\ UnixTypes' = <<"STREAM", "DGRAM">>
    BY <1>2 DEF UnixList, UnixTypes
  <2> QED
    BY <1>1, <2>1, UnixElementIs, UnixRightTwo, Zenon
<1>3. CASE gReq.type # "0"
  <2>1. gList' = <<UnixInfo(gReq.type)>> /\ UnixTypes' = <<gReq.type>>
    BY <1>3 DEF UnixList, UnixTypes
  <2> QED
    BY <1>1, <2>1, UnixElementIs, UnixRightOne, Zenon
<1> QED
  BY <1>2, <1>3

\* The list as ga_unix() has made it, with the name.
LEMMA UnixNamed ==
    ASSUME gList = UnixList, gList' = <<[gList[1] EXCEPT !.cn = TRUE]>> \o Tail(gList), "CANON" \in gReq.flags, gImpl = "libgai",
           UNCHANGED <<gReq, gImpl>>
    PROVE  UnixRight'
<1>1. ("CANON" \in gReq'.flags /\ gImpl' = "libgai") = TRUE
  OBVIOUS
<1> DEFINE N(t) == [UnixInfo(t) EXCEPT !.cn = TRUE]
<1>2. CASE gReq.type = "0"
  <2>1. gList = <<UnixInfo("STREAM"), UnixInfo("DGRAM")>> /\ UnixTypes' = <<"STREAM", "DGRAM">>
    BY <1>2 DEF UnixList, UnixTypes
  <2>2. gList[1] = UnixInfo("STREAM") /\ Tail(gList) = <<UnixInfo("DGRAM")>>
    BY <2>1
  <2>3. gList' = <<N("STREAM")>> \o <<UnixInfo("DGRAM")>>
    BY <2>2, Zenon
  <2> HIDE DEF N
  <2>4. gList' = <<N("STREAM"), UnixInfo("DGRAM")>>
    BY <2>3, JoinTwo, Zenon
  <2>5. UnixElement(N("STREAM"), "STREAM", TRUE)
    BY UnixElementIs, Zenon DEF N
  <2> QED
    BY <1>1, <2>1, <2>4, <2>5, UnixElementIs, UnixRightTwo, Zenon
<1>3. CASE gReq.type # "0"
  <2>1. gList = <<UnixInfo(gReq.type)>> /\ UnixTypes' = <<gReq.type>>
    BY <1>3 DEF UnixList, UnixTypes
  <2>2. gList[1] = UnixInfo(gReq.type) /\ Tail(gList) = <<>>
    BY <2>1
  <2>3. gList' = <<N(gReq.type)>> \o <<>>
    BY <2>2, Zenon
  <2> HIDE DEF N
  <2>4. gList' = <<N(gReq.type)>>
    <3>1. \A x : <<x>> \o <<>> = <<x>>
      OBVIOUS
    <3> QED
      BY <2>3, <3>1, Zenon
  <2>5. UnixElement(N(gReq.type), gReq.type, TRUE)
    BY UnixElementIs, Zenon DEF N
  <2> QED
    BY <1>1, <2>1, <2>4, <2>5, UnixRightOne, Zenon
<1> QED
  BY <1>2, <1>3

\* A list is made, or nothing is.
LEMMA UnixKept == GaiHeap /\ GaiList /\ UnixInv /\ [GaiNext]_gaiVars => UnixInv'
<1> SUFFICES ASSUME GaiHeap, GaiList, UnixInv, [GaiNext]_gaiVars PROVE UnixInv'
  OBVIOUS
<1>1. CASE UNCHANGED gaiVars
  BY <1>1, GaiFrame, Zenon DEF gaiVars, UnixInv, UnixHalf, UnixList, UnixRight, UnixTypes
<1>2. CASE GaiCall \/ Release \/ NextCall \/ CheckStep
  <2>1. gPc' \notin {"add", "canon", "returned"}
    BY <1>2, Zenon DEF GaiCall, Release, NextCall, CheckStep, CheckArgs, CheckArgs_old, CheckArgs_libfree, Bad, Wild, BeginLookup
  <2> QED
    BY <2>1 DEF UnixInv
<1>3. CASE HostStep \/ ServStep \/ PortStep \/ PortsDone
  <2>1. gPc \in {"search", "serv", "port"} /\ UNCHANGED <<gReq, gImpl>>
    BY <1>3, Zenon DEF HostStep, NumericHost, LookupHost, Search_old, getaddrinfo_host, ServStep, PortStep, PortsDone
  <2>2. ~UnixReq(gReq)
    BY <2>1 DEF GaiList, PlaceInv
  <2> QED
    BY <2>1, <2>2, GaiFrame DEF UnixInv
<1>4. CASE UnixStep
  <2>1. UNCHANGED <<gReq, gImpl>> /\ gList = <<>>
    BY <1>4, Zenon DEF UnixStep, ga_unix, GaiHeap, HeapInv
  <2>2. CASE ga_unix
    <3>1. gImpl = "libgai" /\ gPc' \in {"add", "failed"} /\ (gPc' = "add" => gList' = <<>>)
      BY <2>1, <2>2 DEF ga_unix, UnixLost
    <3>2. gPc' = "add" => gAddrs' = IF gReq.type = "0" THEN <<<<"LOCAL", 0, "STREAM">>, <<"LOCAL", 0, "DGRAM">>>>
                                    ELSE <<<<"LOCAL", 0, gReq.type>>>>
      BY <2>2, Zenon DEF ga_unix, UnixLost
    <3>3. gPc' = "add" => UnixHalf'
      <4>1. CASE gReq.type = "0"
        BY <2>1, <3>1, <3>2, <4>1, Zenon DEF UnixHalf, UnixAddr
      <4>2. CASE gReq.type # "0"
        BY <2>1, <3>1, <3>2, <4>2, Zenon DEF UnixHalf, UnixAddr
      <4> QED
        BY <4>1, <4>2
    <3> QED
      BY <2>1, <3>1, <3>3 DEF UnixInv
  <2>3. CASE addrinfo_local /\ gImpl # "libgai"
    <3>1. gPc' \in {"failed", "returned"}
      BY <2>3, Zenon DEF addrinfo_local, UnixLost
    <3>2. gPc' = "returned" /\ gRc' = "ok" => gReq.type # "0" /\ gList' = <<Struct(<<"LOCAL", 0, gReq.type>>, TRUE)>>
      BY <2>3, Zenon DEF addrinfo_local, UnixLost
    <3>3. gPc' = "returned" /\ gRc' = "ok" => gList' = UnixList
      BY <3>2, Zenon DEF UnixList, UnixInfo, UnixAddr
    <3>4. gPc' = "returned" /\ gRc' = "ok" => UnixRight'
      BY <2>1, <2>3, <3>3, UnixPlain
    <3> QED
      BY <3>1, <3>4 DEF UnixInv
  <2> QED
    BY <1>4, <2>2, <2>3, Zenon DEF UnixStep, ga_unix_old
<1>5. CASE AddOne
  <2>1. gPc = "add" /\ gAddrs # <<>> /\ gAddrs' = Tail(gAddrs) /\ UNCHANGED <<gReq, gImpl>>
    BY <1>5 DEF AddOne
  <2>2. SUFFICES ASSUME UnixReq(gReq) PROVE UnixInv'
    BY <2>1, GaiFrame DEF UnixInv
  <2>3. gImpl = "libgai" /\ UnixHalf
    BY <2>1, <2>2 DEF UnixInv
  <2>4. \/ gPc' = "add" /\ gList' = Append(gList, Struct(Head(gAddrs), TRUE))
        \/ gPc' = "failed"
    BY <1>5, <2>3, AddOneMakes
  <2>5. ASSUME gPc' = "add" PROVE (UnixHalf \/ (gAddrs = <<>> /\ gList = UnixList))'
    <3>1. gList' = Append(gList, Struct(Head(gAddrs), TRUE))
      BY <2>4, <2>5
    <3> DEFINE a(t) == UnixAddr(t)
               i(t) == UnixInfo(t)
    <3>2. \A t : Struct(a(t), TRUE) = i(t)
      BY DEF UnixInfo
    <3> HIDE DEF a, i
    <3>3. CASE gReq.type = "0" /\ gAddrs = <<a("STREAM"), a("DGRAM")>> /\ gList = <<>>
      <4>1. Head(gAddrs) = a("STREAM") /\ gAddrs' = <<a("DGRAM")>>
        BY <2>1, <3>3
      <4>2. gList' = Append(<<>>, i("STREAM"))
        BY <3>1, <3>2, <3>3, <4>1, Zenon
      <4>3. gList' = <<i("STREAM")>>
        BY <4>2
      <4> QED
        BY <2>1, <3>3, <4>1, <4>3, Zenon DEF UnixHalf, a, i
    <3>4. CASE gReq.type = "0" /\ gAddrs = <<a("DGRAM")>> /\ gList = <<i("STREAM")>>
      <4>1. Head(gAddrs) = a("DGRAM") /\ gAddrs' = <<>>
        BY <2>1, <3>4
      <4>2. gList' = Append(<<i("STREAM")>>, i("DGRAM"))
        BY <3>1, <3>2, <3>4, <4>1, Zenon
      <4>3. gList' = <<i("STREAM"), i("DGRAM")>>
        BY <4>2, AppendSecond, Zenon
      <4> QED
        BY <2>1, <3>4, <4>1, <4>3, Zenon DEF UnixList, a, i
    <3>5. CASE gReq.type # "0" /\ gAddrs = <<a(gReq.type)>> /\ gList = <<>>
      <4>1. Head(gAddrs) = a(gReq.type) /\ gAddrs' = <<>>
        BY <2>1, <3>5
      <4>2. gList' = Append(<<>>, i(gReq.type))
        BY <3>1, <3>2, <3>5, <4>1, Zenon
      <4>3. gList' = <<i(gReq.type)>>
        BY <4>2
      <4> QED
        BY <2>1, <3>5, <4>1, <4>3, Zenon DEF UnixList, a, i
    <3> QED
      BY <2>3, <3>3, <3>4, <3>5, Zenon DEF UnixHalf, a, i
  <2> QED
    BY <2>1, <2>3, <2>4, <2>5 DEF UnixInv
<1>6. CASE AddDone
  <2>1. /\ gPc = "add" /\ gAddrs = <<>> /\ gPc' = (IF gSearch # <<>> THEN "search" ELSE "canon")
        /\ UNCHANGED <<gReq, gImpl, gList, gAddrs>>
    BY <1>6 DEF AddDone
  <2>2. SUFFICES ASSUME UnixReq(gReq) PROVE UnixInv'
    BY <2>1, GaiFrame DEF UnixInv
  <2>3. \A x, y : <<x>> # <<>> /\ <<x, y>> # <<>>
    OBVIOUS
  <2>4. gImpl = "libgai" /\ gList = UnixList
    BY <2>1, <2>2, <2>3, Zenon DEF UnixInv, UnixHalf
  <2>5. UnixList' = UnixList
    BY <2>1, Zenon DEF UnixList
  <2> QED
    BY <2>1, <2>4, <2>5 DEF UnixInv
<1>7. CASE CanonName
  <2>1. gPc = "canon" /\ UNCHANGED <<gReq, gImpl>>
    BY <1>7 DEF CanonName
  <2>2. SUFFICES ASSUME UnixReq(gReq) PROVE UnixInv'
    BY <2>1, GaiFrame DEF UnixInv
  <2>3. gImpl = "libgai" /\ gList = UnixList
    BY <2>1, <2>2 DEF UnixInv
  <2>4. CanonName_libgai /\ gReq.host # "none"
    BY <1>7, <2>2, <2>3 DEF CanonName, CanonName_libfree, CanonName_old, UnixReq
  <2>5. \/ gPc' = "failed"
        \/ gPc' = AfterCanon /\ "CANON" \notin gReq.flags /\ gList' = gList
        \/ gPc' = AfterCanon /\ "CANON" \in gReq.flags /\ gList' = <<[gList[1] EXCEPT !.cn = TRUE]>> \o Tail(gList)
    BY <2>4, Zenon DEF CanonName_libgai, NoName, Named, Bad, UnixLost
  <2>6. AfterCanon = "returned"
    BY <2>2 DEF AfterCanon
  <2>7. gPc' = "returned" => UnixRight'
    BY <2>1, <2>3, <2>5, UnixPlain, UnixNamed
  <2> QED
    BY <2>5, <2>6, <2>7 DEF UnixInv
<1> QED
  BY <1>1, <1>2, <1>3, <1>4, <1>5, <1>6, <1>7 DEF GaiNext

-----------------------------------------------------------------------------
(* savecopy.c                                                               *)

Saved == gImpl = "savecopy" /\ ~UnixReq(gReq)

\* An empty element; the addresses of this call; the elements before and after their service is set.
BlankInfos == {ai \in Whole : ai.fam = "UNSPEC" /\ ~ai.sa /\ ~ai.clone /\ ai.type = "0"}
SavedAddrs == {a \in Addresses : OfThisCall(a[1], a[2]) /\ a[3] = gReq.type}
FoundInfos == {ai \in Whole : OfThisCall(ai.fam, ai.id) /\ ai.sa}
SavedPlain == BlankInfos \cup {ai \in FoundInfos : ai.type = gReq.type /\ ai.port = "none" /\ (ai.clone <=> ai.type = "0")}
WantedSet == {TypesWanted[j] : j \in 1 .. Len(TypesWanted)}
SavedPorted == BlankInfos \cup {ai \in FoundInfos : ai.type \in WantedSet \ {"0"} /\ ai.port = PortOf(ai.type)}

\* What is still to be looked up.
SavedSearch ==
    \/ gPc = "search" /\ gSearch = ga_nsearch(gReq) /\ gDns = NoAddrs
    \/ gReq.fam = "UNSPEC" /\ gSearch = <<SearchOf("INET")>> /\ gDns["INET"] = 0
    \/ gSearch = <<>>

SavedInv ==
    Saved =>
       /\ gPc \in {"search", "add"} => SavedSearch /\ gReq.fam \in {"UNSPEC", "INET", "INET6"} /\ gAddrs \in Seq(SavedAddrs)
       /\ gPc \in {"add", "canon"} /\ gCanon = "garbage" /\ gReq.host # "none" => gReq.host \in {"v4", "v6"}
       /\ gPc \in {"search", "add", "canon", "serv"} => gList \in Seq(SavedPlain)
       /\ gPc = "port" => gTodo \in {TypesTodo, <<>>} \/ (TypesTodo = <<"STREAM", "DGRAM">> /\ gTodo = <<"DGRAM">>)
       /\ gPc = "port" => gRc \in {"none", "ok"}
       /\ gPc = "port" /\ gRc = "none" => gList \in Seq(SavedPlain)
       /\ gPc = "returned" /\ gReq.serv = "none" => gList \in Seq(SavedPlain)
       /\ gPc \in {"port", "returned"} /\ gRc = "ok" /\ gReq.serv # "none" => gList \in Seq(SavedPorted)

\* The sets depend on the request, the services and the answers alone, and grow with the answers.
LEMMA SavedFrame ==
    ASSUME UNCHANGED <<gReq, gImpl>>
    PROVE  /\ (Saved' <=> Saved) /\ ga_nsearch(gReq)' = ga_nsearch(gReq) /\ (\A f : SearchOf(f)' = SearchOf(f))
           /\ gDns' = gDns => SavedAddrs' = SavedAddrs /\ FoundInfos' = FoundInfos /\ SavedPlain' = SavedPlain
           /\ gSvc' = gSvc => WantedSet' = WantedSet
           /\ gDns' = gDns /\ gSvc' = gSvc => SavedPorted' = SavedPorted
<1>1. Saved' <=> Saved
  BY GaiFrame DEF Saved
<1>2. ga_nsearch(gReq)' = ga_nsearch(gReq) /\ \A f : SearchOf(f)' = SearchOf(f)
  BY Zenon DEF SearchOf
<1>3. NumericFams' = NumericFams
  BY AddrsFrame
<1>4. ASSUME gDns' = gDns PROVE SavedAddrs' = SavedAddrs /\ FoundInfos' = FoundInfos /\ SavedPlain' = SavedPlain
  <2>1. \A f, id : OfThisCall(f, id)' <=> OfThisCall(f, id)
    BY <1>3, <1>4, Zenon DEF OfThisCall
  <2>2. SavedAddrs' = SavedAddrs /\ FoundInfos' = FoundInfos
    BY <2>1, Zenon DEF SavedAddrs, FoundInfos
  <2> QED
    BY <2>2, Zenon DEF SavedPlain
<1>5. ASSUME gSvc' = gSvc PROVE WantedSet' = WantedSet
  <2>1. TypesWanted' = TypesWanted
    BY <1>5, Zenon DEF TypesWanted
  <2> QED
    BY <2>1, Zenon DEF WantedSet
<1>6. ASSUME gDns' = gDns, gSvc' = gSvc PROVE SavedPorted' = SavedPorted
  <2>1. \A t : PortOf(t)' = PortOf(t)
    BY Zenon DEF PortOf
  <2> QED
    BY <1>4, <1>5, <1>6, <2>1, Zenon DEF SavedPorted
<1> QED
  BY <1>1, <1>2, <1>4, <1>5, <1>6

\* A search that is still to come is for an address of this call, or for a family not looked up yet.
LEMMA SavedNext ==
    ASSUME GaiHeap, SavedInv, Saved, gPc = "search", gSearch # <<>>
    PROVE  \E f \in {"INET", "INET6"} :
              /\ Head(gSearch) = SearchOf(f) /\ gDns[f] = 0 /\ gReq.fam \in {"UNSPEC", f}
              /\ Tail(gSearch) = <<>> \/ (gReq.fam = "UNSPEC" /\ Tail(gSearch) = <<SearchOf("INET")>> /\ f = "INET6" /\ gDns["INET"] = 0)
<1>1. gReq \in Requests /\ SavedSearch /\ gReq.fam \in {"UNSPEC", "INET", "INET6"}
  BY DEF GaiHeap, GaiTypes, SavedInv
<1>2. NoAddrs["INET"] = 0 /\ NoAddrs["INET6"] = 0
  BY DEF NoAddrs
<1>3. CASE gSearch = ga_nsearch(gReq) /\ gDns = NoAddrs /\ gReq.fam = "UNSPEC"
  <2>1. gSearch = <<SearchOf("INET6"), SearchOf("INET")>>
    BY <1>1, <1>3, SearchesAre
  <2>2. Head(gSearch) = SearchOf("INET6") /\ Tail(gSearch) = <<SearchOf("INET")>>
    BY <2>1, HeadOfTwo, Zenon
  <2> QED
    BY <1>2, <1>3, <2>2
<1>4. CASE gSearch = ga_nsearch(gReq) /\ gDns = NoAddrs /\ gReq.fam \in {"INET", "INET6"}
  <2>1. gSearch = <<SearchOf(gReq.fam)>>
    BY <1>1, <1>4, SearchesAre
  <2>2. Head(gSearch) = SearchOf(gReq.fam) /\ Tail(gSearch) = <<>>
    BY <2>1, HeadOfOne, Zenon
  <2>3. gDns[gReq.fam] = 0
    BY <1>2, <1>4
  <2> QED
    BY <1>4, <2>2, <2>3
<1>5. CASE gReq.fam = "UNSPEC" /\ gSearch = <<SearchOf("INET")>> /\ gDns["INET"] = 0
  <2>1. Head(gSearch) = SearchOf("INET") /\ Tail(gSearch) = <<>>
    BY <1>5, HeadOfOne, Zenon
  <2> QED
    BY <1>5, <2>1
<1> QED
  BY <1>1, <1>3, <1>4, <1>5 DEF SavedSearch

\* An address string that is searched for is an address of the call.
LEMMA SavedNumeric ==
    ASSUME gImpl = "savecopy", NEW f \in {"INET", "INET6"}, gReq.fam \in {"UNSPEC", f}, SearchOf(f).host \in {"v4", "v6"}
    PROVE  FamOf(SearchOf(f).host) \in NumericFams /\ (gReq.host # "none" => gReq.host \in {"v4", "v6"})
<1>1. SearchOf(f).host = IF gReq.host # "none" THEN gReq.host
                         ELSE IF f = "INET6" THEN "v6" ELSE IF "PASSIVE" \in gReq.flags THEN "v4" ELSE "name"
  BY DEF SearchOf
<1>2. CASE gReq.host # "none"
  BY <1>1, <1>2 DEF NumericFams, FamOf
<1>3. CASE gReq.host = "none"
  BY <1>1, <1>3 DEF NumericFams, FamOf
<1> QED
  BY <1>2, <1>3

\* The answers of a family that had none add addresses and take none away.
LEMMA SavedGrows ==
    ASSUME GaiHeap, UNCHANGED <<gReq, gImpl>>, gDns' = gDns \/ \E f \in {"INET", "INET6"}, n \in Nat : gDns[f] = 0 /\ gDns' = [gDns EXCEPT ![f] = n]
    PROVE  SavedAddrs \subseteq SavedAddrs' /\ SavedPlain \subseteq SavedPlain'
<1>1. gDns \in [{"INET", "INET6"} -> Nat] /\ NumericFams' = NumericFams
  BY AddrsFrame DEF GaiHeap, GaiTypes
<1>2. ASSUME NEW f, NEW id, OfThisCall(f, id) PROVE OfThisCall(f, id)'
  BY <1>1, <1>2 DEF OfThisCall
<1>3. SavedAddrs \subseteq SavedAddrs' /\ FoundInfos \subseteq FoundInfos'
  BY <1>2, Zenon DEF SavedAddrs, FoundInfos
<1> QED
  BY <1>3, Zenon DEF SavedPlain

\* The types a service is entered for are the ones wanted.
LEMMA SavedTodo ==
    ASSUME GaiHeap, GaiList, SavedInv, Saved, gPc = "port", gTodo # <<>>
    PROVE  /\ Head(gTodo) \in WantedSet \ {"0"} /\ (gReq.type = "0" \/ Head(gTodo) = gReq.type)
           /\ Tail(gTodo) = <<>> \/ (TypesTodo = <<"STREAM", "DGRAM">> /\ Tail(gTodo) = <<"DGRAM">>)
<1>1. /\ gReq \in Requests /\ gSvc \subseteq {"STREAM", "DGRAM"} /\ (gReq.serv # "name" => gSvc = {}) /\ gReq.serv # "none"
      /\ gReq.type \in SockTypes /\ gImpl = "savecopy"
  BY ReqFacts DEF GaiHeap, GaiTypes, GaiList, PlaceInv, Saved
<1>2. \/ TypesTodo = <<>>
      \/ TypesTodo = TypesWanted /\ \E t \in SockTypes : TypesTodo = <<t>> /\ (gReq.type = "0" \/ t = gReq.type)
      \/ TypesTodo = TypesWanted /\ TypesTodo = <<"STREAM", "DGRAM">> /\ gReq.type = "0"
  BY <1>1, TodoFacts
<1>3. (gTodo = TypesTodo) \/ (TypesTodo = <<"STREAM", "DGRAM">> /\ gTodo = <<"DGRAM">>)
  BY DEF SavedInv
<1>4. CASE TypesTodo = TypesWanted /\ TypesTodo = <<"STREAM", "DGRAM">> /\ gReq.type = "0"
  <2>1. TypesWanted[1] = "STREAM" /\ TypesWanted[2] = "DGRAM" /\ Len(TypesWanted) = 2
    BY <1>4
  <2>2. "STREAM" \in WantedSet /\ "DGRAM" \in WantedSet
    BY <2>1 DEF WantedSet
  <2>3. \/ Head(gTodo) = "STREAM" /\ Tail(gTodo) = <<"DGRAM">>
        \/ Head(gTodo) = "DGRAM" /\ Tail(gTodo) = <<>>
    <3>1. gTodo = <<"STREAM", "DGRAM">> \/ gTodo = <<"DGRAM">>
      BY <1>3, <1>4
    <3>2. CASE gTodo = <<"STREAM", "DGRAM">>
      BY <3>2, HeadOfTwo, Zenon
    <3>3. CASE gTodo = <<"DGRAM">>
      BY <3>3, HeadOfOne, Zenon
    <3> QED
      BY <3>1, <3>2, <3>3
  <2> QED
    BY <1>4, <2>2, <2>3
<1>5. CASE TypesTodo = TypesWanted /\ \E t \in SockTypes : TypesTodo = <<t>> /\ (gReq.type = "0" \/ t = gReq.type)
  <2>1. PICK t \in SockTypes : TypesTodo = <<t>> /\ (gReq.type = "0" \/ t = gReq.type)
    BY <1>5
  <2>2. <<t>> # <<"STREAM", "DGRAM">> /\ <<t>>[1] = t /\ Len(<<t>>) = 1
    OBVIOUS
  <2>3. gTodo = <<t>> /\ TypesWanted = <<t>>
    BY <1>3, <1>5, <2>1, <2>2
  <2>4. Head(gTodo) = t /\ Tail(gTodo) = <<>>
    BY <2>3, HeadOfOne, Zenon
  <2>5. t \in WantedSet
    BY <2>2, <2>3 DEF WantedSet
  <2>6. t # "0"
    <3>1. CASE gReq.serv = "13" /\ gReq.type # "0"
      BY <2>1, <3>1
    <3>2. CASE ~(gReq.serv = "13" /\ gReq.type # "0")
      <4>1. TypesTodo = ByName(gSvc)
        BY <1>1, <3>2 DEF TypesTodo
      <4> DEFINE x == IF gReq.type \in {"0", "STREAM"} /\ "STREAM" \in gSvc THEN <<"STREAM">> ELSE <<>>
                 y == IF gReq.type \in {"0", "DGRAM"} /\ "DGRAM" \in gSvc THEN <<"DGRAM">> ELSE <<>>
      <4>2. x \o y = <<t>>
        BY <2>1, <4>1, Zenon DEF ByName
      <4>3. (x = <<"STREAM">> \/ x = <<>>) /\ (y = <<"DGRAM">> \/ y = <<>>)
        BY Zenon
      <4> HIDE DEF x, y
      <4>4. x \o y \in {<<"STREAM", "DGRAM">>, <<"STREAM">>, <<"DGRAM">>, <<>>}
        <5>1. <<>> \o <<>> = <<>>
          OBVIOUS
        <5>2. /\ <<"STREAM">> \o <<"DGRAM">> = <<"STREAM", "DGRAM">> /\ <<>> \o <<"DGRAM">> = <<"DGRAM">>
              /\ <<"STREAM">> \o <<>> = <<"STREAM">>
          BY JoinTwo
        <5> QED
          BY <4>3, <5>1, <5>2, Zenon
      <4> QED
        BY <4>2, <4>4
    <3> QED
      BY <3>1, <3>2
  <2> QED
    BY <2>1, <2>4, <2>5, <2>6
<1>6. TypesTodo # <<>>
  BY <1>3
<1> QED
  BY <1>2, <1>4, <1>5, <1>6

\* ga_port() enters the port of the type in every element that is not empty.
LEMMA SavedPass ==
    ASSUME NEW ai \in SavedPlain \cup SavedPorted, NEW t \in SockTypes, t \in WantedSet \ {"0"}, gReq.type = "0" \/ t = gReq.type,
           PortOf(t) \in GaiPorts
    PROVE  Ported(ai, PortOf(t), t) \in Seq(SavedPorted)
<1> DEFINE copy == [ga_clone(ai) EXCEPT !.type = t, !.port = PortOf(t)]
           same == [ai EXCEPT !.type = t, !.port = PortOf(t)]
<1>1. ai \in Whole /\ ai \in AddrInfos /\ ai.clone \in BOOLEAN
  BY DEF SavedPlain, SavedPorted, BlankInfos, FoundInfos, Whole, AddrInfos
<1>2. /\ copy \in Whole /\ copy.fam = ai.fam /\ copy.id = ai.id /\ copy.type = t /\ copy.port = PortOf(t) /\ copy.sa = ai.sa
      /\ same \in Whole /\ same.fam = ai.fam /\ same.id = ai.id /\ same.type = t /\ same.port = PortOf(t) /\ same.sa = ai.sa
  BY <1>1 DEF Whole, AddrInfos, ga_clone, GaiPorts
<1>3. Ported(ai, PortOf(t), t) = IF NeedsClone(ai) THEN <<ai, copy>> ELSE IF ~ai.clone /\ ai.type # t THEN <<ai>> ELSE <<same>>
  BY DEF Ported
<1> HIDE DEF copy, same
<1>4. ai \in FoundInfos => copy \in SavedPorted /\ same \in SavedPorted
  <2>1. ai \in FoundInfos => copy \in FoundInfos /\ same \in FoundInfos
    BY <1>2 DEF FoundInfos
  <2> QED
    BY <1>2, <2>1 DEF SavedPorted
<1>5. CASE ai \in BlankInfos
  <2>1. ~ai.clone /\ ai.type # t /\ ai \in SavedPorted
    BY <1>5 DEF BlankInfos, SavedPorted
  <2>2. Ported(ai, PortOf(t), t) = <<ai>>
    BY <1>3, <2>1 DEF NeedsClone
  <2> QED
    BY <2>1, <2>2
<1>6. CASE ai \in SavedPlain /\ ai \notin BlankInfos
  <2>1. ai \in FoundInfos /\ ai.type = gReq.type /\ (ai.clone <=> ai.type = "0")
    BY <1>6 DEF SavedPlain
  <2>2. Ported(ai, PortOf(t), t) = <<same>>
    BY <1>3, <2>1 DEF NeedsClone
  <2> QED
    BY <1>4, <2>1, <2>2
<1>7. CASE ai \in SavedPorted /\ ai \notin BlankInfos
  <2>1. ai \in FoundInfos
    BY <1>7 DEF SavedPorted
  <2>2. Ported(ai, PortOf(t), t) \in {<<ai, copy>>, <<ai>>, <<same>>}
    BY <1>3, Zenon
  <2>3. <<ai, copy>> \in Seq(SavedPorted) /\ <<ai>> \in Seq(SavedPorted) /\ <<same>> \in Seq(SavedPorted)
    BY <1>4, <1>7, <2>1
  <2> QED
    BY <2>2, <2>3
<1> QED
  BY <1>5, <1>6, <1>7 DEF SavedPlain, SavedPorted

\* What is made of an address of the call.
LEMMA SavedStruct ==
    ASSUME gReq.fam \in {"UNSPEC", "INET", "INET6"}, NEW a \in SavedAddrs
    PROVE  Struct(a, TRUE) \in SavedPlain
<1>1. a \in Addresses /\ OfThisCall(a[1], a[2]) /\ a[3] = gReq.type
  BY DEF SavedAddrs
<1>2. NumericFams \subseteq {"INET", "INET6"}
  BY DEF NumericFams, FamOf
<1>3. a[1] # "LOCAL"
  BY <1>1, <1>2 DEF OfThisCall
<1>4. Struct(a, TRUE) \in Whole
  BY <1>1, StructType, InfoSets
<1>5. /\ Struct(a, TRUE).fam = a[1] /\ Struct(a, TRUE).id = a[2] /\ Struct(a, TRUE).type = a[3] /\ Struct(a, TRUE).port = "none"
      /\ Struct(a, TRUE).sa = TRUE /\ (Struct(a, TRUE).clone <=> a[3] = "0")
  BY <1>3 DEF Struct
<1> HIDE DEF Struct
<1>6. Struct(a, TRUE) \in FoundInfos
  BY <1>1, <1>4, <1>5, Zenon DEF FoundInfos
<1> QED
  BY <1>1, <1>5, <1>6 DEF SavedPlain

\* What ga_aistruct() has made when it succeeds.
LEMMA StructMade ==
    ASSUME NEW a, NEW list, NEW live, NEW o \in ga_aistruct(a, list, live), o.rc = "ok"
    PROVE  o.list = Append(list, Struct(a, TRUE))
<1>1. \/ o = [rc |-> "MEMORY", list |-> list, live |-> live]
      \/ o = [rc |-> IF TooLong(a) THEN "SERVICE" ELSE "MEMORY", list |-> Append(list, Struct(a, FALSE)), live |-> live + 1]
      \/ o = [rc |-> "ok", list |-> Append(list, Struct(a, TRUE)), live |-> live + 2]
  BY Zenon DEF ga_aistruct
<1> DEFINE f == Append(list, Struct(a, FALSE))
           t == Append(list, Struct(a, TRUE))
           e == IF TooLong(a) THEN "SERVICE" ELSE "MEMORY"
<1>2. e # "ok"
  OBVIOUS
<1> HIDE DEF f, t, e
<1>3. o = [rc |-> "MEMORY", list |-> list, live |-> live] \/ o = [rc |-> e, list |-> f, live |-> live + 1]
      \/ o = [rc |-> "ok", list |-> t, live |-> live + 2]
  BY <1>1, Zenon DEF f, t, e
<1>4. o.list = t
  BY <1>2, <1>3
<1> QED
  BY <1>4 DEF t

\* savecopy.c's lookup: an address string, or the answer of the resolver.
LEMMA SavedHost == ASSUME GaiHeap, GaiList, SavedInv, Saved, HostStep PROVE SavedInv'
<1>1. /\ gPc = "search" /\ gSearch # <<>> /\ UNCHANGED <<gImpl, gReq, gTodo, gSvc>> /\ gSearch' = Tail(gSearch)
      /\ gReq.type \in SockTypes /\ gDns \in [{"INET", "INET6"} -> Nat]
  BY HostCommon
<1>2. PICK f \in {"INET", "INET6"} :
         /\ Head(gSearch) = SearchOf(f) /\ gDns[f] = 0 /\ gReq.fam \in {"UNSPEC", f}
         /\ Tail(gSearch) = <<>> \/ (gReq.fam = "UNSPEC" /\ Tail(gSearch) = <<SearchOf("INET")>> /\ f = "INET6" /\ gDns["INET"] = 0)
  BY <1>1, SavedNext
<1>3. gImpl = "savecopy" /\ (Saved' <=> Saved) /\ \A g : SearchOf(g)' = SearchOf(g)
  BY <1>1, SavedFrame DEF Saved
<1>4. Search_old
  BY <1>3 DEF HostStep, NumericHost, LookupHost, getaddrinfo_host
<1>5. gList \in Seq(SavedPlain) /\ gReq.fam \in {"UNSPEC", "INET", "INET6"}
  BY <1>1 DEF SavedInv
<1>6. SearchOf(f).fam = f
  BY DEF SearchOf
<1> DEFINE s == Head(gSearch)
<1>7. \/ /\ s.host \in {"v4", "v6"} /\ gAddrs' = Numeric(FamOf(s.host)) /\ gPc' = "add"
         /\ UNCHANGED <<gCanon, gDns, gRes, gList, gLive, gRc>>
      \/ \E r \in Lookups(f) :
             /\ Resolve(f, r)
             /\ IF r.err = "ok" THEN gAddrs' = r.addrs /\ gPc' = "add" /\ gCanon' = "none" /\ UNCHANGED <<gList, gLive, gRc>>
                ELSE Bad(r.err, gList, gLive) /\ UNCHANGED <<gAddrs, gCanon>>
  <2>1. s.fam = f
    BY <1>2, <1>6
  <2> QED
    BY <1>4, <2>1, Zenon DEF Search_old
<1>8. ASSUME gPc' = "add", SavedAddrs \subseteq SavedAddrs', SavedPlain \subseteq SavedPlain', gAddrs' \in Seq(SavedAddrs'), gList' = gList,
             gDns' = gDns \/ \E n \in Nat : gDns' = [gDns EXCEPT ![f] = n],
             gCanon' = "garbage" /\ gReq.host # "none" => gReq.host \in {"v4", "v6"}
      PROVE  SavedInv'
  <2>1. gList' \in Seq(SavedPlain')
    BY <1>5, <1>8, SeqGrows
  <2>2. SavedSearch'
    <3>1. CASE Tail(gSearch) = <<>>
      BY <1>1, <3>1 DEF SavedSearch
    <3>2. CASE gReq.fam = "UNSPEC" /\ Tail(gSearch) = <<SearchOf("INET")>> /\ f = "INET6" /\ gDns["INET"] = 0
      <4>1. gDns'["INET"] = 0
        BY <1>1, <1>8, <3>2
      <4>2. gSearch' = <<SearchOf("INET")'>>
        BY <1>1, <1>3, <3>2, Zenon
      <4> QED
        BY <1>1, <3>2, <4>1, <4>2 DEF SavedSearch
    <3> QED
      BY <1>2, <3>1, <3>2
  <2> QED
    BY <1>1, <1>5, <1>8, <2>1, <2>2 DEF SavedInv
<1>9. CASE /\ s.host \in {"v4", "v6"} /\ gAddrs' = Numeric(FamOf(s.host)) /\ gPc' = "add"
           /\ UNCHANGED <<gCanon, gDns, gRes, gList, gLive, gRc>>
  <2>1. FamOf(SearchOf(f).host) \in NumericFams /\ (gReq.host # "none" => gReq.host \in {"v4", "v6"})
    BY <1>2, <1>3, <1>9, SavedNumeric
  <2> DEFINE a == <<FamOf(s.host), 0, gReq.type>>
  <2>2. SavedAddrs' = SavedAddrs /\ SavedPlain' = SavedPlain
    BY <1>1, <1>9, SavedFrame
  <2>3. a \in SavedAddrs
    <3>1. FamOf(s.host) \in NumericFams /\ FamOf(s.host) \in {"INET", "INET6"}
      BY <1>2, <2>1 DEF FamOf
    <3> HIDE DEF s
    <3>2. a \in Addresses /\ a[1] = FamOf(s.host) /\ a[2] = 0 /\ a[3] = gReq.type
      BY <1>1, <3>1 DEF Addresses
    <3> HIDE DEF a
    <3> QED
      BY <3>1, <3>2 DEF SavedAddrs, OfThisCall
  <2>4. gAddrs' = <<a>>
    BY <1>9 DEF Numeric
  <2> HIDE DEF a
  <2>5. gAddrs' \in Seq(SavedAddrs')
    BY <2>2, <2>3, <2>4
  <2> QED
    BY <1>8, <1>9, <2>1, <2>2, <2>5
<1>10. CASE \E r \in Lookups(f) :
             /\ Resolve(f, r)
             /\ IF r.err = "ok" THEN gAddrs' = r.addrs /\ gPc' = "add" /\ gCanon' = "none" /\ UNCHANGED <<gList, gLive, gRc>>
                ELSE Bad(r.err, gList, gLive) /\ UNCHANGED <<gAddrs, gCanon>>
  <2>1. PICK r \in Lookups(f) :
             /\ Resolve(f, r)
             /\ IF r.err = "ok" THEN gAddrs' = r.addrs /\ gPc' = "add" /\ gCanon' = "none" /\ UNCHANGED <<gList, gLive, gRc>>
                ELSE Bad(r.err, gList, gLive) /\ UNCHANGED <<gAddrs, gCanon>>
    BY <1>10
  <2>2. /\ Len(r.addrs) \in Nat /\ r.addrs = [k \in 1 .. Len(r.addrs) |-> <<f, k, gReq.type>>]
        /\ r.addrs \in Seq(Addresses)
    BY <1>1, LookupFacts
  <2>3. gDns' = [gDns EXCEPT ![f] = Len(r.addrs)]
    BY <2>1 DEF Resolve
  <2>4. CASE r.err # "ok"
    BY <2>1, <2>4 DEF Bad, SavedInv
  <2>5. CASE r.err = "ok"
    <3>1. SavedAddrs \subseteq SavedAddrs' /\ SavedPlain \subseteq SavedPlain'
      BY <1>1, <1>2, <2>2, <2>3, SavedGrows
    <3> DEFINE n == Len(r.addrs)
    <3>2. gDns'[f] = n /\ n \in Nat
      BY <1>1, <2>2, <2>3
    <3> HIDE DEF n
    <3>3. ASSUME NEW k \in 1 .. n PROVE <<f, k, gReq.type>> \in SavedAddrs'
      <4>1. k \in 1 .. gDns'[f] /\ k \in Nat
        BY <3>2
      <4> DEFINE a == <<f, k, gReq.type>>
      <4>2. a \in Addresses /\ a[1] = f /\ a[2] = k /\ a[3] = gReq'.type
        BY <1>1, <4>1 DEF Addresses
      <4> HIDE DEF a
      <4>3. OfThisCall(f, k)'
        BY <4>1, Zenon DEF OfThisCall
      <4>4. a \in SavedAddrs'
        BY <4>2, <4>3, Zenon DEF SavedAddrs
      <4> QED
        BY <4>4 DEF a
    <3>4. gAddrs' = [k \in 1 .. n |-> <<f, k, gReq.type>>]
      BY <2>1, <2>2, <2>5 DEF n
    <3>5. gAddrs' \in [1 .. n -> SavedAddrs']
      BY <3>3, <3>4
    <3>6. gAddrs' \in Seq(SavedAddrs')
      BY <3>2, <3>5
    <3> QED
      BY <1>8, <2>1, <2>2, <2>3, <2>5, <3>1, <3>6
  <2> QED
    BY <2>4, <2>5
<1> QED
  BY <1>7, <1>9, <1>10

\* savecopy.c makes an addrinfo{} of an address, behind an empty one if it was looked up.
LEMMA SavedAdd == ASSUME GaiHeap, GaiList, SavedInv, Saved, AddOne PROVE SavedInv'
<1> DEFINE a == Head(gAddrs)
           E == [Struct(<<"UNSPEC", 0, "0">>, FALSE) EXCEPT !.clone = FALSE]
<1>1. /\ gPc = "add" /\ gAddrs # <<>> /\ gAddrs' = Tail(gAddrs)
      /\ UNCHANGED <<gImpl, gReq, gSearch, gCanon, gTodo, gDns, gSvc>>
  BY DEF AddOne
<1>2. gList \in Seq(SavedPlain) /\ gAddrs \in Seq(SavedAddrs) /\ SavedSearch /\ gReq.fam \in {"UNSPEC", "INET", "INET6"}
      /\ gImpl = "savecopy" /\ ~UnixReq(gReq)
      /\ (gCanon = "garbage" /\ gReq.host # "none" => gReq.host \in {"v4", "v6"})
  BY <1>1 DEF SavedInv, Saved
<1>3. a \in SavedAddrs /\ gAddrs' \in Seq(SavedAddrs)
  BY <1>1, <1>2
<1>4. E \in SavedPlain
  <2>1. E \in Whole /\ E.fam = "UNSPEC" /\ E.sa = FALSE /\ E.clone = FALSE /\ E.type = "0"
    BY DEF Struct, Whole, AddrInfos, SockTypes
  <2> HIDE DEF E
  <2> QED
    BY <2>1 DEF SavedPlain, BlankInfos
<1>5. Struct(a, TRUE) \in SavedPlain
  BY <1>2, <1>3, SavedStruct
<1> HIDE DEF a, E
<1>6. PICK o :
        /\ o \in ga_aistruct(a, gList, gLive) \/ o \in ga_aistruct_old(a, gList, gLive)
        /\ IF o.rc = "ok" THEN gList' = o.list /\ gLive' = o.live /\ UNCHANGED <<gPc, gRc>>
           ELSE Bad(o.rc, o.list, o.live)
  BY <1>2, Zenon DEF AddOne, a
<1>7. CASE o.rc # "ok"
  BY <1>6, <1>7 DEF Bad, SavedInv
<1>8. CASE o.rc = "ok"
  <2>1. o \in ga_aistruct(a, gList, gLive) \/ o \in ga_aistruct(a, Append(gList, E), gLive + 1)
    <3>1. CASE o \in ga_aistruct_old(a, gList, gLive)
      <4>1. o \in {[rc |-> "MEMORY", list |-> gList, live |-> gLive]} \/ o \in ga_aistruct(a, Append(gList, E), gLive + 1)
        BY <3>1, Zenon DEF ga_aistruct_old, E
      <4>2. o # [rc |-> "MEMORY", list |-> gList, live |-> gLive]
        BY <1>8
      <4> QED
        BY <4>1, <4>2
    <3> QED
      BY <1>6, <3>1
  <2>2. o.list = Append(gList, Struct(a, TRUE)) \/ o.list = Append(Append(gList, E), Struct(a, TRUE))
    BY <1>8, <2>1, StructMade
  <2> DEFINE x == Struct(a, TRUE)
  <2> HIDE DEF x
  <2>3. o.list \in Seq(SavedPlain)
    <3>1. x \in SavedPlain /\ (o.list = Append(gList, x) \/ o.list = Append(Append(gList, E), x))
      BY <1>5, <2>2 DEF x
    <3>2. Append(gList, E) \in Seq(SavedPlain)
      BY <1>2, <1>4, AppendProperties
    <3> QED
      BY <1>2, <3>1, <3>2, AppendProperties
  <2>4. gList' \in Seq(SavedPlain) /\ gPc' = "add"
    BY <1>1, <1>6, <1>8, <2>3
  <2>5. SavedAddrs' = SavedAddrs /\ SavedPlain' = SavedPlain /\ SearchOf("INET")' = SearchOf("INET")
    BY <1>1, SavedFrame
  <2>6. SavedSearch'
    BY <1>1, <1>2, <2>5, Zenon DEF SavedSearch
  <2> QED
    BY <1>1, <1>2, <1>3, <2>4, <2>5, <2>6 DEF SavedInv
<1> QED
  BY <1>7, <1>8

\* savecopy.c's ga_port(): every element gets the port of the type, or stays empty.
LEMMA SavedPort == ASSUME GaiHeap, GaiList, SavedInv, Saved, PortStep PROVE SavedInv'
<1> DEFINE t == Head(gTodo)
           port == IF gReq.serv = "13" THEN "13" ELSE t
<1>1. /\ gPc = "port" /\ gTodo # <<>> /\ gTodo' = Tail(gTodo) /\ t \in SockTypes
      /\ UNCHANGED <<gImpl, gReq, gSearch, gDouble, gAddrs, gCanon, gDns, gSvc>>
      /\ \/ gList' = PortedUpto(Len(gList), port, t, gList) /\ gRc' = "ok" /\ gPc' = "port"
         \/ gPc' = "failed"
  BY PortPass, Zenon DEF Bad
<1>2. gReq.serv # "none" /\ gList \in Seq(Whole) /\ gRc \in {"none", "ok"}
  BY <1>1 DEF GaiHeap, GaiTypes, GaiList, PlaceInv, SavedInv
<1>3. /\ t \in WantedSet \ {"0"} /\ (gReq.type = "0" \/ t = gReq.type)
      /\ Tail(gTodo) = <<>> \/ (TypesTodo = <<"STREAM", "DGRAM">> /\ Tail(gTodo) = <<"DGRAM">>)
  BY <1>1, SavedTodo
<1>4. port = PortOf(t) /\ PortOf(t) \in GaiPorts
  BY <1>1, <1>2 DEF PortOf, GaiPorts
<1> HIDE DEF t, port
<1>5. gList \in Seq(SavedPlain \cup SavedPorted)
  <2>1. gList \in Seq(SavedPlain) \/ gList \in Seq(SavedPorted)
    BY <1>1, <1>2 DEF SavedInv
  <2>2. SavedPlain \subseteq SavedPlain \cup SavedPorted /\ SavedPorted \subseteq SavedPlain \cup SavedPorted
    BY Zenon
  <2> QED
    BY <2>1, <2>2, SeqGrows
<1>6. SavedPorted' = SavedPorted /\ TypesTodo' = TypesTodo
  BY <1>1, SavedFrame, ListFrame
<1>7. CASE gPc' = "failed"
  BY <1>7 DEF SavedInv
<1>8. CASE gList' = PortedUpto(Len(gList), port, t, gList) /\ gRc' = "ok" /\ gPc' = "port"
  <2> DEFINE n == Len(gList)
             P(k) == Ported(gList[k], port, t)
             ss == [k \in 1 .. n |-> P(k)]
  <2>1. n \in Nat /\ \A k \in 1 .. n : gList[k] \in SavedPlain \cup SavedPorted
    BY <1>5
  <2>2. \A k \in 1 .. n : P(k) \in Seq(SavedPorted)
    BY <1>1, <1>3, <1>4, <2>1, SavedPass
  <2>3. ss \in Seq(Seq(SavedPorted))
    <3> HIDE DEF P, n
    <3> QED
      BY <2>1, <2>2
  <2>4. gList' = FlattenSeq(ss)
    BY <1>8, Zenon DEF PortedUpto
  <2> HIDE DEF ss
  <2>5. gList' \in Seq(SavedPorted)
    BY <2>3, <2>4, FlattenType
  <2> QED
    BY <1>1, <1>3, <1>6, <1>8, <2>5 DEF SavedInv
<1> QED
  BY <1>1, <1>7, <1>8

\* savecopy.c enters the name in the first element.
LEMMA SavedCanon == ASSUME GaiHeap, GaiList, SavedInv, Saved, CanonName PROVE SavedInv'
<1>1. gPc = "canon" /\ UNCHANGED <<gImpl, gReq, gDns, gSvc>> /\ gImpl = "savecopy" /\ ~UnixReq(gReq)
  BY DEF CanonName, Saved
<1>2. gList \in Seq(SavedPlain) /\ gList # <<>>
  BY <1>1 DEF SavedInv, GaiHeap, HeapInv
<1>3. SavedPlain' = SavedPlain
  BY <1>1, SavedFrame
<1>4. \/ gPc' \in {"failed", "crashed"}
      \/ gPc' = AfterCanon /\ gList' = gList
      \/ gPc' = AfterCanon /\ gList' = <<[gList[1] EXCEPT !.cn = TRUE]>> \o Tail(gList)
  BY <1>1, Zenon DEF CanonName, CanonName_libgai, CanonName_libfree, CanonName_old, NoName, Named, Bad
<1>5. AfterCanon \in {"returned", "serv"} /\ (AfterCanon = "returned" => gReq.serv = "none")
  BY <1>1 DEF AfterCanon
<1>6. <<[gList[1] EXCEPT !.cn = TRUE]>> \o Tail(gList) \in Seq(SavedPlain)
  <2> DEFINE x == gList[1]
             y == [x EXCEPT !.cn = TRUE]
  <2>1. x \in SavedPlain /\ Tail(gList) \in Seq(SavedPlain)
    BY <1>2
  <2>2. x \in Whole
    BY <2>1 DEF SavedPlain, BlankInfos, FoundInfos
  <2> HIDE DEF x
  <2>3. /\ y \in Whole /\ y.fam = x.fam /\ y.id = x.id /\ y.type = x.type /\ y.port = x.port /\ y.sa = x.sa /\ y.clone = x.clone
    BY <2>2 DEF Whole, AddrInfos
  <2> HIDE DEF y
  <2>4. y \in SavedPlain
    BY <2>1, <2>2, <2>3 DEF SavedPlain, BlankInfos, FoundInfos
  <2>5. <<y>> \o Tail(gList) \in Seq(SavedPlain)
    BY <2>1, <2>4
  <2> QED
    BY <2>5 DEF x, y
<1>7. CASE gPc' \in {"failed", "crashed"}
  BY <1>7 DEF SavedInv
<1>8. CASE gPc' = AfterCanon /\ gList' \in Seq(SavedPlain)
  BY <1>1, <1>3, <1>5, <1>8 DEF SavedInv
<1> QED
  BY <1>2, <1>4, <1>6, <1>7, <1>8, Zenon

\* Every step of savecopy.c keeps its invariant.
LEMMA SavedKept == GaiHeap /\ GaiList /\ SavedInv /\ [GaiNext]_gaiVars => SavedInv'
<1> SUFFICES ASSUME GaiHeap, GaiList, SavedInv, [GaiNext]_gaiVars PROVE SavedInv'
  OBVIOUS
<1>1. CASE UNCHANGED gaiVars
  <2>1. UNCHANGED <<gImpl, gPc, gReq, gSearch, gAddrs, gList, gCanon, gTodo, gDns, gSvc, gRc>>
    BY <1>1 DEF gaiVars
  <2>2. /\ (Saved' <=> Saved) /\ SavedAddrs' = SavedAddrs /\ SavedPlain' = SavedPlain /\ SavedPorted' = SavedPorted
        /\ SearchOf("INET")' = SearchOf("INET") /\ TypesTodo' = TypesTodo
    BY <2>1, SavedFrame, ListFrame
  <2>3. SavedSearch' <=> SavedSearch
    BY <2>1, <2>2, Zenon DEF SavedSearch
  <2> QED
    BY <2>1, <2>2, <2>3, Zenon DEF SavedInv
<1>2. CASE GaiCall \/ Release \/ NextCall
  <2>1. gPc' \in {"check", "freed", "idle"}
    BY <1>2, Zenon DEF GaiCall, Release, NextCall
  <2> QED
    BY <2>1 DEF SavedInv
<1>3. CASE (HostStep \/ AddOne \/ PortStep \/ CanonName) /\ Saved
  BY <1>3, SavedHost, SavedAdd, SavedPort, SavedCanon
<1>4. CASE (HostStep \/ AddOne \/ PortStep \/ CanonName) /\ ~Saved
  <2>1. UNCHANGED <<gImpl, gReq>>
    BY <1>4, Zenon DEF HostStep, AddOne, PortStep, CanonName
  <2>2. ~Saved'
    BY <1>4, <2>1, SavedFrame
  <2> QED
    BY <2>2 DEF SavedInv
<1>5. CASE UnixStep
  <2>1. gPc = "unix" /\ UNCHANGED <<gImpl, gReq>>
    BY <1>5, Zenon DEF UnixStep, ga_unix
  <2>2. ~Saved'
    BY <2>1, SavedFrame DEF Saved, GaiHeap, HeapInv
  <2> QED
    BY <2>2 DEF SavedInv
<1>6. CASE CheckStep
  <2>1. UNCHANGED <<gImpl, gReq, gAddrs, gTodo, gDns, gSvc>> /\ gPc = "check"
    BY <1>6, Zenon DEF CheckStep, CheckArgs, CheckArgs_old, CheckArgs_libfree
  <2>2. SUFFICES ASSUME Saved PROVE SavedInv'
    BY <2>1, SavedFrame DEF SavedInv
  <2>3. gImpl = "savecopy" /\ ~UnixReq(gReq) /\ gList = <<>> /\ gAddrs = <<>> /\ gDns = NoAddrs /\ gReq \in Requests
    BY <2>1, <2>2 DEF Saved, GaiHeap, HeapInv, GaiTypes, GaiList, PlaceInv
  <2>4. CheckArgs_old
    BY <1>6, <2>3 DEF CheckStep, CheckArgs, CheckArgs_libfree
  <2>5. \/ gPc' \in {"failed", "crashed", "quit"}
        \/ ga_echeck(gReq) = "ok" /\ ga_nsearch(gReq) # <<>> /\ gPc' = "search" /\ gSearch' = ga_nsearch(gReq) /\ gList' = gList
    BY <2>3, <2>4, Zenon DEF CheckArgs_old, Wild, Bad, BeginLookup, ga_echeck_old, ga_nsearch_old
  <2>6. CASE gPc' \in {"failed", "crashed", "quit"}
    BY <2>6 DEF SavedInv
  <2>7. CASE ga_echeck(gReq) = "ok" /\ ga_nsearch(gReq) # <<>> /\ gPc' = "search" /\ gSearch' = ga_nsearch(gReq) /\ gList' = gList
    <3>1. gReq.fam \in {"UNSPEC", "INET", "INET6"}
      BY <2>3, <2>7, SearchesAre, ReqFacts DEF ga_echeck, FamilyCheck
    <3>2. SavedSearch'
      BY <2>1, <2>3, <2>7, Zenon DEF SavedSearch
    <3>3. gList' \in Seq(SavedPlain') /\ gAddrs' \in Seq(SavedAddrs')
      BY <2>1, <2>3, <2>7
    <3> QED
      BY <2>1, <2>7, <3>1, <3>2, <3>3 DEF SavedInv
  <2> QED
    BY <2>5, <2>6, <2>7
<1>7. CASE AddDone
  <2>1. /\ gPc = "add" /\ gAddrs = <<>> /\ gPc' = (IF gSearch # <<>> THEN "search" ELSE "canon")
        /\ UNCHANGED <<gImpl, gReq, gSearch, gAddrs, gList, gCanon, gTodo, gDns, gSvc>>
    BY <1>7 DEF AddDone
  <2>2. /\ (Saved' <=> Saved) /\ SavedAddrs' = SavedAddrs /\ SavedPlain' = SavedPlain /\ SearchOf("INET")' = SearchOf("INET")
    BY <2>1, SavedFrame
  <2>3. Saved => SavedSearch'
    BY <2>1, <2>2 DEF SavedInv, SavedSearch
  <2> QED
    BY <2>1, <2>2, <2>3 DEF SavedInv
<1>8. CASE ServStep
  <2>1. gPc = "serv" /\ gPc' = "port" /\ gRc' = "none" /\ UNCHANGED <<gImpl, gReq, gList, gDns>>
    BY <1>8 DEF ServStep
  <2>2. (Saved' <=> Saved) /\ SavedPlain' = SavedPlain
    BY <2>1, SavedFrame
  <2>3. Saved => gTodo' = TypesTodo'
    <3>1. SUFFICES ASSUME gImpl = "savecopy" PROVE gTodo' = TypesTodo'
      BY DEF Saved
    <3>2. TypesTodo' = IF gReq.serv = "13" /\ gReq.type # "0" THEN <<gReq.type>> ELSE ByName(gSvc')
      BY <2>1, <3>1 DEF TypesTodo, ByName
    <3>3. getaddrinfo_serv
      BY <1>8, <3>1 DEF ServStep, ga_serv, ga_serv_old
    <3> QED
      BY <3>2, <3>3 DEF getaddrinfo_serv
  <2> QED
    BY <2>1, <2>2, <2>3 DEF SavedInv
<1>9. CASE PortsDone
  <2>1. /\ gPc = "port" /\ UNCHANGED <<gImpl, gReq, gDns, gSvc>>
        /\ (gRc = "ok" /\ gPc' = "returned" /\ gList' = gList) \/ gPc' = "failed"
    BY <1>9 DEF PortsDone, Bad
  <2>2. (Saved' <=> Saved) /\ SavedPorted' = SavedPorted /\ gReq.serv # "none"
    BY <2>1, SavedFrame DEF GaiList, PlaceInv
  <2> QED
    BY <2>1, <2>2 DEF SavedInv
<1> QED
  BY <1>1, <1>2, <1>3, <1>4, <1>5, <1>6, <1>7, <1>8, <1>9 DEF GaiNext

-----------------------------------------------------------------------------
(* The calls that end otherwise                                             *)

\* libgai always returns; the others crash, and return without a result, only where they are known to.
LEMMA EndsKept == GaiHeap /\ GaiList /\ UnixInv /\ SavedInv /\ OtherEnds /\ [GaiNext]_gaiVars => OtherEnds'
<1> SUFFICES ASSUME GaiHeap, GaiList, UnixInv, SavedInv, OtherEnds, [GaiNext]_gaiVars PROVE OtherEnds'
  OBVIOUS
<1>0. gReq \in Requests /\ gImpl \in {"libgai", "libfree", "savecopy"}
  BY DEF GaiHeap, GaiTypes
<1>1. CASE UNCHANGED gaiVars
  BY <1>1, GaiFrame, Zenon DEF gaiVars, OtherEnds
<1>2. CASE GaiCall \/ NextCall
  <2>1. gPc' \in {"check", "idle"} /\ gRc' = "none"
    BY <1>2 DEF GaiCall, NextCall, GaiList, PlaceInv
  <2> QED
    BY <2>1 DEF OtherEnds
<1>3. CASE Release \/ AddDone
  <2>1. gPc' \notin {"crashed", "quit"} /\ gRc' = gRc /\ UNCHANGED <<gReq, gImpl>>
    BY <1>3 DEF Release, AddDone
  <2> QED
    BY <2>1, GaiFrame DEF OtherEnds
<1>4. CASE PortsDone \/ ServStep
  <2>1. gPc' \notin {"crashed", "quit"} /\ gRc' # "nothing"
    BY <1>4 DEF PortsDone, ServStep, Bad
  <2> QED
    BY <2>1 DEF OtherEnds
<1>5. CASE PortStep
  <2>1. gPc' \notin {"crashed", "quit"} /\ gRc' # "nothing"
    BY <1>5, PortPass DEF Bad
  <2> QED
    BY <2>1 DEF OtherEnds
<1>6. CASE AddOne
  <2>1. UNCHANGED <<gReq, gImpl>> /\ gPc = "add" /\ gPc' \in {"add", "failed"}
    BY <1>6, Zenon DEF AddOne, UnixLost, Bad
  <2>2. gRc' = gRc \/ gRc' # "nothing"
    <3>1. CASE gImpl # "savecopy"
      BY <1>6, <3>1, AddOneMakes
    <3>2. CASE gImpl = "savecopy"
      <4>1. PICK o :
              /\ o \in ga_aistruct(Head(gAddrs), gList, gLive) \/ o \in ga_aistruct_old(Head(gAddrs), gList, gLive)
              /\ (UNCHANGED gRc) \/ gRc' = o.rc
        BY <1>6, Zenon DEF AddOne, UnixLost, Bad, fill_libfree
      <4>2. ASSUME NEW a, NEW list, NEW live, NEW x \in ga_aistruct(a, list, live) PROVE x.rc # "nothing"
        <5> DEFINE f == Append(list, Struct(a, FALSE))
                   t == Append(list, Struct(a, TRUE))
                   e == IF TooLong(a) THEN "SERVICE" ELSE "MEMORY"
        <5>1. x = [rc |-> "MEMORY", list |-> list, live |-> live] \/ x = [rc |-> e, list |-> f, live |-> live + 1]
              \/ x = [rc |-> "ok", list |-> t, live |-> live + 2]
          BY Zenon DEF ga_aistruct
        <5>2. e # "nothing"
          OBVIOUS
        <5> HIDE DEF f, t, e
        <5> QED
          BY <5>1, <5>2
      <4>3. \A a, list, live : \A x \in ga_aistruct_old(a, list, live) : x.rc # "nothing"
        <5> HIDE DEF ga_aistruct
        <5> QED
          BY <4>2 DEF ga_aistruct_old
      <4> QED
        BY <4>1, <4>2, <4>3, Zenon
    <3> QED
      BY <3>1, <3>2
  <2> QED
    BY <2>1, <2>2, GaiFrame DEF OtherEnds
<1>7. CASE UnixStep
  <2>1. UNCHANGED <<gReq, gImpl>> /\ gPc = "unix" /\ UnixReq(gReq)
    BY <1>7, Zenon DEF UnixStep, ga_unix, GaiHeap, HeapInv
  <2>2. gPc' \in {"add", "failed", "returned"} /\ (gRc' = "nothing" => gImpl # "libgai" \/ gRc' = gRc)
    BY <1>7 DEF UnixStep, ga_unix, ga_unix_old, addrinfo_local, UnixLost
  <2> QED
    BY <2>1, <2>2, GaiFrame DEF OtherEnds
<1>8. CASE CanonName
  <2>1. gPc = "canon" /\ UNCHANGED <<gReq, gImpl>>
    BY <1>8 DEF CanonName
  <2>2. gRc' # "nothing" /\ gPc' # "quit"
    BY <1>8, <2>1, Zenon DEF CanonName, CanonName_libgai, CanonName_libfree, CanonName_old, NoName, Named, Bad, UnixLost, AfterCanon
  <2>3. gPc' = "crashed" => gImpl = "savecopy" /\ "CANON" \in gReq.flags /\ gReq.host # "none" /\ gCanon = "garbage"
    BY <1>8, <2>1, Zenon DEF CanonName, CanonName_libgai, CanonName_libfree, CanonName_old, NoName, Named, Bad, UnixLost, AfterCanon
  <2>4. gPc' = "crashed" => gReq.host \in {"v4", "v6"}
    BY <2>1, <2>3 DEF SavedInv, Saved, UnixInv
  <2> QED
    BY <2>1, <2>2, <2>3, <2>4 DEF OtherEnds
<1>9. CASE HostStep
  <2>1. gPc = "search" /\ UNCHANGED <<gReq, gImpl>> /\ (gImpl = "libfree" => gList = <<>>)
    BY <1>9, HostCommon
  <2>2. /\ gPc' \in {"failed", "add"} \/ (gPc' = "crashed" /\ gImpl = "libfree" /\ gList' = gList)
    BY <1>9, Zenon DEF HostStep, NumericHost, LookupHost, Search_old, getaddrinfo_host, Bad, Wild
  <2>3. gRc' = gRc \/ gRc' # "nothing"
    <3>1. \A f, r : r \in Lookups(f) => r.err # "nothing"
      BY DEF Lookups
    <3> QED
      BY <1>9, <3>1, Zenon DEF HostStep, NumericHost, LookupHost, Search_old, getaddrinfo_host, Bad, Wild
  <2> QED
    BY <2>1, <2>2, <2>3, GaiFrame DEF OtherEnds
<1>10. CASE CheckStep
  <2>1. gPc = "check" /\ UNCHANGED <<gReq, gImpl>> /\ gList = <<>> /\ gRc = "none"
    BY <1>10, Zenon DEF CheckStep, CheckArgs, CheckArgs_old, CheckArgs_libfree, GaiHeap, HeapInv, GaiList, PlaceInv
  <2>2. gRc' # "nothing"
    <3>1. ga_echeck(gReq) # "nothing" /\ echeck_libfree(gReq) # "nothing"
      BY DEF ga_echeck, echeck_libfree, FamilyCheck
    <3> QED
      BY <1>10, <2>1, <3>1, Zenon DEF CheckStep, CheckArgs, CheckArgs_old, CheckArgs_libfree, ga_echeck_old, Bad, Wild, BeginLookup
  <2>3. gPc' = "crashed" => gImpl # "libgai" /\ gList' = gList
    BY <1>10, Zenon DEF CheckStep, CheckArgs, CheckArgs_old, CheckArgs_libfree, Bad, Wild, BeginLookup
  <2>4. gPc' = "quit" => \/ gImpl # "libfree" /\ ga_echeck(gReq) = "ok" /\ ga_nsearch(gReq) = <<>>
                         \/ gImpl = "libfree" /\ search_libfree(gReq) = <<>>
    BY <1>10, Zenon DEF CheckStep, CheckArgs, CheckArgs_old, CheckArgs_libfree, ga_echeck_old, ga_nsearch_old, Bad, Wild, BeginLookup
  <2>5. search_libfree(gReq) # <<>>
    BY DEF search_libfree
  <2>6. ga_echeck(gReq) = "ok" /\ ga_nsearch(gReq) = <<>> => gReq.fam = "LOCAL"
    <3>1. ga_echeck(gReq) = "ok" => gReq.fam # "bad"
      BY DEF ga_echeck, FamilyCheck
    <3>2. \A x, y : <<x>> # <<>> /\ <<x, y>> # <<>>
      OBVIOUS
    <3>3. gReq.fam \in {"UNSPEC", "INET", "INET6", "LOCAL", "bad"}
      BY <1>0, ReqFacts
    <3>4. gReq.fam = "UNSPEC" => ga_nsearch(gReq) # <<>>
      BY <1>0, <3>2, SearchesAre, Zenon
    <3>5. gReq.fam \in {"INET", "INET6"} => ga_nsearch(gReq) # <<>>
      BY <1>0, <3>2, SearchesAre, Zenon
    <3> QED
      BY <3>1, <3>3, <3>4, <3>5
  <2> QED
    BY <2>1, <2>2, <2>3, <2>4, <2>5, <2>6 DEF OtherEnds
<1> QED
  BY <1>1, <1>2, <1>3, <1>4, <1>5, <1>6, <1>7, <1>8, <1>9, <1>10 DEF GaiNext

\* All invariants of a call.
GaiAll == GaiHeap /\ GaiList /\ UnixInv /\ SavedInv /\ OtherEnds

\* They hold in every behaviour.
LEMMA AllIs == GaiSpec => []GaiAll
<1>1. GaiInit => GaiAll
  <2> SUFFICES ASSUME GaiInit PROVE GaiAll
    OBVIOUS
  <2>1. gPc = "idle" /\ gRc = "none"
    BY DEF GaiInit, GaiStart
  <2> QED
    BY <2>1, GaiHeapInit, ListStarts DEF GaiAll, UnixInv, SavedInv, OtherEnds
<1>2. GaiAll /\ [GaiNext]_gaiVars => GaiAll'
  BY HeapStep, ListStep, UnixKept, SavedKept, EndsKept, Zenon DEF GaiAll
<1> QED
  BY <1>1, <1>2, PTL DEF GaiSpec

\* savecopy.c returns elements of this call, and empty ones.
LEMMA SavedReturned ==
    ASSUME GaiHeap, GaiList, SavedInv, gPc = "returned", gRc = "ok"
    PROVE  SavedRight
<1>1. SUFFICES ASSUME Saved, NEW k \in 1 .. Len(gList)
               PROVE  \/ gList[k].fam = "UNSPEC" /\ ~gList[k].sa
                      \/ /\ OfThisCall(gList[k].fam, gList[k].id) /\ gList[k].sa
                         /\ (\E j \in 1 .. Len(TypesWanted) : gList[k].type = TypesWanted[j])
                         /\ gList[k].port = PortOf(gList[k].type)
  BY Zenon DEF SavedRight, Saved
<1>2. CASE gReq.serv = "none"
  <2>1. gList \in Seq(SavedPlain)
    BY <1>1, <1>2 DEF SavedInv
  <2>2. gList[k] \in SavedPlain
    BY <2>1
  <2>3. TypesWanted[1] = gReq.type /\ Len(TypesWanted) = 1 /\ \A t : PortOf(t) = "none"
    BY <1>2 DEF TypesWanted, PortOf
  <2> QED
    BY <2>2, <2>3 DEF SavedPlain, BlankInfos, FoundInfos
<1>3. CASE gReq.serv # "none"
  <2>1. gList \in Seq(SavedPorted)
    BY <1>1, <1>3 DEF SavedInv
  <2>2. gList[k] \in SavedPorted
    BY <2>1
  <2> QED
    BY <2>2, Zenon DEF SavedPorted, BlankInfos, FoundInfos, WantedSet
<1> QED
  BY <1>2, <1>3

\* The invariants imply that the list and the error code are right.
LEMMA ListRightHere == GaiAll => ListRight
<1> SUFFICES ASSUME GaiAll PROVE ListRight
  OBVIOUS
<1>1. GaiHeap /\ GaiList /\ UnixInv /\ SavedInv
  BY DEF GaiAll
<1>2. gImpl = "libgai" /\ gRc = "ADDRFAMILY" => gReq.host \in {"v4", "v6", "/path"}
  BY <1>1 DEF GaiList, CodeInv
<1>3. ASSUME gPc = "returned", gRc = "ok" PROVE InetRight /\ UnixRight /\ SavedRight
  <2>1. InetRight
    BY <1>1, <1>3, ReturnedRight, Zenon DEF InetRight
  <2>2. UnixRight
    BY <1>1, <1>3, Zenon DEF UnixInv, UnixRight
  <2> QED
    BY <1>1, <1>3, <2>1, <2>2, SavedReturned
<1>4. ASSUME gPc \in {"returned", "failed"}, gImpl = "libgai", do_errtest # "any" PROVE gRc \in {do_errtest, "MEMORY"}
  BY <1>1, <1>4, CodesRight
<1> QED
  BY <1>2, <1>3, <1>4, Zenon DEF ListRight

\* getaddrinfo() of libgai and libfree returns every address with every socket type, each once
\* and in order, or the right error; a pathname gives its Unix domain sockets; savecopy.c's list
\* has no address, type or port of another call.  Nothing is left on the heap but what the code
\* is known to forget, and libfree and savecopy.c crash, or return 0 without a result, only where
\* OtherEnds says so, however many addresses the resolver returns and whichever allocation fails
\* (libgai/getaddrinfo.c, libfree/getaddrinfo.c, libgai/old/savecopy.c).
THEOREM GaiIsRight == GaiSpec => []GaiRight
<1>1. GaiAll => GaiRight
  BY HeapNothingLeaks, ListRightHere DEF GaiRight, GaiAll
<1> QED
  BY <1>1, AllIs, PTL
==============================================================================
