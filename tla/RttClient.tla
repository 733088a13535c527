------------------------------ MODULE RttClient ------------------------------
(***************************************************************************)
(* The UDP client that adds reliability with timeout and retransmission     *)
(* (rtt/dg_cli.c, dg_send_recv.c, lib/rtt.c, lib/unprtt.h) and its echo     *)
(* server (rtt/dg_echo.c), over a network that loses, duplicates, delays    *)
(* and reorders datagrams.  The clock ticks in seconds.                     *)
(***************************************************************************)
EXTENDS Integers

CONSTANTS
    RTT_RXTMIN, RTT_RXTMAX, RTT_MAXNREXMT,
    NRequests,  \* bound: lines that dg_cli() sends
    MaxNow,     \* bound: where the clock stops
    TsMod       \* timestamps are TsMod-valued (2^32 milliseconds in the code)

ASSUME RttAssumption ==
    /\ RTT_RXTMIN \in Nat \ {0} /\ RTT_RXTMAX \in Nat /\ RTT_RXTMIN <= RTT_RXTMAX
    /\ RTT_MAXNREXMT \in Nat /\ NRequests \in Nat /\ MaxNow \in Nat /\ TsMod \in Nat \ {0}

\* The estimators are floats; here they are multiples of 1/Unit seconds, which is exact
\* for the at most NRequests divisions by 8 and by 4 that can happen.
Unit == 32 ^ NRequests

\* Laws of arithmetic, true of all numbers, for the powers that occur below.
ASSUME PowerLaws ==
    /\ Unit \in Nat \ {0} /\ 2 ^ 0 = 1
    /\ \A n \in 0 .. RTT_MAXNREXMT : 2 ^ n \in Nat \ {0} /\ 2 ^ (n + 1) = 2 * 2 ^ n

Abs(x) == IF x < 0 THEN -x ELSE x

-----------------------------------------------------------------------------
(* lib/rtt.c: the functions on struct rtt_info                              *)

RTT_RTOCALC(srtt, rttvar) == srtt + 4 * rttvar

rtt_minmax(rto) == IF rto < RTT_RXTMIN * Unit THEN RTT_RXTMIN * Unit
                   ELSE IF rto > RTT_RXTMAX * Unit THEN RTT_RXTMAX * Unit
                   ELSE rto

rtt_init == LET rttvar == (3 * Unit) \div 4 IN
            [srtt |-> 0, rttvar |-> rttvar, rto |-> rtt_minmax(RTT_RTOCALC(0, rttvar)),
             nrexmt |-> 0]

\* milliseconds since rtt_init(), as an unsigned integer that wraps around
rtt_ts(t) == t % TsMod

rtt_newpack(r) == [r EXCEPT !.nrexmt = 0]

\* the RTO, rounded to a whole number of seconds for alarm()
rtt_start(r) == (r.rto + Unit \div 2) \div Unit

\* s is the measured round-trip time
rtt_stop(r, s) ==
    LET delta == s * Unit - r.srtt
        srtt == r.srtt + delta \div 8
        rttvar == r.rttvar + (Abs(delta) - r.rttvar) \div 4
    IN  [r EXCEPT !.srtt = srtt, !.rttvar = rttvar, !.rto = rtt_minmax(RTT_RTOCALC(srtt, rttvar))]

\* The next RTO is doubled; the second component tells whether to give up.
rtt_timeout(r) == LET n == r.nrexmt + 1 IN
                  << [r EXCEPT !.rto = 2 * @, !.nrexmt = n], n > RTT_MAXNREXMT >>

-----------------------------------------------------------------------------
VARIABLES
    now,       \* the clock
    reqs,      \* requests sent; any of them may still reach the server, again and again
    reps,      \* replies sent; any of them may still reach the client, again and again
    rpc,        \* where dg_send_recv() is, or "idle" in dg_cli()
    rttinit, rttinfo,
    seq,       \* sendhdr.seq
    recvhdr,   \* recvhdr and inbuff: the datagram received last
    deadline,  \* when SIGALRM will be sent, or 0 if no alarm is set
    printed,   \* the lines dg_cli() has printed
    sample     \* the last measurement, with the time it should have measured

rttVars == <<now, reqs, reps, rpc, rttinit, rttinfo, seq, recvhdr, deadline, printed, sample>>

\* seq and ts are the header, line the data; at is when this copy was sent.
Datagram == [seq : 1 .. NRequests, ts : 0 .. TsMod - 1, line : 1 .. NRequests, at : 0 .. MaxNow]
NoDatagram == [seq |-> 0, ts |-> 0, line |-> 0, at |-> 0]

RttTypes ==
    /\ now \in 0 .. MaxNow
    /\ reqs \subseteq Datagram /\ reps \subseteq reqs
    /\ rpc \in {"idle", "send", "recv", "got", "done", "quit"}
    /\ rttinit \in {0, 1}
    /\ rttinfo.srtt \in Nat /\ rttinfo.rttvar \in Nat /\ rttinfo.rto \in Nat
    /\ rttinfo.nrexmt \in 0 .. RTT_MAXNREXMT + 1
    /\ seq \in 0 .. NRequests
    /\ recvhdr \in Datagram \cup {NoDatagram}
    /\ deadline \in Nat
    /\ sample.ms \in Nat /\ sample.real \in Nat

RttStart(where, t) ==
    /\ now = t /\ reqs = {} /\ reps = {}
    /\ rpc = where /\ rttinit = 0 /\ rttinfo = rtt_init
    /\ seq = 0 /\ recvhdr = NoDatagram /\ deadline = 0
    /\ printed = [k \in {} |-> 0]
    /\ sample = [ms |-> 0, real |-> 0]

RttInit == RttStart("idle", 0)

AlarmDue == deadline # 0 /\ now >= deadline

\* An alarm that is due is delivered before more time passes, and a client that is about
\* to send does so (a later send is a later Call).
Tick ==
    /\ now < MaxNow /\ ~AlarmDue /\ rpc # "send"
    /\ now' = now + 1
    /\ UNCHANGED <<reqs, reps, rpc, rttinit, rttinfo, seq, recvhdr, deadline, printed, sample>>

\* dg_echo(): the server returns what it receives.
Echo ==
    /\ \E m \in reqs \ reps : reps' = reps \cup {m}
    /\ UNCHANGED <<now, reqs, rpc, rttinit, rttinfo, seq, recvhdr, deadline, printed, sample>>

-----------------------------------------------------------------------------
(* dg_cli() and dg_send_recv()                                              *)

\* Another line: the next sequence number, and no retransmission yet.
Call ==
    /\ rpc = "idle" /\ seq < NRequests
    /\ seq' = seq + 1
    /\ rttinit' = 1
    /\ rttinfo' = rtt_newpack(IF rttinit = 0 THEN rtt_init ELSE rttinfo)
    /\ rpc' = "send"
    /\ UNCHANGED <<now, reqs, reps, recvhdr, deadline, printed, sample>>

RttEof ==
    /\ rpc = "idle"
    /\ rpc' = "done"
    /\ UNCHANGED <<now, reqs, reps, rttinit, rttinfo, seq, recvhdr, deadline, printed, sample>>

\* alarm(rtt_start(&rttinfo))
StartTimer_FirstTimeOnly == deadline' = IF rttinfo.nrexmt = 0 THEN now + rtt_start(rttinfo) ELSE 0
StartTimer == deadline' = now + rtt_start(rttinfo)

\* sendhdr.ts: each copy has its own timestamp
TimeStamp_FirstCopy ==
    LET sent == {m \in reqs : m.seq = seq} IN
    IF sent = {} THEN rtt_ts(now) ELSE (CHOOSE m \in sent : \A n \in sent : m.at <= n.at).ts
TimeStamp == rtt_ts(now)

\* sendagain:
SendAgain ==
    /\ rpc = "send"
    /\ reqs' = reqs \cup {[seq |-> seq, ts |-> TimeStamp, line |-> seq, at |-> now]}
    /\ StartTimer
    /\ rpc' = "recv"
    /\ UNCHANGED <<now, reps, rttinit, rttinfo, seq, recvhdr, printed, sample>>

\* while (... || recvhdr.seq != sendhdr.seq)
Matches(m) == m.seq = seq

Recvmsg ==
    /\ rpc = "recv"
    /\ \E m \in reps :
        /\ recvhdr' = m
        /\ rpc' = IF Matches(m) THEN "got" ELSE "recv"
    /\ UNCHANGED <<now, reqs, reps, rttinit, rttinfo, seq, deadline, printed, sample>>

\* alarm(0), rtt_stop() and the return to dg_cli(), which prints the line
Stop ==
    /\ rpc = "got"
    /\ deadline' = 0
    /\ sample' = [ms |-> (rtt_ts(now) - recvhdr.ts) % TsMod, real |-> now - recvhdr.at]
    /\ rttinfo' = rtt_stop(rttinfo, (rtt_ts(now) - recvhdr.ts) % TsMod)
    /\ printed' = [k \in DOMAIN printed \cup {seq} |-> IF k = seq THEN recvhdr.line ELSE printed[k]]
    /\ rpc' = "idle"
    /\ UNCHANGED <<now, reqs, reps, rttinit, seq, recvhdr>>

\* sig_alrm() jumps back, also from behind the loop, before alarm(0).
RttAlarm ==
    /\ rpc \in {"recv", "got"} /\ AlarmDue
    /\ deadline' = 0
    /\ rttinfo' = rtt_timeout(rttinfo)[1]
    /\ \/ rtt_timeout(rttinfo)[2] /\ rpc' = "quit" /\ rttinit' = 0
       \/ ~rtt_timeout(rttinfo)[2] /\ rpc' = "send" /\ UNCHANGED rttinit
    /\ UNCHANGED <<now, reqs, reps, seq, recvhdr, printed, sample>>

RttStep == Call \/ RttEof \/ SendAgain \/ Stop \/ RttAlarm

RttNext == Tick \/ Echo \/ RttStep \/ Recvmsg

\* Time passes and the client is scheduled; the network owes nothing.
RttFair == WF_rttVars(Tick) /\ WF_rttVars(RttStep)

RttSpec == RttInit /\ [][RttNext]_rttVars /\ RttFair

-----------------------------------------------------------------------------
(* Properties.                                                              *)

\* Every line printed is the reply to the line that was sent, whatever the network did
\* to earlier requests and replies (dg_send_recv.c:81-86).
ReplyMatches == \A k \in DOMAIN printed : printed[k] = k

\* The round-trip time that is measured is that of the very copy the reply answers, not
\* of the first or the last transmission, and also when the timestamp has wrapped around
\* (rtt.c:52, dg_send_recv.c:60,90).
SampleExact == sample.real < TsMod => sample.ms = sample.real

\* Types are kept, and the backoff of one request does not outlive it: the RTO is
\* between RTT_RXTMIN and RTT_RXTMAX, doubled once for each timeout of the current
\* request (rtt.c:101,114).
BackoffBounded ==
    /\ RttTypes
    /\ rttinfo.rto >= RTT_RXTMIN * Unit
    /\ rttinfo.rto <= RTT_RXTMAX * Unit * 2 ^ rttinfo.nrexmt

\* Reply, measurement and timer belong to the request they are used for
\* (dg_send_recv.c:53-93, rtt.c:48-122).
ReplyExact == ReplyMatches /\ SampleExact /\ BackoffBounded

\* Every call of dg_send_recv() ends with a reply or gives up, though the network may
\* lose everything (dg_send_recv.c:63-78); Patience is the longest its timers can run.
Patience == RTT_RXTMAX * (2 ^ (RTT_MAXNREXMT + 1) - 1)
CallEnds ==
    (rpc = "send" /\ rttinfo.nrexmt = 0 /\ now + Patience <= MaxNow)
    ~> rpc \in {"idle", "done", "quit"}
=============================================================================
