------------------------------ MODULE SigioEcho ------------------------------
(***************************************************************************)
(* The UDP echo server with signal-driven I/O (sigio/dgecho01.c): the       *)
(* handler of SIGIO reads datagrams into the ring dg[], the main loop       *)
(* echoes them.  The two share nqueue; the main loop blocks SIGIO while it  *)
(* looks at it.                                                             *)
(***************************************************************************)
EXTENDS Naturals, Sequences

CONSTANTS QSIZE,   \* slots of dg[]
          RcvBuf,  \* datagrams the kernel holds for the socket; it drops the others
          NDgrams  \* bound: datagrams that are sent to the server

ASSUME SigioAssumption == QSIZE \in Nat \ {0} /\ RcvBuf \in Nat \ {0} /\ NDgrams \in Nat

VARIABLES
    arrived,   \* number of datagrams sent so far; the k-th is called k
    sockbuf,   \* the socket's receive buffer
    pending,   \* a SIGIO has been generated and not delivered
    dg,        \* the ring; 0 is a slot never used
    iget, iput, nqueue,
    mpc,       \* where dg_echo() is
    inHandler, \* sig_io() is running, the main loop interrupted
    nread,     \* local variable of sig_io()
    received,  \* the datagrams read by sig_io(), in order
    sent,      \* the datagrams echoed, in order
    early,     \* how many datagrams had been sent when FIOASYNC was set
    exitBy     \* why the process ended

sigioVars == <<arrived, sockbuf, pending, dg, iget, iput, nqueue, mpc, inHandler, nread,
          received, sent, early, exitBy>>

Slots == 0 .. QSIZE - 1
Dgrams == 1 .. NDgrams

SigioTypes ==
    /\ arrived \in 0 .. NDgrams
    /\ sockbuf \in Seq(Dgrams) /\ Len(sockbuf) <= RcvBuf
    /\ pending \in BOOLEAN
    /\ dg \in [Slots -> Dgrams \cup {0}]
    /\ iget \in Slots /\ iput \in Slots
    /\ nqueue \in 0 .. QSIZE
    /\ mpc \in {"setup", "async", "nonblock", "check", "suspend", "send", "advance", "block", "dec"}
    /\ inHandler \in BOOLEAN
    /\ nread \in 0 .. QSIZE   \* it indexes cntread[QSIZE+1]
    /\ received \in Seq(Dgrams) /\ sent \in Seq(Dgrams) /\ early \in 0 .. NDgrams
    /\ exitBy \in {"running", "overflow", "error"}

SigioStart(how) ==
    /\ arrived = 0 /\ sockbuf = <<>> /\ pending = FALSE
    /\ dg = [k \in Slots |-> 0]
    /\ iget = 0 /\ iput = 0 /\ nqueue = 0
    /\ mpc = "setup"
    /\ inHandler = FALSE /\ nread = 0
    /\ received = <<>> /\ sent = <<>> /\ early = 0
    /\ exitBy = how

SigioInit == SigioStart("running")

Running == exitBy = "running"

\* if (++i >= QSIZE) i = 0
Bump(i) == IF i + 1 >= QSIZE THEN 0 ELSE i + 1

\* The kernel: a datagram arrives and, if there is room for it and FIOASYNC is set, raises SIGIO.
DgramArrives ==
    /\ Running /\ arrived < NDgrams
    /\ arrived' = arrived + 1
    /\ \/ /\ Len(sockbuf) < RcvBuf
          /\ sockbuf' = Append(sockbuf, arrived')
          /\ pending' = (mpc # "setup")
       \/ /\ Len(sockbuf) = RcvBuf
          /\ UNCHANGED <<sockbuf, pending>>
    /\ UNCHANGED <<dg, iget, iput, nqueue, mpc, inHandler, nread, received, sent, early, exitBy>>

-----------------------------------------------------------------------------
(* sig_io()                                                                 *)

\* SIGIO is blocked from the second Sigprocmask() to the first, except in sigsuspend().
Blocked == mpc \in {"check", "dec"}

DeliverSigio ==
    /\ Running /\ pending /\ ~inHandler /\ ~Blocked
    /\ pending' = FALSE
    /\ inHandler' = TRUE /\ nread' = 0
    /\ UNCHANGED <<arrived, sockbuf, dg, iget, iput, nqueue, mpc, received, sent, early, exitBy>>

\* if (nqueue >= QSIZE) err_quit("receive overflow")
Overflow == nqueue >= QSIZE

HandlerOverflow ==
    /\ Running /\ inHandler /\ Overflow
    /\ exitBy' = "overflow"
    /\ UNCHANGED <<arrived, sockbuf, pending, dg, iget, iput, nqueue, mpc, inHandler, nread,
                   received, sent, early>>

\* recvfrom() into dg[iput]
HandlerRecv ==
    /\ Running /\ inHandler /\ ~Overflow /\ sockbuf # <<>>
    /\ dg' = [dg EXCEPT ![iput] = Head(sockbuf)]
    /\ sockbuf' = Tail(sockbuf)
    /\ received' = Append(received, Head(sockbuf))
    /\ nread' = nread + 1 /\ nqueue' = nqueue + 1
    /\ iput' = Bump(iput)
    /\ UNCHANGED <<arrived, pending, iget, mpc, inHandler, sent, early, exitBy>>

\* EWOULDBLOCK: the handler returns, and sigsuspend() with it if the main loop was there.
\* Before FIONBIO has been set recvfrom() waits for another datagram instead.
Resume_StillAsleep == mpc
Resume == IF mpc = "suspend" THEN "check" ELSE mpc

HandlerReturn ==
    /\ Running /\ inHandler /\ ~Overflow /\ sockbuf = <<>> /\ mpc # "async"
    /\ inHandler' = FALSE /\ nread' = 0
    /\ mpc' = Resume
    /\ UNCHANGED <<arrived, sockbuf, pending, dg, iget, iput, nqueue, received, sent, early, exitBy>>

-----------------------------------------------------------------------------
(* dg_echo()                                                                *)

MainRuns == Running /\ ~inHandler

\* dg_echo() starts: the handlers and FIOASYNC, then FIONBIO, then SIGIO is blocked.
StartStep ==
    /\ MainRuns
    /\ \/ mpc = "setup" /\ mpc' = "async" /\ early' = arrived
       \/ mpc = "async" /\ mpc' = "nonblock" /\ UNCHANGED early
       \/ mpc = "nonblock" /\ mpc' = "check" /\ UNCHANGED early
    /\ UNCHANGED <<arrived, sockbuf, pending, dg, iget, iput, nqueue, inHandler, nread,
                   received, sent, exitBy>>

\* while (nqueue == 0) sigsuspend(&zeromask); otherwise SIGIO is unblocked.
Check ==
    /\ MainRuns /\ mpc = "check"
    /\ mpc' = IF nqueue = 0 THEN "suspend" ELSE "send"
    /\ UNCHANGED <<arrived, sockbuf, pending, dg, iget, iput, nqueue, inHandler, nread,
                   received, sent, early, exitBy>>

\* sig_hup() prints the histogram and wakes sigsuspend().
SigHup ==
    /\ MainRuns /\ mpc = "suspend"
    /\ mpc' = "check"
    /\ UNCHANGED <<arrived, sockbuf, pending, dg, iget, iput, nqueue, inHandler, nread,
                   received, sent, early, exitBy>>

SendTo ==
    /\ MainRuns /\ mpc = "send"
    /\ sent' = Append(sent, dg[iget])
    /\ mpc' = "advance"
    /\ UNCHANGED <<arrived, sockbuf, pending, dg, iget, iput, nqueue, inHandler, nread,
                   received, early, exitBy>>

\* Sendto(), recvfrom(), Fcntl() and Ioctl() quit on an error.
IoError ==
    /\ Running
    /\ (inHandler /\ ~Overflow) \/ (~inHandler /\ mpc \in {"setup", "async", "send"})
    /\ exitBy' = "error"
    /\ UNCHANGED <<arrived, sockbuf, pending, dg, iget, iput, nqueue, mpc, inHandler, nread,
                   received, sent, early>>

Advance ==
    /\ MainRuns /\ mpc = "advance"
    /\ iget' = Bump(iget)
    /\ mpc' = "block"
    /\ UNCHANGED <<arrived, sockbuf, pending, dg, iput, nqueue, inHandler, nread,
                   received, sent, early, exitBy>>

Block ==
    /\ MainRuns /\ mpc = "block"
    /\ mpc' = "dec"
    /\ UNCHANGED <<arrived, sockbuf, pending, dg, iget, iput, nqueue, inHandler, nread,
                   received, sent, early, exitBy>>

\* nqueue--, with SIGIO blocked
OneLess(n) == n - 1

Decrement ==
    /\ MainRuns /\ mpc = "dec"
    /\ nqueue' = OneLess(nqueue)
    /\ mpc' = "check"
    /\ UNCHANGED <<arrived, sockbuf, pending, dg, iget, iput, inHandler, nread,
                   received, sent, early, exitBy>>

MainStep == StartStep \/ Check \/ SendTo \/ Advance \/ Block \/ Decrement
HandlerStep == DeliverSigio \/ HandlerOverflow \/ HandlerRecv \/ HandlerReturn

SigioNext == DgramArrives \/ HandlerStep \/ MainStep \/ SigHup \/ IoError

\* The process is scheduled, and a pending signal is delivered once it is not blocked,
\* or when it is unblocked again and again.
SigioFair == WF_sigioVars(MainStep) /\ WF_sigioVars(HandlerStep) /\ SF_sigioVars(DeliverSigio)

SigioSpec == SigioInit /\ [][SigioNext]_sigioVars /\ SigioFair

-----------------------------------------------------------------------------
(* Properties.                                                              *)

\* Datagrams are echoed in the order in which they were read, each once and unchanged:
\* the handler never overwrites a slot whose datagram has not been sent
\* (dgecho01.c:64-72,86-104).
EchoInOrder == Len(sent) <= Len(received) /\ sent = SubSeq(received, 1, Len(sent))

\* Types are kept, and nqueue counts the slots the handler may not touch: those still
\* to be sent, and the one just sent until nqueue-- (dgecho01.c:67-72,102).
SlotsInUse == Len(received) - Len(sent) + (IF mpc \in {"advance", "block", "dec"} THEN 1 ELSE 0)
NqueueExact == SigioTypes /\ nqueue = SlotsInUse

\* Two things that can go wrong while dg_echo() starts.  The datagrams that came before
\* FIOASYNC raised no SIGIO (dgecho01.c:48) and wait until a later one comes, for ever if
\* they fill the buffer; and a handler called before FIONBIO (dgecho01.c:48-49) waits in
\* recvfrom() and never returns to the main loop.
Unannounced == sockbuf # <<>> /\ \A k \in DOMAIN sockbuf : sockbuf[k] <= early
CaughtInRecv == inHandler /\ mpc = "async"

\* Every datagram in the socket's buffer is echoed in the end, unless the server quits or
\* what has just been described has happened: once one SIGIO has come to a server that has
\* started, none is missed between the test of nqueue and sigsuspend() (dgecho01.c:56-62).
AllEchoed == []<>((sockbuf = <<>> /\ Len(sent) = Len(received)) \/ ~Running \/ Unannounced \/ CaughtInRecv)

\* The echo is exact at every moment, and complete again and again (dgecho01.c:45-110), but for
\* the two hazards of the start (Unannounced, CaughtInRecv).
EchoesAll == []EchoInOrder /\ []NqueueExact /\ AllEchoed
=============================================================================
