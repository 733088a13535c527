-------------------------------- MODULE Icmpd --------------------------------
(***************************************************************************)
(* icmpd/: a daemon that reads all ICMP messages of the host from two raw   *)
(* sockets and tells each client of the errors its UDP socket has caused.   *)
(* A client (dgcli01.c) connects to the daemon, passes it its UDP socket,   *)
(* waits for one byte of status, and from then on sends lines and waits for *)
(* a reply, an error from the daemon, or five seconds.                      *)
(***************************************************************************)
EXTENDS Integers, Sequences, FiniteSets

CONSTANTS IcmpClients,  \* the clients
          IcmpV6,       \* bound: the sets of clients that may have IPv6 sockets
          IcmpSizes,    \* values of FD_SETSIZE, the entries of client[]
          IcmpPorts,    \* ephemeral ports
          IcmpBuf,      \* what the daemon can write to a client that does not read
          IcmpErrors    \* bound: ICMP messages

ASSUME IcmpAssumption ==
    /\ 0 \notin IcmpClients /\ IcmpV6 \subseteq SUBSET IcmpClients
    /\ IcmpSizes \subseteq Nat \ {0} /\ IcmpPorts \subseteq Nat \ {0}
    /\ IcmpBuf \in Nat \ {0} /\ IcmpErrors \in Nat

VARIABLES qFam,     \* address family of each client's socket
          qPort,    \* and its port, 0 if it is not bound
          qCli,     \* the clients
          qFd,      \* clients whose descriptor the daemon has not read yet
          qOut,     \* what the daemon has written to each client and it has not read
          qShut,    \* clients whose connection the daemon has closed
          qReply,   \* clients that have a reply in their UDP socket
          qTold,    \* errors each client has printed
          qNet,     \* ICMP messages under way
          qRaw,     \* those in the two raw sockets
          qErrors,  \* ICMP messages so far
          qQueue,   \* connections not yet accepted
          qPc, qSet, qConns, qReady,  \* the daemon: rset and nready
          qSent,    \* entries the error at hand has been written to
          qTbl, qMaxi         \* client[], c = 0 for connfd < 0, and maxi + 1

clients == <<qCli, qReply, qTold>>
daemon == <<qPc, qSet, qConns, qReady, qSent, qTbl, qMaxi, qShut>>
icmpVars == <<qFam, qPort, qFd, qOut, qNet, qRaw, qErrors, qQueue, clients, daemon>>

Families == {"v4", "v6"}
Entries == DOMAIN qTbl

IcmpStart(fam, size, where) ==
    /\ qFam = fam /\ qPort = [c \in IcmpClients |-> 0]
    /\ qCli = [c \in IcmpClients |-> "start"] /\ qFd = {}
    /\ qOut = [c \in IcmpClients |-> <<>>] /\ qShut = {} /\ qReply = {}
    /\ qTold = [c \in IcmpClients |-> {}]
    /\ qNet = {} /\ qRaw = [f \in Families |-> <<>>] /\ qErrors = 0 /\ qQueue = <<>>
    /\ qPc = where /\ qSet = {} /\ qConns = {} /\ qReady = 0 /\ qSent = {}
    /\ qTbl = [i \in 0 .. size - 1 |-> [c |-> 0, fam |-> "v4", port |-> 0]] /\ qMaxi = 0

IcmpInit ==
    \E v6 \in IcmpV6, size \in IcmpSizes :
       IcmpStart([c \in IcmpClients |-> IF c \in v6 THEN "v6" ELSE "v4"], size, "select")

\* Ports no socket has: the socket of a client that has gone is still there if it is in a
\* message that the daemon has not read.
Free(f) ==
    {p \in IcmpPorts : \A d \in IcmpClients :
        qFam[d] = f /\ (qCli[d] # "gone" \/ d \in qFd) => qPort[d] # p}
DaemonDied == qPc = "died"

-----------------------------------------------------------------------------
(* The clients                                                              *)

\* Sock_bind_wild() and Connect().  The daemon also takes sockets that are not bound.
Connect(c) ==
    /\ qCli[c] = "start" /\ ~DaemonDied
    /\ \E p \in Free(qFam[c]) \cup {0} : qPort' = [qPort EXCEPT ![c] = p]
    /\ qCli' = [qCli EXCEPT ![c] = "pass"] /\ qQueue' = Append(qQueue, c)
    /\ UNCHANGED <<qFam, qFd, qOut, qReply, qTold, qNet, qRaw, qErrors, daemon>>

\* Write_fd()
Write_fd(c) ==
    /\ qCli[c] = "pass" /\ ~DaemonDied /\ c \notin qShut
    /\ qCli' = [qCli EXCEPT ![c] = "status"] /\ qFd' = qFd \cup {c}
    /\ UNCHANGED <<qFam, qPort, qOut, qReply, qTold, qNet, qRaw, qErrors, qQueue, daemon>>

Status(char) == [n |-> 0, from |-> 0, fam |-> "v4", kind |-> char, port |-> 0]

\* Read() of one byte: only '1' is good.  The first byte of an icmpd_err{} is not '1'.
ReadStatus(c) ==
    /\ qCli[c] = "status" /\ qOut[c] # <<>>
    /\ qCli' = [qCli EXCEPT ![c] = IF Head(qOut[c]) = Status("1") THEN "loop" ELSE "gone"]
    /\ qOut' = [qOut EXCEPT ![c] = Tail(@)]
    /\ UNCHANGED <<qFam, qPort, qFd, qReply, qTold, qNet, qRaw, qErrors, qQueue, daemon>>

\* Sendto(): an answer, nothing, or an ICMP message.
Sendto(c) ==
    /\ qCli[c] = "loop" /\ qCli' = [qCli EXCEPT ![c] = "wait"]
    /\ \/ qReply' = qReply \cup {c} /\ UNCHANGED <<qNet, qErrors>>
       \/ UNCHANGED <<qReply, qNet, qErrors>>
       \/ /\ qErrors < IcmpErrors /\ qErrors' = qErrors + 1
          /\ qNet' = qNet \cup {[n |-> qErrors, from |-> c, fam |-> qFam[c], kind |-> "error", port |-> qPort[c]]}
          /\ UNCHANGED qReply
    /\ UNCHANGED <<qFam, qPort, qFd, qOut, qTold, qRaw, qQueue, daemon>>

\* select() returns: a reply, an error from the daemon, or both; or the five seconds are over.
AwaitEnds(c) ==
    /\ qCli[c] = "wait" /\ qCli' = [qCli EXCEPT ![c] = "loop"]
    /\ \/ c \in qReply \/ qOut[c] # <<>>
       \/ c \notin qReply /\ qOut[c] = <<>> /\ c \notin qShut /\ ~DaemonDied
    /\ qReply' = qReply \ {c}
    /\ IF qOut[c] = <<>> THEN UNCHANGED <<qOut, qTold>>
       ELSE /\ qTold' = [qTold EXCEPT ![c] = @ \cup {Head(qOut[c])}]
            /\ qOut' = [qOut EXCEPT ![c] = Tail(@)]
    /\ UNCHANGED <<qFam, qPort, qFd, qNet, qRaw, qErrors, qQueue, daemon>>

\* The client ends: at the end of its input, because the daemon has gone, or killed.
ClientEnds(c) ==
    /\ qCli[c] # "gone" /\ qCli' = [qCli EXCEPT ![c] = "gone"]
    /\ qOut' = [qOut EXCEPT ![c] = <<>>] /\ qReply' = qReply \ {c}
    /\ UNCHANGED <<qFam, qPort, qFd, qTold, qNet, qRaw, qErrors, qQueue, daemon>>

\* An ICMP message arrives, perhaps long after the client has gone.  Raw sockets also get
\* messages that are no errors, and messages that are too short.
IcmpArrives(m) ==
    /\ qNet' = qNet \ {m} /\ qRaw' = [qRaw EXCEPT ![m.fam] = Append(@, m)]
    /\ UNCHANGED <<qFam, qPort, qFd, qOut, clients, qErrors, qQueue, daemon>>

OtherIcmp(f, kind) ==
    /\ qErrors < IcmpErrors /\ qErrors' = qErrors + 1
    /\ qRaw' = [qRaw EXCEPT ![f] = Append(@, [n |-> qErrors, from |-> 0, fam |-> f, kind |-> kind, port |-> 0])]
    /\ UNCHANGED <<qFam, qPort, qFd, qOut, clients, qNet, qQueue, daemon>>

-----------------------------------------------------------------------------
(* The daemon                                                               *)

\* Read_fd() would return: a descriptor, or the end of file.
Readable(i) == qTbl[i].c # 0 /\ (qTbl[i].c \in qFd \/ qCli[qTbl[i].c] = "gone")

\* The next descriptor in rset that is looked at, out of rest
Stage(set, rest) ==
    CASE "listen" \in set \cap rest -> "listen" [] "v4" \in set \cap rest -> "v4"
      [] "v6" \in set \cap rest -> "v6" [] OTHER -> "conn"

DaemonSelect ==
    /\ qPc = "select"
    /\ qSet' = (IF qQueue # <<>> THEN {"listen"} ELSE {}) \cup {f \in Families : qRaw[f] # <<>>}
    /\ qConns' = {i \in Entries : Readable(i)}
    /\ qReady' = Cardinality(qSet') + Cardinality(qConns') /\ qReady' > 0
    /\ qPc' = Stage(qSet', {"listen", "v4", "v6"})
    /\ UNCHANGED <<qFam, qPort, qFd, qOut, clients, qNet, qRaw, qErrors, qQueue, qSent, qTbl, qMaxi, qShut>>

\* return(--nready), and on to what is left, but for conn, unless that was the last.  What
\* rset then holds is not looked at again.
Then(rest, conn) ==
    LET over == qReady - 1 <= 0 IN
    /\ qPc' = IF over THEN "select" ELSE Stage(qSet, rest)
    /\ qReady' = qReady - 1
    /\ qSet' = (IF over THEN {} ELSE qSet \cap rest) /\ qConns' = (IF over THEN {} ELSE qConns \ conn)
DaemonDies == qPc' = "died" /\ qReady' = 0 /\ qSet' = {} /\ qConns' = {}

\* maxi, as the number of entries in use
GrownMaxi_Forgotten(i) == qMaxi
GrownMaxi(i) == IF i + 1 > qMaxi THEN i + 1 ELSE qMaxi

\* Accept(), and the first entry that is free: only its connfd is set.
readable_listen ==
    /\ qPc = "listen" /\ Then({"v4", "v6"}, {})
    /\ qQueue' = Tail(qQueue)
    /\ LET free == {i \in Entries : qTbl[i].c = 0} IN
       \/ /\ free = {} /\ qShut' = qShut \cup {Head(qQueue)} /\ UNCHANGED <<qTbl, qMaxi>>
       \/ \E i \in free :
             /\ \A j \in free : i <= j
             /\ qTbl' = [qTbl EXCEPT ![i].c = Head(qQueue)] /\ qMaxi' = GrownMaxi(i)
             /\ UNCHANGED qShut
    /\ UNCHANGED <<qFam, qPort, qFd, qOut, clients, qNet, qRaw, qErrors, qSent>>

\* The clients an error is for; the two functions differ in the family they look for.
Concerned_AnyFamily(f, port) == {i \in Entries : i < qMaxi /\ qTbl[i].c # 0 /\ qTbl[i].port = port}
Concerned(f, port) ==
    {i \in Entries : i < qMaxi /\ qTbl[i].c # 0 /\ qTbl[i].fam = f /\ qTbl[i].port = port}

\* The entries the error is still to be written to, and the next of them
Awaiting(f) ==
    LET m == Head(qRaw[f]) IN (IF m.kind = "error" THEN Concerned(f, m.port) ELSE {}) \ qSent
NextWrite(f, i) == qPc = f /\ i \in Awaiting(f) /\ \A j \in Awaiting(f) : i <= j

\* Recvfrom(): a message that is too short ends the daemon.
TooShort(f) ==
    /\ qPc = f /\ Head(qRaw[f]).kind = "short" /\ DaemonDies
    /\ UNCHANGED <<qFam, qPort, qFd, qOut, clients, qNet, qRaw, qErrors, qQueue, qSent, qTbl, qMaxi, qShut>>

\* One Write() to one client: it waits while the client's buffer is full, and SIGPIPE ends
\* the daemon if the client has gone.
Tell(f, i) ==
    LET c == qTbl[i].c IN
    /\ NextWrite(f, i)
    /\ \/ qCli[c] = "gone" /\ DaemonDies /\ UNCHANGED <<qOut, qSent>>
       \/ /\ qCli[c] # "gone" /\ Len(qOut[c]) < IcmpBuf
          /\ qOut' = [qOut EXCEPT ![c] = Append(@, [Head(qRaw[f]) EXCEPT !.kind = "icmpd_err"])]
          /\ qSent' = qSent \cup {i} /\ UNCHANGED <<qPc, qReady, qSet, qConns>>
    /\ UNCHANGED <<qFam, qPort, qFd, clients, qNet, qRaw, qErrors, qQueue, qTbl, qMaxi, qShut>>

\* The end of the function.  The message stays in qRaw until then, which nobody can tell.
Told(f, rest) ==
    /\ qPc = f /\ Head(qRaw[f]).kind # "short" /\ Awaiting(f) = {}
    /\ qRaw' = [qRaw EXCEPT ![f] = Tail(@)] /\ qSent' = {} /\ Then(rest, {})
    /\ UNCHANGED <<qFam, qPort, qFd, qOut, clients, qNet, qErrors, qQueue, qTbl, qMaxi, qShut>>

Forward(f, rest) == TooShort(f) \/ (\E i \in Entries : Tell(f, i)) \/ Told(f, rest)
readable_v4 == Forward("v4", {"v6"})
readable_v6 == Forward("v6", {})

\* clientdone: Close(), FD_CLR(), connfd = -1; the rest of the entry stays as it is.
clientdone(i) == qTbl' = [qTbl EXCEPT ![i].c = 0] /\ qShut' = qShut \cup {qTbl[i].c}

\* Read_fd() from the first entry that is ready: the end of file, or an error if the client
\* left something unread, which ends the daemon; or the socket.  Its port is looked up, or
\* bound if the client has not done so.  Either may fail: without an address the entry stays
\* as it is, without a port it has the family and -1.  Then '1' or '0' is written, which
\* SIGPIPE ends.
readable_conn(i) ==
    LET c == qTbl[i].c
        answer(char) == IF qCli[c] = "gone" THEN DaemonDies /\ UNCHANGED qOut
                        ELSE qOut' = [qOut EXCEPT ![c] = Append(@, Status(char))] /\ Then({}, {i})
        clienterr(fam, port) ==
            /\ qTbl' = [qTbl EXCEPT ![i] = [c |-> IF qCli[c] = "gone" THEN c ELSE 0, fam |-> fam, port |-> port]]
            /\ qShut' = IF qCli[c] = "gone" THEN qShut ELSE qShut \cup {c}
    IN
    /\ qPc = "conn" /\ i \in qConns /\ i < qMaxi /\ \A j \in qConns : i <= j
    /\ qFd' = qFd \ {c}
    /\ \/ /\ c \notin qFd /\ UNCHANGED <<qPort, qOut>>
          /\ \/ clientdone(i) /\ Then({}, {i})
             \/ DaemonDies /\ UNCHANGED <<qTbl, qShut>>
       \/ /\ c \in qFd /\ Len(qOut[c]) < IcmpBuf /\ answer("1")
          /\ \E p \in IF qPort[c] # 0 THEN {qPort[c]} ELSE Free(qFam[c]) :
                /\ qPort' = [qPort EXCEPT ![c] = p]
                /\ qTbl' = [qTbl EXCEPT ![i] = [c |-> c, fam |-> qFam[c], port |-> p]]
          /\ UNCHANGED qShut
       \/ /\ c \in qFd /\ Len(qOut[c]) < IcmpBuf /\ answer("0")
          /\ \/ clienterr(qTbl[i].fam, qTbl[i].port)
             \/ qPort[c] = 0 /\ clienterr(qFam[c], -1)
          /\ UNCHANGED qPort
    /\ UNCHANGED <<qFam, clients, qNet, qRaw, qErrors, qQueue, qSent, qMaxi>>

\* The end of the loop over client[] with entries of rset left over: not reached while maxi is
\* right, which readable_listen() sees to.
LoopEnds ==
    /\ qPc = "conn" /\ \A i \in qConns : i >= qMaxi
    /\ qPc' = "select" /\ qConns' = {} /\ qReady' = 0
    /\ UNCHANGED <<qFam, qPort, qFd, qOut, clients, qNet, qRaw, qErrors, qQueue, qSet, qSent, qTbl, qMaxi, qShut>>

IcmpDaemon ==
    \/ DaemonSelect \/ readable_listen \/ readable_v4 \/ readable_v6 \/ LoopEnds
    \/ \E i \in Entries : readable_conn(i)
IcmpClient(c) == Write_fd(c) \/ ReadStatus(c) \/ AwaitEnds(c)

IcmpNext ==
    \/ IcmpDaemon
    \/ \E c \in IcmpClients : IcmpClient(c) \/ Connect(c) \/ Sendto(c) \/ ClientEnds(c)
    \/ \E m \in qNet : IcmpArrives(m)
    \/ \E f \in Families, kind \in {"other", "short"} : OtherIcmp(f, kind)

\* The daemon and the clients are scheduled; nobody has to type another line.
IcmpFair == WF_icmpVars(IcmpDaemon) /\ \A c \in IcmpClients : WF_icmpVars(IcmpClient(c))

IcmpSpec == IcmpInit /\ [][IcmpNext]_icmpVars /\ IcmpFair

-----------------------------------------------------------------------------
(* Properties.                                                              *)

\* An error that a client prints is about a datagram that was sent from its own family and
\* port, though ports and entries are used again (readable_v4.c:56-59, readable_v6.c:59-62);
\* and the datagram was its own, or that of a client that had the port before it and had
\* gone: the daemon cannot tell these apart.  As long as a client runs, client[] has its
\* entry, with the port its socket has (readable_conn.c:34-36).  An error written through an
\* entry that still has the port of its last user is not printed: the client takes it for a
\* bad status and quits (dgcli01.c:22-25).
IcmpOwn ==
    \A c \in IcmpClients :
       /\ \A e \in qTold[c] :
             /\ e.kind = "icmpd_err" /\ e.fam = qFam[c] /\ e.port = qPort[c]
             /\ e.from = c \/ qCli[e.from] = "gone"
       /\ qCli[c] \in {"loop", "wait"} /\ ~DaemonDied =>
             \E i \in Entries : i < qMaxi /\ qTbl[i] = [c |-> c, fam |-> qFam[c], port |-> qPort[c]]

\* A client that waits for the daemon's answer gets one (icmpd.c:39-64), unless the daemon
\* has died, of a client that went too early (readable_conn.c:15,42, readable_v4.c:83) or of
\* a short message (readable_v4.c:33), or sleeps in a Write() to a client whose buffer is
\* full and whose user types nothing (readable_v4.c:83).
Stuck ==
    \E f \in Families, i \in Entries :
       NextWrite(f, i) /\ qCli[qTbl[i].c] = "loop" /\ Len(qOut[qTbl[i].c]) = IcmpBuf
IcmpAnswered ==
    \A c \in IcmpClients :
       qCli[c] = "status" ~> qCli[c] # "status" \/ c \in qShut \/ DaemonDied \/ Stuck
=============================================================================
