--------------------------- MODULE MultiplexServer ---------------------------
(***************************************************************************)
(* The single-process echo servers: tcpcliserv/tcpservselect01.c with       *)
(* select(), tcpcliserv/tcpservpoll01.c with poll().  One loop waits for    *)
(* any descriptor, accepts at most one client, then looks at the clients'   *)
(* slots.  Anything that blocks between two waits blocks every client.      *)
(***************************************************************************)
EXTENDS ListenQueue, Integers

CONSTANTS NSlots,   \* entries of client[] for clients (FD_SETSIZE, OPEN_MAX - 1)
          NFds,     \* descriptors the process may open
          MaxSends, \* bound: chunks of data each client sends
          Deaf,     \* bound: clients that may stop reading
          Progs     \* which of the programs to look at

ASSUME MultiplexAssumption ==
    /\ NSlots \in Nat \ {0} /\ NFds \in Nat /\ NFds > NSlots /\ MaxSends \in Nat
    /\ Deaf \subseteq Conns
    /\ Progs \subseteq {"select", "poll"}

Slots == 1 .. NSlots
Fds == 1 .. NFds
NoFd == 0

VARIABLES
    prog,      \* the program that is running
    sends,     \* chunks each client has sent
    inbuf,     \* inbuf[c]: chunks that the server has not read
    peer,      \* what client c did to the connection: "open", "fin" or "rst"
    full,      \* clients that do not read, with no room left in the buffers on the way to them
    fdconn,    \* the connection each descriptor of the server refers to
    client,    \* the descriptor in each slot, or NoFd
    maxi,      \* the highest slot ever used
    allset,    \* select: the descriptors of the clients to wait for
    maxfd,     \* select: the highest descriptor in use, 0 while it is listenfd
    lready,    \* the wait reported the listening socket
    rset,      \* select: the clients' descriptors that were reported
    revents,   \* poll: what client[i].revents says; garbage until poll() has set it
    nready,
    pc, i,
    exitBy     \* why the server ended

connVars == <<sends, inbuf, peer, full>>
tabVars  == <<fdconn, client, maxi, allset, maxfd>>
waitVars == <<lready, rset, revents>>
vars == <<backlog, arrived, aborted, prog, sends, inbuf, peer, full, fdconn, client, maxi, allset,
          maxfd, lready, rset, revents, nready, pc, i, exitBy>>

TypeOK ==
    /\ ListenTypeOK /\ prog \in Progs
    /\ sends \in [Conns -> 0 .. MaxSends] /\ inbuf \in [Conns -> 0 .. MaxSends]
    /\ peer \in [Conns -> {"open", "fin", "rst"}] /\ full \subseteq Deaf
    /\ fdconn \in [Fds -> Conns \cup {NoConn}]
    /\ client \in [Slots -> Fds \cup {NoFd}]
    /\ maxi \in 0 .. NSlots /\ maxfd \in 0 .. NFds
    /\ allset \subseteq Fds /\ rset \subseteq Fds
    /\ lready \in BOOLEAN /\ revents \in [Slots -> BOOLEAN]
    /\ nready \in 0 .. NSlots + 1
    /\ pc \in {"wait", "accept", "scan", "write"}
    /\ i \in 1 .. NSlots + 1
    /\ exitBy \in {"running", "too many clients", "read error", "write error", "accept error"}

MultiplexStart(why) ==
    /\ ListenInit /\ prog \in Progs
    /\ sends = [c \in Conns |-> 0] /\ inbuf = [c \in Conns |-> 0]
    /\ peer = [c \in Conns |-> "open"] /\ full = {}
    /\ fdconn = [f \in Fds |-> NoConn]
    /\ client = [s \in Slots |-> NoFd]
    /\ maxi = 0 /\ allset = {} /\ maxfd = 0 /\ lready = FALSE /\ rset = {}
    /\ revents \in IF prog = "poll" THEN [Slots -> BOOLEAN] ELSE {[s \in Slots |-> FALSE]}
    /\ nready = 0 /\ pc = "wait" /\ i = 1
    /\ exitBy = why

Init == MultiplexStart("running")

Running == exitBy = "running"

-----------------------------------------------------------------------------
(* The clients.                                                             *)

Connected(c) == c \in arrived \ aborted

ClientConnects ==
    /\ Running
    /\ \/ \E c \in Conns : ConnArrives(c)
       \/ \E k \in DOMAIN backlog : ConnAborted(k)
    /\ UNCHANGED <<prog, connVars, tabVars, waitVars, nready, pc, i, exitBy>>

ClientSends(c) ==
    /\ Running /\ Connected(c) /\ peer[c] = "open" /\ sends[c] < MaxSends
    /\ sends' = [sends EXCEPT ![c] = @ + 1]
    /\ inbuf' = [inbuf EXCEPT ![c] = @ + 1]
    /\ UNCHANGED <<listenVars, prog, peer, full, tabVars, waitVars, nready, pc, i, exitBy>>

\* The client closes its end, or the connection is lost with what had been sent: it was
\* reset, or there is another error.
ClientEnds(c) ==
    /\ Running /\ c \in {fdconn[f] : f \in Fds} /\ peer[c] # "rst"
    /\ \/ /\ peer[c] = "open"
          /\ peer' = [peer EXCEPT ![c] = "fin"]
          /\ UNCHANGED inbuf
       \/ /\ peer' = [peer EXCEPT ![c] = "rst"]
          /\ inbuf' = [inbuf EXCEPT ![c] = 0]
    /\ UNCHANGED <<listenVars, prog, sends, full, tabVars, waitVars, nready, pc, i, exitBy>>

\* The client stops reading until the buffers are full, or goes on.
ClientReads(c) ==
    /\ Running /\ c \in Deaf \cap {fdconn[f] : f \in Fds}
    /\ full' = IF c \in full THEN full \ {c} ELSE full \cup {c}
    /\ UNCHANGED <<listenVars, prog, sends, inbuf, peer, tabVars, waitVars, nready, pc, i, exitBy>>

-----------------------------------------------------------------------------
(* The server.                                                              *)

Readable(f) == f # NoFd /\ fdconn[f] # NoConn
               /\ (inbuf[fdconn[f]] > 0 \/ peer[fdconn[f]] # "open")

\* select() looks at allset; poll() at the slots up to maxi, and writes their revents only.
WaitSelect ==
    /\ prog = "select"
    /\ rset' = {f \in allset : f <= maxfd /\ Readable(f)}
    /\ nready' = Cardinality(rset') + (IF lready' THEN 1 ELSE 0)
    /\ UNCHANGED revents

WaitPoll ==
    /\ prog = "poll"
    /\ revents' = [s \in Slots |-> IF s <= maxi THEN Readable(client[s]) ELSE revents[s]]
    /\ nready' = Cardinality({s \in 1 .. maxi : revents'[s]}) + (IF lready' THEN 1 ELSE 0)
    /\ UNCHANGED rset

Wait ==
    /\ Running /\ pc = "wait"
    /\ lready' = (backlog # <<>>)
    /\ WaitSelect \/ WaitPoll
    /\ nready' > 0
    /\ pc' = IF lready' THEN "accept" ELSE "scan"
    /\ i' = 1
    /\ UNCHANGED <<listenVars, prog, connVars, tabVars, exitBy>>

\* --nready <= 0: no more readable descriptors
NoneLeft_Ignored(n) == FALSE
NoneLeft(n) == n <= 0

\* if (i > maxi) maxi = i
GrowMaxi(s) == maxi' = IF s > maxi THEN s ELSE maxi

\* if (connfd > maxfd) maxfd = connfd
GrowMaxfd_Last(f) == maxfd' = f
GrowMaxfd(f) == maxfd' = IF f > maxfd THEN f ELSE maxfd

\* The new descriptor goes into the first free slot.
AcceptClient ==
    /\ Running /\ pc = "accept"
    /\ \E c \in Conns, f \in Fds :
        /\ AcceptReturns(c)
        /\ fdconn[f] = NoConn /\ \A g \in Fds : fdconn[g] = NoConn => f <= g
        /\ fdconn' = [fdconn EXCEPT ![f] = c]
        /\ \/ /\ \A s \in Slots : client[s] # NoFd
              /\ exitBy' = "too many clients"
              /\ UNCHANGED <<client, maxi, allset, maxfd, nready, pc>>
           \/ \E s \in Slots :
                /\ client[s] = NoFd /\ \A t \in Slots : client[t] = NoFd => s <= t
                /\ client' = [client EXCEPT ![s] = f]
                /\ GrowMaxi(s)
                /\ \/ /\ prog = "select"
                      /\ allset' = allset \cup {f}
                      /\ GrowMaxfd(f)
                   \/ prog = "poll" /\ UNCHANGED <<allset, maxfd>>
                /\ nready' = nready - 1
                /\ pc' = IF NoneLeft(nready') THEN "wait" ELSE "scan"
                /\ UNCHANGED exitBy
    /\ UNCHANGED <<prog, connVars, waitVars, i>>

AcceptFails ==
    /\ Running /\ pc = "accept"
    /\ exitBy' = "accept error"
    /\ UNCHANGED <<listenVars, prog, connVars, tabVars, waitVars, nready, pc, i>>

Reported(s) == IF prog = "select" THEN client[s] \in rset ELSE revents[s]

\* The loop passes over a slot that is empty or was not reported, and ends behind maxi.
ScanSkip ==
    /\ Running /\ pc = "scan"
    /\ \/ i > maxi /\ pc' = "wait" /\ UNCHANGED i
       \/ /\ i <= maxi /\ (client[i] = NoFd \/ ~Reported(i))
          /\ i' = i + 1 /\ UNCHANGED pc
    /\ UNCHANGED <<listenVars, prog, connVars, tabVars, waitVars, nready, exitBy>>

\* client[i] = -1
ClearSlot == client' = [client EXCEPT ![i] = NoFd]

\* the end of the loop's body
NextSlot ==
    /\ nready' = nready - 1
    /\ \/ NoneLeft(nready') /\ pc' = "wait" /\ UNCHANGED i
       \/ ~NoneLeft(nready') /\ pc' = "scan" /\ i' = i + 1

Here == fdconn[client[i]]
AtReported == Running /\ pc = "scan" /\ i <= maxi /\ client[i] # NoFd /\ Reported(i)

ReadData ==
    /\ AtReported /\ inbuf[Here] > 0
    /\ inbuf' = [inbuf EXCEPT ![Here] = 0]
    /\ pc' = "write"
    /\ UNCHANGED <<listenVars, prog, sends, peer, full, tabVars, waitVars, nready, i, exitBy>>

\* Writen() waits for room, and quits when the client has reset the connection in the
\* meantime.
EchoData ==
    /\ Running /\ pc = "write"
    /\ \/ peer[Here] = "rst" /\ exitBy' = "write error" /\ UNCHANGED <<nready, pc, i>>
       \/ peer[Here] # "rst" /\ Here \notin full /\ NextSlot /\ UNCHANGED exitBy
    /\ UNCHANGED <<listenVars, prog, connVars, tabVars, waitVars>>

\* End-of-file; the poll server treats ECONNRESET the same way and quits at any other error,
\* in the select server the wrapper Read() quits at all of them.
ReadEnd ==
    /\ AtReported /\ inbuf[Here] = 0 /\ peer[Here] # "open"
    /\ \/ /\ peer[Here] = "rst"
          /\ exitBy' = "read error"
          /\ UNCHANGED <<tabVars, nready, pc, i>>
       \/ /\ peer[Here] = "fin" \/ prog = "poll"
          /\ fdconn' = [fdconn EXCEPT ![client[i]] = NoConn]
          /\ allset' = allset \ {client[i]}
          /\ ClearSlot
          /\ NextSlot
          /\ UNCHANGED <<maxi, maxfd, exitBy>>
    /\ UNCHANGED <<listenVars, prog, connVars, waitVars>>

ServerStep == Wait \/ AcceptClient \/ ScanSkip \/ ReadData \/ EchoData \/ ReadEnd

Next == ClientConnects \/ (\E c \in Conns : ClientSends(c) \/ ClientReads(c) \/ ClientEnds(c)) \/ ServerStep \/ AcceptFails

Spec == Init /\ [][Next]_vars

\* The server is scheduled; nothing is assumed of the clients.
FairSpec == Spec /\ WF_vars(ServerStep)

-----------------------------------------------------------------------------
(* Properties.                                                              *)

\* Outside its wait, the server reads only from connections that have something to read:
\* neither a slot that poll() has not looked at (its revents is garbage) nor a reused
\* descriptor leads it into a blocking read() (tcpservpoll01.c:57-64, tcpservselect01.c:62-69).
ReadNeverBlocks == AtReported => inbuf[Here] > 0 \/ peer[Here] # "open"

\* Types are kept, and the tables agree: every open descriptor is in exactly one slot,
\* and select() waits for exactly these (tcpservselect01.c:48-60,72-74,
\* tcpservpoll01.c:45-55,71-81).
TablesAgree ==
    /\ TypeOK
    /\ exitBy # "too many clients" =>
       /\ {f \in Fds : fdconn[f] # NoConn} = {client[s] : s \in Slots} \ {NoFd}
       /\ \A s, t \in Slots : client[s] = client[t] /\ client[s] # NoFd => s = t
       /\ prog = "select" => allset = {client[s] : s \in Slots} \ {NoFd}
       /\ \A s \in Slots : s > maxi => client[s] = NoFd

\* What the loop over the slots relies on (tcpservselect01.c:62-80, tcpservpoll01.c:57-88).
TablesTrue == ReadNeverBlocks /\ TablesAgree

\* What a connected client sends is read in the end, unless the server quits, sleeps in
\* accept() because a client aborted its connection after the wait reported it
\* (tcpservselect01.c:37-41), or sleeps in Writen() because another client does not read
\* (tcpservselect01.c:76, tcpservpoll01.c:83).
AsleepInAccept == pc = "accept" /\ backlog = <<>>
AsleepInWrite == pc = "write" /\ Here \in full
DataIsRead ==
    \A c \in Conns :
        inbuf[c] > 0 ~> (inbuf[c] = 0 \/ ~Running \/ AsleepInAccept \/ AsleepInWrite \/ c \in aborted)
=============================================================================
