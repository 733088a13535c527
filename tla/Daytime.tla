------------------------------ MODULE Daytime ------------------------------
(***************************************************************************)
(* The functions of lib/ that walk an address list until a socket can be    *)
(* had (tcp_connect(), tcp_listen(), udp_client(), ...), and the daytime    *)
(* clients and servers of names/ that call them or have the loop inline.    *)
(* A client and a server run together, with other clients that may reset    *)
(* their connections at any time.                                           *)
(***************************************************************************)
EXTENDS Naturals, Sequences

CONSTANTS DayAddrs,   \* bound: addresses a lookup returns
          DayOthers   \* bound: connections of other clients

ASSUME DayAssumption == DayAddrs \in Nat \ {0} /\ DayOthers \in Nat

VARIABLES dProg,    \* the two programs
          dPc,      \* where each is
          dAddrs,   \* length of its address list
          dTried,   \* what became of the addresses it has tried
          dOpen,    \* those it holds a socket for
          dList,    \* the list of getaddrinfo(): "none", "held" or "freed"
          dQueue,   \* connections or datagrams the server has not taken yet
          dConn,    \* the one it works on
          dOthers,  \* connections the others have made
          dReset,   \* they have been reset
          dData,    \* the day is in the client's receive buffer
          dEnd,     \* how the connection ends after it: "open", "fin" or "rst"
          dLost,    \* a datagram between the two was lost
          dGot      \* the client has read the day

dayVars == <<dProg, dPc, dAddrs, dTried, dOpen, dList, dQueue, dConn, dOthers, dReset, dData, dEnd, dLost, dGot>>

\* call: what decides about an address, "none" if socket() alone does; must: Socket() ends
\* the program; list: the addresses are a list of getaddrinfo()
tcp_connect == [call |-> "connect", must |-> FALSE, list |-> TRUE, udp |-> FALSE, rst |-> FALSE]
tcp_listen == [tcp_connect EXCEPT !.call = "bind"]
udp_client == [tcp_connect EXCEPT !.call = "none", !.udp = TRUE]
udp_connect == [tcp_connect EXCEPT !.udp = TRUE]
udp_server == [tcp_listen EXCEPT !.udp = TRUE]
udp_server_reuseaddr == [tcp_listen EXCEPT !.udp = TRUE]

daytimetcpcli == tcp_connect
daytimetcpcli1 == [tcp_connect EXCEPT !.must = TRUE, !.list = FALSE]
daytimetcpcli2 == [tcp_connect EXCEPT !.must = TRUE, !.list = FALSE]
daytimetcpcli3 == [tcp_connect EXCEPT !.must = TRUE, !.list = FALSE]
daytimeudpcli1 == udp_client
daytimeudpcli2 == udp_connect
daytimetcpsrv1 == tcp_listen
daytimetcpsrv2 == tcp_listen
daytimetcpsrv3 == [tcp_listen EXCEPT !.rst = TRUE]   \* SO_LINGER: close() sends RST
daytimetcpsrv4 == tcp_listen
daytimeudpsrv2 == udp_server
daytimeudpsrv3 == udp_server_reuseaddr

DayClients == {daytimetcpcli, daytimetcpcli1, daytimetcpcli2, daytimetcpcli3, daytimeudpcli1, daytimeudpcli2}
DayServers == {daytimetcpsrv1, daytimetcpsrv2, daytimetcpsrv3, daytimetcpsrv4, daytimeudpsrv2, daytimeudpsrv3}
Sides == {"client", "server"}

DayStart(cli, srv, where) ==
    /\ dProg = [p \in Sides |-> IF p = "client" THEN cli ELSE srv]
    /\ dPc = [p \in Sides |-> where] /\ dAddrs = [p \in Sides |-> 0]
    /\ dTried = [p \in Sides |-> <<>>] /\ dOpen = [p \in Sides |-> {}] /\ dList = [p \in Sides |-> "none"]
    /\ dQueue = <<>> /\ dConn = "none" /\ dOthers = 0 /\ dReset = FALSE
    /\ dData = FALSE /\ dEnd = "open" /\ dLost = FALSE /\ dGot = FALSE

DayInit == \E cli \in DayClients, srv \in DayServers : cli.udp = srv.udp /\ DayStart(cli, srv, "lookup")

-----------------------------------------------------------------------------
(* The walk along the list                                                  *)

exchange == <<dConn, dOthers, dReset, dData, dEnd, dLost, dGot>>

Lookup(p) ==
    /\ dPc[p] = "lookup"
    /\ \E n \in 0 .. DayAddrs :
          /\ dPc' = [dPc EXCEPT ![p] = IF n = 0 THEN "quit" ELSE "socket"]
          /\ dAddrs' = [dAddrs EXCEPT ![p] = n]
          /\ dList' = [dList EXCEPT ![p] = IF n > 0 /\ dProg[p].list THEN "held" ELSE "none"]
    /\ UNCHANGED <<dProg, dTried, dOpen, dQueue, exchange>>

\* This address is of no use: on to the next, or err_sys().
Skip(p, why) ==
    /\ dTried' = [dTried EXCEPT ![p] = Append(@, why)]
    /\ dPc' = [dPc EXCEPT ![p] = IF Len(dTried[p]) + 1 = dAddrs[p] THEN "gaveup" ELSE "socket"]

NoSocket(p) ==
    /\ dPc[p] = "socket"
    /\ IF dProg[p].must THEN dPc' = [dPc EXCEPT ![p] = "died"] /\ UNCHANGED dTried ELSE Skip(p, "nosock")
    /\ UNCHANGED <<dProg, dAddrs, dOpen, dList, dQueue, exchange>>

GetSocket(p) ==
    /\ dPc[p] = "socket"
    /\ dOpen' = [dOpen EXCEPT ![p] = @ \cup {Len(dTried[p]) + 1}]
    /\ dPc' = [dPc EXCEPT ![p] = "name"]
    /\ UNCHANGED <<dProg, dAddrs, dTried, dList, dQueue, exchange>>

\* connect() or bind() fails: Close() and the next address.
Unusable(p) ==
    /\ dPc[p] = "name" /\ dProg[p].call # "none"
    /\ Skip(p, "failed")
    /\ dOpen' = [dOpen EXCEPT ![p] = @ \ {Len(dTried[p]) + 1}]
    /\ UNCHANGED <<dProg, dAddrs, dList, dQueue, exchange>>

\* It works: Listen() or a connection in the server's queue, freeaddrinfo(), and return.
\* A TCP connection needs a server that listens.
Usable(p) ==
    /\ dPc[p] = "name"
    /\ p = "client" /\ ~dProg[p].udp => dPc["server"] = "run"
    /\ dTried' = [dTried EXCEPT ![p] = Append(@, "ok")]
    /\ dPc' = [dPc EXCEPT ![p] = IF p = "client" /\ dProg[p].udp THEN "request" ELSE "run"]
    /\ dList' = [dList EXCEPT ![p] = IF @ = "held" THEN "freed" ELSE @]
    /\ dQueue' = IF p = "client" /\ ~dProg[p].udp THEN Append(dQueue, "me") ELSE dQueue
    /\ UNCHANGED <<dProg, dAddrs, dOpen, exchange>>

walk == <<dProg, dAddrs, dTried, dOpen, dList>>

\* Setsockopt(), Listen(), Malloc(), Getpeername() or Sendto() fails, and err_sys() ends the program.
WrapperFails(p) ==
    /\ dPc[p] = "name" \/ (p = "client" /\ dPc[p] \in {"request", "run"})
    /\ dPc' = [dPc EXCEPT ![p] = "died"]
    /\ UNCHANGED <<walk, dQueue, exchange>>

-----------------------------------------------------------------------------
(* The exchange                                                             *)

ServerUp == dPc["server"] = "run"

\* Sendto() or Write() of one byte; with nobody there a connected socket is told so.
SendRequest ==
    /\ dPc["client"] = "request" /\ dPc' = [dPc EXCEPT !["client"] = "run"]
    /\ \/ ServerUp /\ dQueue' = Append(dQueue, "me") /\ UNCHANGED <<dLost, dEnd>>
       \/ dLost' = TRUE /\ UNCHANGED <<dQueue, dEnd>>
       \/ ~ServerUp /\ dProg["client"].call = "connect" /\ dEnd' = "rst" /\ UNCHANGED <<dQueue, dLost>>
    /\ UNCHANGED <<walk, dConn, dOthers, dReset, dData, dGot>>

OtherClient ==
    /\ ServerUp /\ dOthers < DayOthers
    /\ dOthers' = dOthers + 1 /\ dQueue' = Append(dQueue, "other")
    /\ UNCHANGED <<walk, dPc, dConn, dReset, dData, dEnd, dLost, dGot>>

OtherResets ==
    /\ ServerUp /\ ~dProg["server"].udp /\ dOthers > 0 /\ ~dReset /\ dReset' = TRUE
    /\ UNCHANGED <<walk, dPc, dQueue, dConn, dOthers, dData, dEnd, dLost, dGot>>

\* Accept() or Recvfrom()
TakeClient ==
    /\ ServerUp /\ dConn = "none" /\ dQueue # <<>>
    /\ dConn' = Head(dQueue) /\ dQueue' = Tail(dQueue)
    /\ UNCHANGED <<walk, dPc, dOthers, dReset, dData, dEnd, dLost, dGot>>

\* Write() to a connection that has been reset: SIGPIPE or err_sys() ends the server, and
\* the system resets the connections in its queue.
ServerDies ==
    /\ ServerUp /\ dConn = "other" /\ dReset
    /\ dPc' = [dPc EXCEPT !["server"] = "died"]
    /\ dEnd' = IF \E k \in DOMAIN dQueue : dQueue[k] = "me" THEN "rst" ELSE dEnd
    /\ UNCHANGED <<walk, dQueue, dConn, dOthers, dReset, dData, dLost, dGot>>

\* Write() and Close(), or Sendto().  The RST that daytimetcpsrv3 ends with may overtake a
\* day that has to be sent again.
Answer_NoClose ==
    /\ ServerUp /\ dConn # "none" /\ ~(dConn = "other" /\ dReset) /\ dConn' = "none"
    /\ IF dConn = "other" THEN UNCHANGED <<dData, dEnd, dLost>>
       ELSE IF dProg["server"].udp THEN UNCHANGED dEnd /\ ((dData' = TRUE /\ UNCHANGED dLost) \/ (dLost' = TRUE /\ UNCHANGED dData))
       ELSE dData' = TRUE /\ UNCHANGED <<dEnd, dLost>>
    /\ UNCHANGED <<walk, dPc, dQueue, dOthers, dReset, dGot>>
Answer ==
    /\ ServerUp /\ dConn # "none" /\ ~(dConn = "other" /\ dReset)
    /\ dConn' = "none"
    /\ \/ dConn = "other" /\ UNCHANGED <<dData, dEnd, dLost>>
       \/ dConn = "me" /\ ~dProg["server"].udp /\ dEnd' = (IF dProg["server"].rst THEN "rst" ELSE "fin")
             /\ dData' \in (IF dProg["server"].rst THEN BOOLEAN ELSE {TRUE}) /\ UNCHANGED dLost
       \/ dConn = "me" /\ dProg["server"].udp /\ dData' = TRUE /\ UNCHANGED <<dEnd, dLost>>
       \/ dConn = "me" /\ dProg["server"].udp /\ dLost' = TRUE /\ UNCHANGED <<dEnd, dData>>
    /\ UNCHANGED <<walk, dPc, dQueue, dOthers, dReset, dGot>>

\* Read() or Recvfrom(): the day, which ends a UDP client; the end; or an error.
ReadDay ==
    /\ dPc["client"] = "run"
    /\ \/ dData /\ dData' = FALSE /\ dGot' = TRUE
          /\ dPc' = IF dProg["client"].udp THEN [dPc EXCEPT !["client"] = "done"] ELSE dPc
       \/ ~dData /\ dEnd # "open" /\ dPc' = [dPc EXCEPT !["client"] = IF dEnd = "fin" THEN "done" ELSE "died"]
          /\ UNCHANGED <<dData, dGot>>
    /\ UNCHANGED <<walk, dQueue, dConn, dOthers, dReset, dEnd, dLost>>

DayWalks(p) == Lookup(p) \/ NoSocket(p) \/ GetSocket(p) \/ Unusable(p) \/ Usable(p)
DayServes == TakeClient \/ ServerDies \/ Answer
DayReads == SendRequest \/ ReadDay

DayNext == (\E p \in Sides : DayWalks(p) \/ WrapperFails(p)) \/ DayServes \/ DayReads \/ OtherClient \/ OtherResets

\* The two programs are scheduled.
DayFair == (\A p \in Sides : WF_dayVars(DayWalks(p))) /\ WF_dayVars(DayServes) /\ WF_dayVars(DayReads)

DaySpec == DayInit /\ [][DayNext]_dayVars /\ DayFair

-----------------------------------------------------------------------------
(* Properties.                                                              *)

\* The walk uses the first address that works and leaves no other socket open; it gives up
\* only after every address has failed, with none open (tcp_connect.c:19-31 and its
\* siblings).  The list is freed before the socket is used (tcp_connect.c:33).  A client
\* that reads to the end of file has read the day.
WalkRight ==
    /\ \A p \in Sides :
          LET last == Len(dTried[p]) IN
          /\ \A k \in 1 .. last : dTried[p][k] = "ok" => k = last
          /\ dPc[p] \in {"request", "run", "done"} => dTried[p][last] = "ok" /\ dOpen[p] = {last} /\ dList[p] # "held"
          /\ dPc[p] = "gaveup" => last = dAddrs[p] /\ dTried[p][last] # "ok" /\ dOpen[p] = {}
    /\ dPc["client"] = "done" => dGot

\* The walk is right, and a client comes to an end, also when the server dies of another client's RST or is slow
\* to be started (daytimetcpcli.c:20-24); only a lost datagram keeps the UDP clients
\* waiting for ever (daytimeudpcli1.c:20, daytimeudpcli2.c:16).
DayRight == []WalkRight /\ <>(dPc["client"] \in {"quit", "gaveup", "died", "done"} \/ dLost)
=============================================================================
