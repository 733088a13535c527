------------------------------ MODULE SockOpen ------------------------------
(***************************************************************************)
(* sock/: from the command line to an open socket.  main() collects the     *)
(* options, cliopen() and servopen() set them before bind(), before         *)
(* connect() or listen(), and afterwards; with -F the server forks for      *)
(* each connection and waits for its child with the signals of tellwait.c.  *)
(***************************************************************************)
EXTENDS Naturals

CONSTANT SockConns   \* bound: connections a server accepts

ASSUME SockAssumption == SockConns \in Nat \ {0}

VARIABLES oRole,     \* "client" or "server"
          oUdp,      \* udp
          oOpts,     \* the other options
          oPc,       \* where the process (with -F the parent) is
          oFd,       \* options set on the socket of cliopen(), the listening socket of servopen()
          oNew,      \* options set on the connected socket newfd
          oAtBind,   \* options that were set when bind() was called
          oAtSyn,    \* options that were set when connect() or listen() was called
          oRoute,    \* sroute_cnt > 0
          oConn,     \* connections accepted
          oKid,      \* the latest child: "none", "run", "tell", "open" or "died"
          oFlag,     \* sigflag
          oBlocked,  \* SIGUSR2 is blocked in the parent
          oPend,     \* and pending
          oMissed    \* the handler ran between the test of sigflag and sigsuspend()

openVars == <<oRole, oUdp, oOpts, oPc, oFd, oNew, oAtBind, oAtSyn, oRoute, oConn, oKid, oFlag,
              oBlocked, oPend, oMissed>>

\* Options of main() that ask for a socket option ...
SocketOpts == {"reuseaddr", "reuseport", "rcvbuf", "sndbuf", "debug", "dontroute", "tos", "ttl",
               "maxseg", "sroute", "broadcast", "onesbcast", "join", "mcastttl", "keepalive", "nodelay",
               "linger", "rcvtimeo", "sndtimeo", "recvdstaddr", "sigio"}
\* ... and those that change what is called: -b or -l, -o, -f, -F, -h, a group as <IPaddr>.
ControlOpts == {"bindport", "noconnect", "foreign", "fork", "halfclose", "mcasthost"}

\* Bound: at most two options on a command line, so that every pair meets.
OptionSets == {{}} \cup {{a, b} : a, b \in SocketOpts \cup ControlOpts}

SockStart(role, udp, opts, where) ==
    /\ oRole = role /\ oUdp = udp /\ oOpts = opts /\ oPc = where
    /\ oFd = {} /\ oNew = {} /\ oAtBind = {} /\ oAtSyn = {} /\ oRoute = ("sroute" \in opts)
    /\ oConn = 0 /\ oKid = "none" /\ oFlag = FALSE /\ oBlocked = FALSE /\ oPend = FALSE
    /\ oMissed = FALSE

SockInit ==
    \E role \in {"client", "server"}, udp \in BOOLEAN, opts \in OptionSets : SockStart(role, udp, opts, "main")

-----------------------------------------------------------------------------
(* Setting options                                                          *)

\* buffers(): the two buffer sizes; a size the kernel changes is an error.
buffers == oOpts \cap {"rcvbuf", "sndbuf"}

\* sroute_set() is called once: it clears sroute_cnt.
sroute_set == IF oRoute THEN {"sroute"} ELSE {}

Always == {"debug", "dontroute", "broadcast", "onesbcast", "join", "mcastttl", "sigio"}
TcpOnly == {"maxseg", "keepalive", "nodelay", "linger"}
UdpOnly == {"recvdstaddr"}
OnlyFirst == {"tos", "ttl"}                                    \* doall == 0
OnlyLast == {"keepalive", "nodelay", "linger", "rcvtimeo", "sndtimeo"}   \* doall

\* sockopts(sockfd, doall)
sockopts_Swapped(doall) ==
    sroute_set \cup {o \in oOpts \cap (Always \cup TcpOnly \cup UdpOnly \cup OnlyFirst \cup OnlyLast) :
        /\ o \in TcpOnly => ~oUdp
        /\ o \in UdpOnly => oUdp
        /\ o \in {"tos", "ttl", "maxseg"} => doall
        /\ o \in OnlyLast => doall
        /\ o = "onesbcast" => "broadcast" \in oOpts}
sockopts(doall) ==
    sroute_set \cup {o \in oOpts \cap (Always \cup TcpOnly \cup UdpOnly \cup OnlyFirst \cup OnlyLast) :
        /\ o \in TcpOnly => ~oUdp
        /\ o \in UdpOnly => oUdp
        /\ o \in OnlyFirst => ~doall
        /\ o \in OnlyLast => doall
        /\ o = "onesbcast" => "broadcast" \in oOpts}

\* A group can be joined once: the second IP_ADD_MEMBERSHIP on a socket fails.
Rejoins(fd, set) == "join" \in fd \cap set

-----------------------------------------------------------------------------
(* main() and the steps cliopen() and servopen() share                      *)

\* Options that don't make sense together end in usage().
BadMix ==
    \/ oUdp /\ oOpts \cap {"halfclose", "debug", "linger", "nodelay"} # {}
    \/ ~oUdp /\ "foreign" \in oOpts

usage == oPc' = "exit"

\* err_sys() and err_quit(): any call of these functions may fail.
Quit ==
    /\ oPc \in {"open", "bind", "before", "connect", "after"}
    /\ oPc' = "exit"
    /\ UNCHANGED <<oRole, oUdp, oOpts, oFd, oNew, oAtBind, oAtSyn, oRoute, oConn, oKid, oFlag, oBlocked, oPend, oMissed>>

\* The arguments; a server whose service name is unknown goes on with a null pointer.
ParseArgs ==
    /\ oPc = "main"
    /\ IF BadMix THEN usage ELSE oPc' \in {"open"} \cup (IF oRole = "server" THEN {"crashed"} ELSE {})
    /\ UNCHANGED <<oRole, oUdp, oOpts, oFd, oNew, oAtBind, oAtSyn, oRoute, oConn, oKid, oFlag, oBlocked, oPend, oMissed>>

\* socket(), SO_REUSEADDR and SO_REUSEPORT
OpenSocket ==
    /\ oPc = "open" /\ oPc' = "bind"
    /\ oFd' = oOpts \cap {"reuseaddr", "reuseport"}
    /\ UNCHANGED <<oRole, oUdp, oOpts, oNew, oAtBind, oAtSyn, oRoute, oConn, oKid, oFlag, oBlocked, oPend, oMissed>>

\* A server always binds, a client for -b, -l and with UDP; then join_mcast(), which tests
\* the address in network byte order: which groups it recognizes depends on the machine.
BindSocket ==
    /\ oPc = "bind" /\ oPc' = "before"
    /\ oAtBind' = oFd
    /\ oFd' \in IF oRole = "server" /\ "mcasthost" \in oOpts THEN {oFd, oFd \cup {"group"}} ELSE {oFd}
    /\ UNCHANGED <<oRole, oUdp, oOpts, oNew, oAtSyn, oRoute, oConn, oKid, oFlag, oBlocked, oPend, oMissed>>

\* buffers() and, but for a UDP server, sockopts(fd, 0)
SetBefore ==
    /\ oPc = "before" /\ oPc' = "connect"
    /\ LET set == buffers \cup (IF oUdp /\ oRole = "server" THEN {} ELSE sockopts(FALSE))
       IN oFd' = oFd \cup set /\ oRoute' = (oRoute /\ "sroute" \notin set)
    /\ UNCHANGED <<oRole, oUdp, oOpts, oNew, oAtBind, oAtSyn, oConn, oKid, oFlag, oBlocked, oPend, oMissed>>

\* Not a UDP client with -o, nor a UDP server without -f
Connects == IF oRole = "client" THEN ~(oUdp /\ "noconnect" \in oOpts) ELSE "foreign" \in oOpts

\* connect().  With SIGIO it
\* may return EINTR; the connection goes on and the next call finds it made (EISCONN) or
\* still being made (EALREADY, which ends the program).
ConnectSocket ==
    /\ oPc = "connect" /\ (oRole = "client" \/ oUdp)
    /\ oAtSyn' = IF Connects THEN oFd ELSE {}
    /\ oPc' \in IF "sigio" \in oOpts /\ oRole = "client" /\ ~oUdp THEN {"after", "exit"} ELSE {"after"}
    /\ UNCHANGED <<oRole, oUdp, oOpts, oFd, oNew, oAtBind, oRoute, oConn, oKid, oFlag, oBlocked, oPend, oMissed>>

\* sockopts(fd, 1) and return
SetAfter ==
    /\ oPc = "after"
    /\ IF Rejoins(oFd, sockopts(TRUE)) THEN oPc' = "exit" /\ UNCHANGED <<oFd, oRoute>>
       ELSE oPc' = "ready" /\ oFd' = oFd \cup sockopts(TRUE) /\ oRoute' = FALSE
    /\ UNCHANGED <<oRole, oUdp, oOpts, oNew, oAtBind, oAtSyn, oConn, oKid, oFlag, oBlocked, oPend, oMissed>>

-----------------------------------------------------------------------------
(* The TCP server                                                           *)

\* TELL_WAIT() blocks the signal before any child exists.
TELL_WAIT_NoBlock == UNCHANGED oBlocked
TELL_WAIT == oBlocked' = TRUE

ListenSocket ==
    /\ oPc = "connect" /\ oRole = "server" /\ ~oUdp
    /\ oPc' = "accept" /\ oAtSyn' = oFd
    /\ IF "fork" \in oOpts THEN TELL_WAIT ELSE UNCHANGED oBlocked
    /\ UNCHANGED <<oRole, oUdp, oOpts, oFd, oNew, oAtBind, oRoute, oConn, oKid, oFlag, oPend, oMissed>>

\* accept(): whether the new socket inherits the options depends on the system.
AcceptConn ==
    /\ oPc = "accept" /\ oConn < SockConns /\ oConn' = oConn + 1
    /\ oNew' \in {oFd, {}}
    /\ IF "fork" \in oOpts THEN oPc' = "parent" /\ oKid' = "run" ELSE oPc' = "new" /\ UNCHANGED oKid
    /\ UNCHANGED <<oRole, oUdp, oOpts, oFd, oAtBind, oAtSyn, oRoute, oFlag, oBlocked, oPend, oMissed>>

\* buffers(newfd), sockopts(newfd, 1) in the child or the iterative server; either may fail.
NewOptions == buffers \cup sockopts(TRUE)

ServeConn ==
    /\ oPc = "new"
    /\ \/ oPc' = "exit" /\ UNCHANGED oNew
       \/ oPc' = "ready" /\ oNew' = oNew \cup NewOptions
    /\ UNCHANGED <<oRole, oUdp, oOpts, oFd, oAtBind, oAtSyn, oRoute, oConn, oKid, oFlag, oBlocked, oPend, oMissed>>

ChildOptions ==
    /\ oKid = "run"
    /\ \/ oKid' = "died" /\ UNCHANGED oNew
       \/ oKid' = "tell" /\ oNew' = oNew \cup NewOptions
    /\ UNCHANGED <<oRole, oUdp, oOpts, oPc, oFd, oAtBind, oAtSyn, oRoute, oConn, oFlag, oBlocked, oPend, oMissed>>

\* sig_usr() sets sigflag; in sigsuspend() the process then goes back to the test.
sig_usr ==
    /\ oFlag' = TRUE
    /\ oPc' = IF oPc = "suspended" THEN "wait" ELSE oPc
    /\ oMissed' = (oMissed \/ oPc = "suspend")

\* TELL_PARENT(): the signal stays pending while it is blocked.
TELL_PARENT ==
    /\ oKid = "tell" /\ oKid' = "open"
    /\ IF oBlocked /\ oPc # "suspended" THEN oPend' = TRUE /\ UNCHANGED <<oFlag, oPc, oMissed>>
       ELSE sig_usr /\ UNCHANGED oPend
    /\ UNCHANGED <<oRole, oUdp, oOpts, oFd, oNew, oAtBind, oAtSyn, oRoute, oConn, oBlocked>>

\* The parent closes its copy of the connection and calls WAIT_CHILD().
ParentClose ==
    /\ oPc = "parent" /\ oPc' = "wait"
    /\ UNCHANGED <<oRole, oUdp, oOpts, oFd, oNew, oAtBind, oAtSyn, oRoute, oConn, oKid, oFlag, oBlocked, oPend, oMissed>>

\* WAIT_CHILD(): the test; once sigflag is set it is cleared and the old mask comes back.
WAIT_CHILD ==
    /\ oPc = "wait"
    /\ IF oFlag THEN oPc' = "accept" /\ oFlag' = FALSE /\ oBlocked' = FALSE
       ELSE oPc' = "suspend" /\ UNCHANGED <<oFlag, oBlocked>>
    /\ UNCHANGED <<oRole, oUdp, oOpts, oFd, oNew, oAtBind, oAtSyn, oRoute, oConn, oKid, oPend, oMissed>>

\* sigsuspend(&zeromask) delivers a pending signal or waits for one.
Suspend ==
    /\ oPc = "suspend"
    /\ IF oPend THEN oPend' = FALSE /\ oFlag' = TRUE /\ oPc' = "wait" ELSE oPc' = "suspended" /\ UNCHANGED <<oPend, oFlag>>
    /\ UNCHANGED <<oRole, oUdp, oOpts, oFd, oNew, oAtBind, oAtSyn, oRoute, oConn, oKid, oBlocked, oMissed>>

SockParent ==
    \/ ParseArgs \/ OpenSocket \/ BindSocket \/ SetBefore \/ ConnectSocket \/ SetAfter
    \/ ListenSocket \/ ServeConn \/ ParentClose \/ WAIT_CHILD \/ Suspend
SockChild == ChildOptions \/ TELL_PARENT

SockNext == SockParent \/ SockChild \/ AcceptConn \/ Quit

SockFair == WF_openVars(SockParent) /\ WF_openVars(SockChild)

SockSpec == SockInit /\ [][SockNext]_openVars /\ SockFair

-----------------------------------------------------------------------------
(* Properties.                                                              *)

Opened == oPc = "ready" \/ oKid \in {"tell", "open"}
Returned == IF oRole = "server" /\ ~oUdp THEN oNew ELSE oFd
Applies(o) ==
    (o \in TcpOnly => ~oUdp) /\ (o \in UdpOnly => oUdp) /\ (o = "onesbcast" => "broadcast" \in oOpts)

\* The socket that main() gets back has every option of the command line that fits its
\* protocol (sockopts.c:25-353), except those set only before the connection: on an
\* accepted socket they depend on what accept() inherits, and a UDP server never gets
\* IP_TOS and IP_TTL (servopen.c:69-90).  The options that decide what the SYN says were set
\* before connect() or listen() (cliopen.c:89-94, servopen.c:92-94), and the reuse
\* options before bind() (cliopen.c:51-63).
OptionsInForce ==
    Opened =>
       /\ \A o \in oOpts \cap SocketOpts : Applies(o) =>
             \/ o \in Returned
             \/ oRole = "server" /\ o \in OnlyFirst
             \/ oRole = "server" /\ ~oUdp /\ o \in {"reuseaddr", "reuseport", "sroute"}
       /\ ~oUdp => oOpts \cap {"rcvbuf", "sndbuf", "tos", "ttl", "maxseg", "sroute"} \subseteq oAtSyn
       /\ oOpts \cap {"reuseaddr", "reuseport"} \subseteq oAtBind

\* A forking server comes back to accept() after every connection (servopen.c:111-114),
\* unless its child failed before TELL_PARENT() or, from the second connection on, the
\* signal came between the test of sigflag and sigsuspend(): WAIT_CHILD() has restored
\* the mask that does not block it (tellwait.c:57-67).
BackToAccept ==
    oPc = "parent" ~> oPc = "accept" \/ oKid = "died" \/ (oMissed /\ oConn > 1)
=============================================================================
