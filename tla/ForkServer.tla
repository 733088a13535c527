----------------------------- MODULE ForkServer -----------------------------
(***************************************************************************)
(* The servers that create a process or a thread per connection.  They      *)
(* differ in whether they fork or create threads, in how their SIGCHLD      *)
(* handler reaps children, in whether they retry an interrupted accept(),   *)
(* and in whether they wait in accept() or in select().                     *)
(***************************************************************************)
EXTENDS ListenQueue

CONSTANTS Kids,      \* names for the children or threads, in use or not
          Main,      \* the process that accepts
          ListenFd,  \* the descriptor of the listening socket
          UdpFd,     \* udpservselect01: the descriptor of the UDP socket
          Programs,  \* which of the programs to look at
          MaxStops   \* bound: how often children are stopped and continued

ASSUME ForkServerAssumption ==
    /\ Main \notin Kids /\ ListenFd # UdpFd /\ MaxStops \in Nat
    /\ {ListenFd, UdpFd} \cap (Conns \cup {NoConn}) = {}

VARIABLES program,   \* the program that is running
          restart,   \* the system restarts an accept() that a signal interrupted (SA_RESTART)
          mpc,       \* what main() does next
          rset,      \* udpservselect01: what select() returned and main() has not handled
          connfd,    \* the variable connfd of main()
          kid,       \* kid[k]: the step of child or thread k and the connection it serves
          fds,       \* fds[p]: the descriptors process p has open
          pending,   \* SIGCHLD is pending for the main process
          handler,   \* where sig_chld() is, and whether it interrupted a blocked accept()
          done,      \* connections that were served, or cut off by a child that failed
          dgram,     \* udpservselect01: a datagram waits in the UDP socket
          stops      \* how often a child was stopped and continued

mainVars == <<mpc, rset, connfd>>
sigVars == <<pending, handler>>
vars == <<backlog, arrived, aborted, program, restart, mpc, rset, connfd, kid, fds,
          pending, handler, done, dgram, stops>>

\* How sig_chld() reaps, and what an accept() that fails with EINTR leads to.
forkOnly    == [thread |-> FALSE, reap |-> "none",    eintr |-> "exit",  select |-> FALSE]
forkWait    == [thread |-> FALSE, reap |-> "wait",    eintr |-> "exit",  select |-> FALSE]
waitRetry   == [thread |-> FALSE, reap |-> "wait",    eintr |-> "retry", select |-> FALSE]
waitpidLoop == [thread |-> FALSE, reap |-> "waitpid", eintr |-> "retry", select |-> FALSE]
selectLoop  == [thread |-> FALSE, reap |-> "waitpid", eintr |-> "exit",  select |-> TRUE]
unchecked   == [thread |-> FALSE, reap |-> "none",    eintr |-> "ignore", select |-> FALSE]
threadEach  == [thread |-> TRUE,  reap |-> "none",    eintr |-> "exit",  select |-> FALSE]

tcpserv01 == forkOnly
daytimetcpsrv == forkOnly
tcpserv02 == forkWait
tcpserv03 == waitRetry
tcpserv04 == waitpidLoop
tcpserv08 == waitpidLoop
tcpserv09 == waitpidLoop
serv01 == waitpidLoop
unixstrserv01 == waitpidLoop
unixstrserv02 == waitpidLoop
advio_tcpserv02 == waitpidLoop
oob_tcpserv02 == waitpidLoop
ipopts_tcpserv01 == waitpidLoop
udpservselect01 == selectLoop
tcp_serve == unchecked
serv06 == threadEach
threads_tcpserv01 == threadEach
threads_tcpserv02 == threadEach

Traits == [tcpserv01 |-> tcpserv01, daytimetcpsrv |-> daytimetcpsrv,
           tcpserv02 |-> tcpserv02, tcpserv03 |-> tcpserv03,
           tcpserv04 |-> tcpserv04, tcpserv08 |-> tcpserv08, tcpserv09 |-> tcpserv09,
           serv01 |-> serv01, unixstrserv01 |-> unixstrserv01,
           unixstrserv02 |-> unixstrserv02, advio_tcpserv02 |-> advio_tcpserv02,
           oob_tcpserv02 |-> oob_tcpserv02, ipopts_tcpserv01 |-> ipopts_tcpserv01,
           udpservselect01 |-> udpservselect01, tcp_serve |-> tcp_serve, serv06 |-> serv06,
           threads_tcpserv01 |-> threads_tcpserv01, threads_tcpserv02 |-> threads_tcpserv02]

ASSUME ProgramsAssumption == Programs \subseteq DOMAIN Traits

Trait == Traits[program]
up == mpc # "dead"
Top == IF Trait.select THEN "select" ELSE "accept"
Running(k) == kid[k].st \in {"start", "serve", "close"}
Zombies == {k \in Kids : kid[k].st = "zombie"}
Idle == [at |-> "idle", intr |-> FALSE]

\* The UDP socket of udpservselect01, which its children keep.
UdpFds == IF Trait.select THEN {UdpFd} ELSE {}

TypeOK ==
    /\ ListenTypeOK
    /\ program \in Programs /\ restart \in BOOLEAN
    /\ mpc \in {"select", "accept", "fork", "close", "udp", "dead"}
    /\ rset \subseteq {"listen", "udp"}
    /\ connfd \in Conns \cup {NoConn}
    /\ kid \in [Kids -> [st : {"none", "start", "serve", "close", "zombie", "gone"},
                         conn : Conns \cup {NoConn}]]
    /\ fds \in [Kids \cup {Main} -> SUBSET (Conns \cup {ListenFd, UdpFd})]
    /\ pending \in BOOLEAN
    /\ handler \in [at : {"idle", "wait", "ret"}, intr : BOOLEAN]
    /\ done \subseteq Conns
    /\ dgram \in BOOLEAN
    /\ stops \in 0 .. MaxStops

Init ==
    /\ ListenInit
    /\ program \in Programs /\ restart \in BOOLEAN
    /\ mpc = Top /\ rset = {} /\ connfd = NoConn
    /\ kid = [k \in Kids |-> [st |-> "none", conn |-> NoConn]]
    /\ fds = [p \in Kids \cup {Main} |-> IF p = Main THEN {ListenFd} \cup UdpFds ELSE {}]
    /\ pending = FALSE /\ handler = Idle
    /\ done = {} /\ dgram = FALSE /\ stops = 0

\* Connections are named in the order of their arrival.
Client == /\ up
          /\ \/ /\ \/ /\ arrived # Conns
                      /\ ConnArrives(CHOOSE c \in Conns \ arrived : TRUE)
                   \/ \E k \in DOMAIN backlog : ConnAborted(k)
                /\ UNCHANGED dgram
             \/ /\ Trait.select /\ ~dgram /\ dgram' = TRUE
                /\ UNCHANGED listenVars
          /\ UNCHANGED <<program, restart, mainVars, kid, fds, sigVars, done, stops>>

-----------------------------------------------------------------------------
(* The main process.  It does not run while its signal handler does.        *)

MainRuns(step) == mpc = step /\ handler.at = "idle"

\* After the TCP part of the loop of udpservselect01, or at the end of the others' loop
AfterTcp == IF "udp" \in rset THEN "udp" ELSE Top

Ready == (IF backlog # <<>> THEN {"listen"} ELSE {}) \cup (IF dgram THEN {"udp"} ELSE {})

MainSelect ==
    /\ MainRuns("select") /\ Ready # {}
    /\ rset' = Ready
    /\ mpc' = IF "listen" \in Ready THEN "accept" ELSE "udp"
    /\ UNCHANGED <<listenVars, program, restart, connfd, kid, fds, sigVars, done, dgram, stops>>

MainAccept ==
    /\ MainRuns("accept")
    /\ \E c \in Conns : /\ AcceptReturns(c)
                        /\ connfd' = c
                        /\ fds' = [fds EXCEPT ![Main] = @ \cup {c}]
    /\ mpc' = "fork"
    /\ UNCHANGED <<program, restart, rset, kid, sigVars, done, dgram, stops>>

\* The process ends: its descriptors are closed and init reaps its children.  Threads
\* end with it.
MainDies ==
    /\ mpc' = "dead"
    /\ kid' = [k \in Kids |-> IF Trait.thread \/ ~Running(k)
                              THEN [kid[k] EXCEPT !.st = "gone"] ELSE kid[k]]
    /\ fds' = [fds EXCEPT ![Main] = {}]
    /\ pending' = FALSE /\ handler' = Idle
    /\ UNCHANGED <<listenVars, program, restart, rset, connfd, done, dgram, stops>>

\* accept() fails for another reason than EINTR.  tcp_serve/src/main.c does not look
\* at the result and forks a child for the descriptor -1.
MainAcceptFails ==
    /\ MainRuns("accept")
    /\ IF Trait.eintr = "ignore"
       THEN /\ connfd' = NoConn /\ mpc' = "fork"
            /\ UNCHANGED <<listenVars, program, restart, rset, kid, fds, sigVars, done, dgram, stops>>
       ELSE MainDies

\* Fork() copies the descriptor table; a thread shares it and gets connfd by value.
ChildFds == IF Trait.thread THEN {} ELSE fds[Main]

\* Names are given to children in a fixed order.
Unborn == {k \in Kids : kid[k].st = "none"}

MainForks ==
    /\ MainRuns("fork") /\ Unborn # {}
    /\ LET k == CHOOSE j \in Unborn : TRUE IN
          /\ kid' = [kid EXCEPT ![k] = [st |-> "start", conn |-> connfd]]
          /\ fds' = [fds EXCEPT ![k] = ChildFds]
    /\ mpc' = IF Trait.thread THEN AfterTcp ELSE "close"
    /\ UNCHANGED <<listenVars, program, restart, rset, connfd, sigVars, done, dgram, stops>>

\* fork() or pthread_create() fails, or SIGINT reaches sig_int() or the default action.
MainEnds == up /\ MainDies

ParentCloses == fds' = [fds EXCEPT ![Main] = @ \ {connfd}]

MainCloses ==
    /\ MainRuns("close") /\ ParentCloses
    /\ mpc' = AfterTcp
    /\ UNCHANGED <<listenVars, program, restart, rset, connfd, kid, sigVars, done, dgram, stops>>

MainUdp ==
    /\ MainRuns("udp")
    /\ dgram' = FALSE
    /\ mpc' = Top /\ rset' = {}
    /\ UNCHANGED <<listenVars, program, restart, connfd, kid, fds, sigVars, done, stops>>

-----------------------------------------------------------------------------
(* SIGCHLD.  It is not queued: exits while it is pending, or while the      *)
(* handler runs and blocks it, are one signal.                              *)

SigChld ==
    /\ up /\ pending /\ handler.at = "idle"
    /\ pending' = FALSE
    /\ \E blocked \in BOOLEAN :
          /\ blocked => mpc = "accept" /\ backlog = <<>>
          /\ handler' = [at |-> "wait", intr |-> blocked]
    /\ UNCHANGED <<listenVars, program, restart, mainVars, kid, fds, done, dgram, stops>>

\* After a child is reaped: wait() was the only call, waitpid() is called again.
AfterReap_Once == "ret"
AfterReap == IF Trait.reap = "wait" THEN "ret" ELSE "wait"

Reap ==
    /\ handler.at = "wait"
    /\ \E k \in Zombies : kid' = [kid EXCEPT ![k].st = "gone"]
    /\ handler' = [handler EXCEPT !.at = AfterReap]
    /\ UNCHANGED <<listenVars, program, restart, mainVars, fds, pending, done, dgram, stops>>

\* With nobody to reap waitpid(WNOHANG) returns at once; wait() does so only if there is
\* no child at all.
NothingToReap_Hang == Zombies = {} /\ \A k \in Kids : ~Running(k)
NothingToReap == /\ Zombies = {}
                 /\ Trait.reap = "waitpid" \/ \A k \in Kids : ~Running(k)

ReapNone ==
    /\ handler.at = "wait" /\ NothingToReap
    /\ handler' = [handler EXCEPT !.at = "ret"]
    /\ UNCHANGED <<listenVars, program, restart, mainVars, kid, fds, pending, done, dgram, stops>>

\* The handler returns.  An accept() that was blocked starts again or fails with EINTR:
\* then the loop starts over, or err_sys() ends the server.
HandlerReturns ==
    /\ handler.at = "ret"
    /\ IF handler.intr /\ ~restart /\ Trait.eintr = "exit"
       THEN MainDies
       ELSE /\ handler' = Idle
            /\ mpc' = IF handler.intr /\ ~restart THEN Top ELSE mpc
            /\ UNCHANGED <<listenVars, program, restart, rset, connfd, kid, fds, pending,
                           done, dgram, stops>>

-----------------------------------------------------------------------------
(* The children and threads.                                                *)

\* A child closes the listening socket; a thread reads its argument and detaches.
KidConn_Shared(k) == connfd
KidConn(k) == kid[k].conn

KidStarts(k) ==
    /\ kid[k].st = "start"
    /\ kid' = [kid EXCEPT ![k] = [st |-> "serve", conn |-> KidConn(k)]]
    /\ fds' = [fds EXCEPT ![k] = @ \ {ListenFd}]
    /\ UNCHANGED <<listenVars, program, restart, mainVars, sigVars, done, dgram, stops>>

\* str_echo() or web_child() returns when the client is done.
KidServed(k) ==
    /\ kid[k].st = "serve"
    /\ kid' = [kid EXCEPT ![k].st = "close"]
    /\ UNCHANGED <<listenVars, program, restart, mainVars, fds, sigVars, done, dgram, stops>>

\* err_sys() in a child ends the child, in a thread the whole server.
KidFails(k) ==
    /\ kid[k].st = "serve"
    /\ IF Trait.thread
       THEN MainDies
       ELSE /\ kid' = [kid EXCEPT ![k].st = "close"]
            /\ UNCHANGED <<listenVars, program, restart, mainVars, fds, sigVars, done, dgram, stops>>

\* exit(0): the kernel closes the descriptors and signals the parent, if there is one.
KidExits(k) ==
    /\ kid[k].st = "close" /\ ~Trait.thread
    /\ kid' = [kid EXCEPT ![k].st = IF up THEN "zombie" ELSE "gone"]
    /\ fds' = [fds EXCEPT ![k] = {}]
    /\ pending' = (pending \/ (up /\ Trait.reap # "none"))
    /\ done' = done \cup ({kid[k].conn} \ {NoConn})
    /\ UNCHANGED <<listenVars, program, restart, mainVars, handler, dgram, stops>>

\* Close(connfd); return(NULL)
ThreadCloses(k) ==
    /\ kid[k].st = "close" /\ Trait.thread
    /\ kid' = [kid EXCEPT ![k].st = "gone"]
    /\ fds' = [fds EXCEPT ![Main] = @ \ {kid[k].conn}]
    /\ done' = done \cup {kid[k].conn}
    /\ UNCHANGED <<listenVars, program, restart, mainVars, sigVars, dgram, stops>>

\* A child is stopped and continued by job control: Signal() does not set SA_NOCLDSTOP,
\* so this raises SIGCHLD as well.
KidStops(k) ==
    /\ up /\ Running(k) /\ ~Trait.thread /\ Trait.reap # "none"
    /\ stops < MaxStops /\ stops' = stops + 1
    /\ pending' = TRUE
    /\ UNCHANGED <<listenVars, program, restart, mainVars, kid, fds, handler, done, dgram>>

MainStep == \/ MainSelect \/ MainAccept \/ MainForks \/ MainCloses \/ MainUdp
HandlerStep == SigChld \/ Reap \/ ReapNone \/ HandlerReturns
KidStep(k) == KidStarts(k) \/ KidExits(k) \/ ThreadCloses(k)

Next ==
    \/ Client
    \/ MainStep \/ MainAcceptFails \/ MainEnds
    \/ HandlerStep
    \/ \E k \in Kids : KidStep(k) \/ KidServed(k) \/ KidFails(k) \/ KidStops(k)

Spec == Init /\ [][Next]_vars

\* Processes and handlers that can run do; how long a client keeps a child busy is its
\* own affair.
FairSpec == Spec /\ WF_vars(MainStep) /\ WF_vars(HandlerStep)
                 /\ \A k \in Kids : WF_vars(KidStep(k))

-----------------------------------------------------------------------------
(* Properties.                                                              *)

\* Types are kept, and each connection is open exactly where it is used: the parent has
\* none once it is back at the top of its loop, a serving child has its own and no
\* other, and the table threads share has those not yet closed.  So the client sees the
\* end of its connection when its child exits (tcpserv01.c:26-31, serv06.c:26-39).  The
\* children of udpservselect01 keep the UDP socket as well, which none of them closes
\* (udpservselect01.c:61).
DescriptorsRight ==
    /\ TypeOK
    /\ \A k \in Kids :
          /\ kid[k].st \in {"serve", "close"} /\ ~Trait.thread
                => fds[k] = UdpFds \cup ({kid[k].conn} \ {NoConn})
          /\ kid[k].st \in {"none", "zombie", "gone"} => fds[k] = {}
    /\ up => fds[Main] = {ListenFd} \cup UdpFds
                \cup (IF mpc \in {"fork", "close"} THEN {connfd} \ {NoConn} ELSE {})
                \cup (IF Trait.thread THEN {kid[k].conn : k \in {j \in Kids : Running(j)}}
                                      ELSE {})

\* When sig_chld() calls waitpid() in a loop no child stays a zombie: with no SIGCHLD
\* pending and no handler running every exited child has been reaped, however exits,
\* stops and the handler overlapped (sigchldwaitpid.c:9-10).
NoZombies == up /\ Trait.reap = "waitpid" /\ ~pending /\ handler.at = "idle" => Zombies = {}

\* Nothing is left over: neither descriptors nor zombies.
NothingLeftOver == DescriptorsRight /\ NoZombies

\* A connection in the kernel is accepted, and a datagram for udpservselect01 answered,
\* unless the server ends or no further child can be created.  Two waits are the code's
\* own: wait() blocks the server when the SIGCHLD came from a stopped child
\* (sigchldwait.c:9), and udpservselect01 is caught in accept() when the connection
\* select() reported is reset before it (udpservselect01.c:56-58).
Stuck == \/ ~up
         \/ mpc = "fork" /\ Unborn = {}
         \/ Trait.reap = "wait" /\ handler.at = "wait" /\ Zombies = {}
Responsive ==
    /\ \A c \in Conns : c \in Elements(backlog) ~> (c \notin Elements(backlog) \/ Stuck)
    /\ dgram ~> (~dgram \/ Stuck \/ (mpc = "accept" /\ backlog = <<>>))

\* They implement ConnDispatch with a worker per child: connections are accepted in
\* order of arrival and each is served by one child or thread, its own, until it is done
\* or the server ends (tcpserv01.c:24-31, threads/tcpserv02.c:24-41).
Dispatch == INSTANCE ConnDispatch WITH
    Workers <- Kids,
    queue   <- IF ~up THEN <<>>
               ELSE (IF mpc = "fork" /\ connfd # NoConn THEN <<connfd>> ELSE <<>>) \o backlog,
    serving <- [k \in Kids |-> IF Running(k) THEN kid[k].conn ELSE NoConn]
ImplementsDispatch == Dispatch!Spec
=============================================================================
