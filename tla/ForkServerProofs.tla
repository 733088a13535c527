-------------------------- MODULE ForkServerProofs --------------------------
(***************************************************************************)
(* ForkServer for any number of children and connections and for all of its *)
(* programs: every descriptor is open exactly where it is used, waitpid()   *)
(* in a loop leaves no zombie, and all of them implement ConnDispatch.      *)
(***************************************************************************)
EXTENDS ForkServer, ListenQueueProofs

-----------------------------------------------------------------------------
(* The inductive invariant.                                                 *)

\* What fork() and pthread_create() leave a child with until it has closed the listening
\* socket; threads have no table of their own and always a connection.
Tables ==
    /\ \A k \in Kids :
          /\ Trait.thread => fds[k] = {}
          /\ Trait.thread /\ Running(k) => kid[k].conn # NoConn
          /\ ~Trait.thread /\ kid[k].st = "start"
                => fds[k] = {ListenFd} \cup UdpFds \cup ({kid[k].conn} \ {NoConn})
    /\ Trait.thread => mpc # "close" /\ (mpc = "fork" => connfd # NoConn)

\* A connection the server has is in the hand of main() or of one child, and the kernel
\* has it no longer.
Owned ==
    /\ mpc = "fork" /\ connfd # NoConn =>
          /\ connfd \in arrived \ Elements(backlog)
          /\ \A k \in Kids : Running(k) => kid[k].conn # connfd
    /\ \A k \in Kids : Running(k) /\ kid[k].conn # NoConn =>
          /\ kid[k].conn \in arrived \ Elements(backlog)
          /\ \A j \in Kids : Running(j) /\ kid[j].conn = kid[k].conn => j = k

\* The handler runs only while main() does, and interrupts it only in accept(); threads
\* do not outlive main().
Handling ==
    /\ handler.at # "idle" => up /\ (handler.intr => mpc = "accept")
    /\ ~up /\ Trait.thread => \A k \in Kids : ~Running(k)

\* A zombie is about to be noticed.
Noticed == up /\ Trait.reap = "waitpid" /\ Zombies # {} => pending \/ handler.at = "wait"

Inv == /\ DescriptorsRight /\ Tables /\ Owned /\ Handling /\ Noticed
       /\ Distinct(backlog) /\ Elements(backlog) \subseteq arrived

-----------------------------------------------------------------------------
(* The programs.                                                            *)

\* Every program has its traits; those with threads have no SIGCHLD handler and end when
\* accept() fails.
LEMMA TraitType ==
    ASSUME program \in Programs
    PROVE  /\ Trait.thread \in BOOLEAN /\ Trait.select \in BOOLEAN
           /\ Trait.thread => Trait.reap = "none" /\ Trait.eintr = "exit"
           /\ Top \in {"select", "accept"}
<1> DEFINE T == {forkOnly, forkWait, waitRetry, waitpidLoop, selectLoop, unchecked, threadEach}
<1>1. Trait \in T
  <2>1. program \in DOMAIN Traits
    BY ProgramsAssumption
  <2>2. \A p \in DOMAIN Traits : Traits[p] \in T
    BY DEF Traits, tcpserv01, daytimetcpsrv, tcpserv02, tcpserv03, tcpserv04, tcpserv08,
           tcpserv09, serv01, unixstrserv01, unixstrserv02, advio_tcpserv02, oob_tcpserv02,
           ipopts_tcpserv01, udpservselect01, tcp_serve, serv06, threads_tcpserv01,
           threads_tcpserv02
  <2> QED BY <2>1, <2>2 DEF Trait
<1>2. \A t \in T : /\ t.thread \in BOOLEAN /\ t.select \in BOOLEAN
                   /\ t.thread => t.reap = "none" /\ t.eintr = "exit"
  <2>1. \A t \in T \ {threadEach} : t.thread = FALSE /\ (t.select = FALSE \/ t.select = TRUE)
    BY DEF forkOnly, forkWait, waitRetry, waitpidLoop, selectLoop, unchecked
  <2>2. /\ threadEach.thread = TRUE /\ threadEach.select = FALSE
        /\ threadEach.reap = "none" /\ threadEach.eintr = "exit"
    BY DEF threadEach
  <2> HIDE DEF T
  <2>3. ASSUME NEW t \in T
        PROVE  /\ t.thread \in BOOLEAN /\ t.select \in BOOLEAN
               /\ t.thread => t.reap = "none" /\ t.eintr = "exit"
    <3>1. CASE t = threadEach
      BY <2>2, <3>1, Zenon
    <3>2. CASE t # threadEach
      <4>1. t.thread = FALSE /\ (t.select = FALSE \/ t.select = TRUE)
        BY <2>1, <3>2
      <4> QED BY <4>1, Zenon
    <3> QED BY <3>1, <3>2
  <2> QED BY <2>3
<1> QED BY <1>1, <1>2 DEF Top

\* Before the first connection main() has the listening socket and no child exists.
LEMMA InvInit == Init => Inv
<1> SUFFICES ASSUME Init PROVE Inv
  OBVIOUS
<1> USE ForkServerAssumption, ConnAssumption, TraitType DEF Init, ListenInit
<1>1. TypeOK
  <2>1. kid \in [Kids -> [st : {"none", "start", "serve", "close", "zombie", "gone"},
                          conn : Conns \cup {NoConn}]]
    OBVIOUS
  <2>2. fds \in [Kids \cup {Main} -> SUBSET (Conns \cup {ListenFd, UdpFd})]
    BY DEF UdpFds
  <2>3. handler \in [at : {"idle", "wait", "ret"}, intr : BOOLEAN]
    BY DEF Idle
  <2>4. ListenTypeOK
    BY DEF ListenTypeOK
  <2>5. mpc \in {"select", "accept"} /\ stops \in 0 .. MaxStops
    OBVIOUS
  <2>6. pending \in BOOLEAN /\ dgram \in BOOLEAN
    BY Zenon
  <2> QED BY <2>1, <2>2, <2>3, <2>4, <2>5, <2>6 DEF TypeOK
<1>2. \A k \in Kids : ~Running(k) /\ kid[k].st = "none" /\ fds[k] = {}
  BY DEF Running
<1>3. mpc \in {"select", "accept"} /\ fds[Main] = {ListenFd} \cup UdpFds
  OBVIOUS
<1>4. DescriptorsRight
  BY <1>1, <1>2, <1>3 DEF DescriptorsRight
<1>5. Tables /\ Owned /\ Handling
  BY <1>2, <1>3 DEF Tables, Owned, Handling, Idle, up
<1>6. Noticed
  BY <1>2 DEF Noticed, Zombies
<1>7. Distinct(backlog) /\ Elements(backlog) \subseteq arrived
  BY DEF Distinct, Elements
<1> QED BY <1>4, <1>5, <1>6, <1>7 DEF Inv

\* The end of the process closes all it had and leaves only children that still serve.
LEMMA DiesKeeps == ASSUME Inv, up, MainDies PROVE Inv'
<1> USE ForkServerAssumption, TraitType DEF listenVars
<1>1. /\ mpc' = "dead" /\ fds' = [fds EXCEPT ![Main] = {}] /\ pending' = FALSE /\ handler' = Idle
      /\ UNCHANGED <<backlog, arrived, aborted, program, restart, rset, connfd, done, dgram, stops>>
      /\ kid' = [k \in Kids |-> IF Trait.thread \/ ~Running(k)
                              THEN [kid[k] EXCEPT !.st = "gone"] ELSE kid[k]]
  BY DEF MainDies
<1>2. TypeOK /\ program \in Programs /\ Trait' = Trait /\ UdpFds' = UdpFds
  BY <1>1 DEF Inv, DescriptorsRight, TypeOK, Trait, UdpFds
<1>3. \A k \in Kids : /\ kid'[k].conn = kid[k].conn
                      /\ kid'[k].st = IF Trait.thread \/ ~Running(k) THEN "gone" ELSE kid[k].st
                      /\ kid'[k] \in [st : {"none", "start", "serve", "close", "zombie", "gone"},
                                      conn : Conns \cup {NoConn}]
                      /\ fds'[k] = fds[k]
  BY <1>1, <1>2 DEF TypeOK
<1>4. TypeOK'
  <2>1. kid' \in [Kids -> [st : {"none", "start", "serve", "close", "zombie", "gone"},
                           conn : Conns \cup {NoConn}]]
    BY <1>1, <1>3
  <2>2. fds' \in [Kids \cup {Main} -> SUBSET (Conns \cup {ListenFd, UdpFd})]
    BY <1>1, <1>2 DEF TypeOK
  <2> QED BY <1>1, <1>2, <2>1, <2>2 DEF TypeOK, ListenTypeOK, Idle
<1>5. ~up'
  BY <1>1 DEF up
<1>6. \A k \in Kids : /\ Running(k)' <=> Running(k) /\ ~Trait.thread
                      /\ Running(k)' => kid'[k].st = kid[k].st
  BY <1>2, <1>3 DEF Running
<1>7. DescriptorsRight'
  <2>1. ASSUME NEW k \in Kids, kid'[k].st \in {"serve", "close"}, ~Trait.thread
        PROVE  fds'[k] = UdpFds \cup ({kid'[k].conn} \ {NoConn})
    <3>1. kid'[k].st = kid[k].st
      BY <1>3, <2>1
    <3> QED BY <1>3, <2>1, <3>1 DEF Inv, DescriptorsRight
  <2>2. ASSUME NEW k \in Kids, kid'[k].st \in {"none", "zombie", "gone"} PROVE fds'[k] = {}
    <3>1. CASE Trait.thread
      BY <1>3, <3>1 DEF Inv, Tables
    <3>2. CASE ~Trait.thread
      <4>1. kid[k].st \in {"none", "zombie", "gone"}
        BY <1>2, <1>3, <2>2, <3>2 DEF Running, TypeOK
      <4> QED BY <1>3, <4>1 DEF Inv, DescriptorsRight
    <3> QED BY <3>1, <3>2
  <2> QED BY <1>2, <1>4, <1>5, <2>1, <2>2 DEF DescriptorsRight
<1>8. Tables'
  BY <1>1, <1>2, <1>3, <1>6 DEF Inv, Tables, Running
<1>9. Owned'
  BY <1>1, <1>3, <1>6 DEF Inv, Owned
<1>10. Handling' /\ Noticed'
  BY <1>1, <1>2, <1>5, <1>6 DEF Handling, Noticed, Idle
<1> QED BY <1>1, <1>7, <1>8, <1>9, <1>10 DEF Inv, Distinct, Elements

\* A step that leaves children and descriptors alone, and main() on the same side of
\* having a connection in its hand.
LEMMA FrameKeeps ==
    ASSUME Inv, TypeOK', UNCHANGED <<program, connfd, kid, fds>>,
           \/ mpc' = mpc
           \/ (mpc \in {"select", "accept", "udp"} /\ mpc' \in {"select", "accept", "udp"}),
           arrived \ Elements(backlog) \subseteq arrived' \ Elements(backlog')
    PROVE  /\ DescriptorsRight' /\ Tables' /\ Owned'
           /\ Trait' = Trait /\ UdpFds' = UdpFds /\ (up' <=> up) /\ Zombies' = Zombies
           /\ \A k \in Kids : Running(k)' <=> Running(k)
<1>1. /\ Trait' = Trait /\ UdpFds' = UdpFds /\ (up' <=> up) /\ Zombies' = Zombies
      /\ \A k \in Kids : Running(k)' <=> Running(k)
  BY DEF Trait, UdpFds, up, Zombies, Running
<1>2. (mpc' = "fork" <=> mpc = "fork") /\ (mpc' = "close" <=> mpc = "close")
  OBVIOUS
<1>3. Tables' /\ Owned'
  BY <1>1, <1>2 DEF Inv, Tables, Owned, Elements
<1>4. {kid'[k].conn : k \in {j \in Kids : Running(j)'}} = {kid[k].conn : k \in {j \in Kids : Running(j)}}
  BY <1>1
<1>5. DescriptorsRight'
  BY <1>1, <1>2, <1>4 DEF Inv, DescriptorsRight
<1> QED BY <1>1, <1>3, <1>5

\* A child's own steps: it stays with its connection and touches no other child.
KidOnly(k) ==
    /\ TypeOK'
    /\ UNCHANGED <<backlog, arrived, program, mpc, connfd>>
    /\ \A j \in Kids \ {k} : kid'[j] = kid[j] /\ fds'[j] = fds[j]
    /\ kid'[k].conn = kid[k].conn

LEMMA KidKeeps ==
    ASSUME Inv, NEW k \in Kids, KidOnly(k), Running(k)' => Running(k)
    PROVE  /\ Owned' /\ Trait' = Trait /\ UdpFds' = UdpFds /\ (up' <=> up)
           /\ Distinct(backlog') /\ Elements(backlog') \subseteq arrived'
           /\ \A j \in Kids \ {k} : Running(j)' <=> Running(j)
<1>1. /\ Trait' = Trait /\ UdpFds' = UdpFds /\ (up' <=> up) /\ Elements(backlog') = Elements(backlog)
      /\ Distinct(backlog') /\ Elements(backlog') \subseteq arrived'
  BY DEF KidOnly, Trait, UdpFds, up, Elements, Distinct, Inv
<1>2. \A j \in Kids \ {k} : Running(j)' <=> Running(j)
  BY DEF KidOnly, Running
<1>3. \A j \in Kids : kid'[j].conn = kid[j].conn /\ (Running(j)' => Running(j))
  BY <1>2 DEF KidOnly
<1>4. Owned'
  BY <1>1, <1>3 DEF KidOnly, Owned, Inv, Elements
<1> QED BY <1>1, <1>2, <1>4

\* What the kernel queues does not concern the children.
LEMMA ClientKeeps == Inv /\ Client => Inv'
<1> SUFFICES ASSUME Inv, Client PROVE Inv'
  OBVIOUS
<1>0. TypeOK
  BY DEF Inv, DescriptorsRight
<1>1. /\ UNCHANGED <<program, restart, mpc, rset, connfd, kid, fds, pending, handler, done, stops>>
      /\ dgram' \in BOOLEAN
  BY <1>0 DEF Client, mainVars, sigVars, TypeOK
<1>2. ListenTypeOK' /\ Distinct(backlog') /\ Elements(backlog') \subseteq arrived'
  <2>1. CASE \/ \E c \in Conns : ConnArrives(c)
             \/ \E k \in DOMAIN backlog : ConnAborted(k)
    <3>1. ListenTypeOK' /\ Distinct(backlog)' /\ (Elements(backlog) \subseteq arrived)'
      BY <1>0, <2>1, ListenStep DEF Inv, TypeOK
    <3> QED BY <3>1 DEF Distinct, Elements
  <2>2. CASE UNCHANGED listenVars
    BY <1>0, <2>2 DEF Inv, TypeOK, ListenTypeOK, listenVars, Distinct, Elements
  <2>3. \/ \E c \in Conns : ConnArrives(c)
        \/ \E k \in DOMAIN backlog : ConnAborted(k)
        \/ UNCHANGED listenVars
    <3>1. arrived # Conns => (CHOOSE c \in Conns \ arrived : TRUE) \in Conns
      BY <1>0 DEF TypeOK, ListenTypeOK
    <3> QED BY <3>1 DEF Client
  <2> QED BY <2>1, <2>2, <2>3
<1>3. arrived \ Elements(backlog) \subseteq arrived' \ Elements(backlog')
  <2>1. ASSUME NEW c \in Conns, ConnArrives(c)
        PROVE  arrived \ Elements(backlog) \subseteq arrived' \ Elements(backlog')
    <3>1. c \notin Elements(backlog)
      BY <2>1 DEF Inv, ConnArrives
    <3>2. Elements(backlog') = Elements(backlog) \cup {c}
      BY <1>0, <2>1, <3>1, AppendLemma DEF Inv, TypeOK, ListenTypeOK, ConnArrives
    <3> QED BY <2>1, <3>2 DEF ConnArrives
  <2>2. ASSUME NEW k \in DOMAIN backlog, ConnAborted(k)
        PROVE  arrived \ Elements(backlog) \subseteq arrived' \ Elements(backlog')
    BY <1>0, <2>2, DropLemma DEF Inv, TypeOK, ListenTypeOK, ConnAborted
  <2>3. CASE UNCHANGED listenVars
    BY <2>3 DEF listenVars, Elements
  <2>4. \/ \E c \in Conns : ConnArrives(c)
        \/ \E k \in DOMAIN backlog : ConnAborted(k)
        \/ UNCHANGED listenVars
    <3>1. arrived # Conns => (CHOOSE c \in Conns \ arrived : TRUE) \in Conns
      BY <1>0 DEF TypeOK, ListenTypeOK
    <3> QED BY <3>1 DEF Client
  <2> QED BY <2>1, <2>2, <2>3, <2>4
<1>4. TypeOK'
  BY <1>0, <1>1, <1>2 DEF TypeOK
<1>5. /\ DescriptorsRight' /\ Tables' /\ Owned'
      /\ Trait' = Trait /\ UdpFds' = UdpFds /\ (up' <=> up) /\ Zombies' = Zombies
      /\ \A k \in Kids : Running(k)' <=> Running(k)
  BY <1>1, <1>3, <1>4, FrameKeeps
<1>6. Handling' /\ Noticed'
  BY <1>1, <1>5 DEF Inv, Handling, Noticed
<1>7. Distinct(backlog)' /\ (Elements(backlog) \subseteq arrived)'
  BY <1>2 DEF Distinct, Elements
<1> QED BY <1>5, <1>6, <1>7 DEF Inv

\* main() gives the connection it accepted to one new child, and a parent closes it.
LEMMA MainKeeps == Inv /\ MainStep => Inv'
<1> SUFFICES ASSUME Inv, MainStep PROVE Inv'
  OBVIOUS
<1> USE ForkServerAssumption, ConnAssumption
<1>0. /\ TypeOK /\ ListenTypeOK /\ Top \in {"select", "accept"}
      /\ Trait.thread \in BOOLEAN
  BY TraitType DEF Inv, DescriptorsRight, TypeOK
<1>1. CASE MainSelect \/ MainUdp
  <2>1. /\ UNCHANGED <<backlog, arrived, aborted, program, restart, connfd, kid, fds, pending,
                       handler, done, stops>>
        /\ handler.at = "idle" /\ mpc \in {"select", "accept", "udp"}
        /\ mpc' \in {"select", "accept", "udp"} /\ rset' \subseteq {"listen", "udp"}
    BY <1>0, <1>1 DEF MainSelect, MainUdp, MainRuns, sigVars, listenVars, Ready
  <2>2. dgram' \in BOOLEAN
    BY <1>0, <1>1 DEF MainSelect, MainUdp, TypeOK
  <2>3. TypeOK'
    BY <1>0, <2>1, <2>2 DEF TypeOK, ListenTypeOK
  <2>4. /\ DescriptorsRight' /\ Tables' /\ Owned'
        /\ Trait' = Trait /\ UdpFds' = UdpFds /\ (up' <=> up) /\ Zombies' = Zombies
        /\ \A k \in Kids : Running(k)' <=> Running(k)
    BY <2>1, <2>3, FrameKeeps DEF Elements
  <2>5. Handling' /\ Noticed'
    BY <2>1, <2>4 DEF Inv, Handling, Noticed
  <2> QED BY <2>1, <2>4, <2>5 DEF Inv, Distinct, Elements
<1>2. CASE MainAccept
  <2>1. PICK c \in Conns : /\ AcceptReturns(c) /\ connfd' = c
                           /\ fds' = [fds EXCEPT ![Main] = @ \cup {c}]
    BY <1>2 DEF MainAccept
  <2>2. /\ mpc = "accept" /\ handler.at = "idle" /\ mpc' = "fork"
        /\ UNCHANGED <<program, restart, rset, kid, pending, handler, done, dgram, stops>>
    BY <1>2 DEF MainAccept, MainRuns, sigVars
  <2>3. /\ ListenTypeOK' /\ Distinct(backlog') /\ Elements(backlog') \subseteq arrived'
        /\ arrived' = arrived /\ Elements(backlog) = Elements(backlog') \cup {c}
        /\ c \notin Elements(backlog')
    BY <1>0, <2>1, TailLemma DEF Inv, ListenTypeOK, AcceptReturns
  <2>4. /\ \A k \in Kids : fds'[k] = fds[k]
        /\ fds'[Main] = fds[Main] \cup {c}
        /\ fds' \in [Kids \cup {Main} -> SUBSET (Conns \cup {ListenFd, UdpFd})]
    BY <1>0, <2>1 DEF TypeOK
  <2>5. TypeOK'
    BY <1>0, <2>1, <2>2, <2>3, <2>4 DEF TypeOK
  <2>6. /\ Trait' = Trait /\ UdpFds' = UdpFds /\ up /\ up' /\ Zombies' = Zombies
        /\ \A k \in Kids : Running(k)' <=> Running(k)
    BY <2>2 DEF Trait, UdpFds, up, Zombies, Running
  <2>7. Tables'
    BY <2>1, <2>2, <2>4, <2>6 DEF Inv, Tables
  <2>8. Owned'
    <3>1. c \in arrived /\ \A k \in Kids : Running(k) => kid[k].conn # c
      BY <2>1, <2>3 DEF Inv, Owned
    <3> QED BY <2>1, <2>2, <2>3, <2>6, <3>1 DEF Inv, Owned, Elements
  <2>9. DescriptorsRight'
    <3>1. fds[Main] = {ListenFd} \cup UdpFds \cup {}
                \cup (IF Trait.thread THEN {kid[k].conn : k \in {j \in Kids : Running(j)}} ELSE {})
      BY <2>2, <2>6 DEF Inv, DescriptorsRight
    <3>2. {kid'[k].conn : k \in {j \in Kids : Running(j)'}} = {kid[k].conn : k \in {j \in Kids : Running(j)}}
      BY <2>2, <2>6
    <3>3. {connfd'} \ {NoConn} = {c}
      BY <2>1
    <3>4. fds'[Main] = {ListenFd} \cup UdpFds \cup ({connfd'} \ {NoConn})
                \cup (IF Trait.thread THEN {kid'[k].conn : k \in {j \in Kids : Running(j)'}} ELSE {})
      BY <2>4, <3>1, <3>2, <3>3
    <3> QED BY <2>2, <2>4, <2>5, <2>6, <3>4 DEF Inv, DescriptorsRight
  <2>10. Handling' /\ Noticed'
    BY <2>2, <2>6 DEF Inv, Handling, Noticed
  <2> QED BY <2>3, <2>7, <2>8, <2>9, <2>10 DEF Inv, Distinct, Elements
<1>3. CASE MainForks
  <2>1. PICK k \in Unborn :
           /\ kid' = [kid EXCEPT ![k] = [st |-> "start", conn |-> connfd]]
           /\ fds' = [fds EXCEPT ![k] = ChildFds]
    BY <1>3 DEF MainForks
  <2>2. /\ mpc = "fork" /\ handler.at = "idle"
        /\ mpc' = IF Trait.thread THEN AfterTcp ELSE "close"
        /\ UNCHANGED <<backlog, arrived, aborted, program, restart, rset, connfd, pending,
                       handler, done, dgram, stops>>
        /\ k \in Kids /\ kid[k].st = "none" /\ AfterTcp \in {"select", "accept", "udp"}
    BY <1>0, <1>3 DEF MainForks, MainRuns, sigVars, listenVars, Unborn, AfterTcp
  <2>3. /\ kid' \in [Kids -> [st : {"none", "start", "serve", "close", "zombie", "gone"},
                              conn : Conns \cup {NoConn}]]
        /\ kid'[k].st = "start" /\ kid'[k].conn = connfd
        /\ \A j \in Kids \ {k} : kid'[j] = kid[j]
    BY <1>0, <2>1, <2>2 DEF TypeOK
  <2>4. /\ fds' \in [Kids \cup {Main} -> SUBSET (Conns \cup {ListenFd, UdpFd})]
        /\ fds'[k] = ChildFds /\ fds'[Main] = fds[Main]
        /\ \A j \in Kids \ {k} : fds'[j] = fds[j]
    BY <1>0, <2>1, <2>2 DEF TypeOK, ChildFds
  <2>5. TypeOK'
    BY <1>0, <2>1, <2>2, <2>3, <2>4 DEF TypeOK, ListenTypeOK
  <2>6. /\ Trait' = Trait /\ UdpFds' = UdpFds /\ up /\ up' /\ ~Running(k) /\ Running(k)'
        /\ \A j \in Kids \ {k} : Running(j)' <=> Running(j)
    BY <2>1, <2>2, <2>3 DEF Trait, UdpFds, up, Running
  <2>7. Zombies' = Zombies
    BY <2>2, <2>3 DEF Zombies
  <2>8. fds[Main] = {ListenFd} \cup UdpFds \cup ({connfd} \ {NoConn})
                \cup (IF Trait.thread THEN {kid[j].conn : j \in {i \in Kids : Running(i)}} ELSE {})
    BY <2>1, <2>2, <2>6 DEF Inv, DescriptorsRight
  <2>9. Tables'
    <3>1. ASSUME ~Trait.thread
          PROVE  fds'[k] = {ListenFd} \cup UdpFds \cup ({connfd} \ {NoConn}) /\ mpc' = "close"
      BY <2>1, <2>2, <2>4, <2>8, <3>1 DEF ChildFds
    <3>2. ASSUME Trait.thread
          PROVE  fds'[k] = {} /\ mpc' \notin {"fork", "close"} /\ connfd # NoConn
      BY <2>1, <2>2, <2>4, <3>2 DEF ChildFds, Inv, Tables
    <3> QED BY <2>1, <2>2, <2>3, <2>4, <2>6, <3>1, <3>2 DEF Inv, Tables
  <2>10. Owned'
    <3>1. mpc' # "fork"
      BY <2>1, <2>2
    <3>2. connfd # NoConn => /\ connfd \in arrived \ Elements(backlog)
                             /\ \A j \in Kids : Running(j) => kid[j].conn # connfd
      BY <2>1, <2>2 DEF Inv, Owned
    <3> QED BY <2>1, <2>2, <2>3, <2>6, <3>1, <3>2 DEF Inv, Owned, Elements
  <2>11. DescriptorsRight'
    <3>1. ASSUME Trait.thread
          PROVE  fds'[Main] = {ListenFd} \cup UdpFds \cup {kid'[j].conn : j \in {i \in Kids : Running(i)'}}
      <4>1. {i \in Kids : Running(i)'} = {i \in Kids : Running(i)} \cup {k}
        BY <2>2, <2>6
      <4>2. {kid'[j].conn : j \in {i \in Kids : Running(i)'}}
              = {kid[j].conn : j \in {i \in Kids : Running(i)}} \cup {connfd}
        BY <2>2, <2>3, <2>6, <4>1
      <4>3. connfd # NoConn
        BY <2>1, <2>2, <3>1 DEF Inv, Tables
      <4> QED BY <2>4, <2>8, <3>1, <4>2, <4>3
    <3>2. ASSUME ~Trait.thread
          PROVE  mpc' = "close" /\ fds'[Main] = {ListenFd} \cup UdpFds \cup ({connfd'} \ {NoConn})
      BY <2>1, <2>2, <2>4, <2>8, <3>2
    <3>3. Trait.thread => mpc' \notin {"fork", "close"}
      BY <2>1, <2>2
    <3>4. fds'[Main] = {ListenFd} \cup UdpFds
                \cup (IF mpc' \in {"fork", "close"} THEN {connfd'} \ {NoConn} ELSE {})
                \cup (IF Trait.thread THEN {kid'[j].conn : j \in {i \in Kids : Running(i)'}} ELSE {})
      BY <3>1, <3>2, <3>3
    <3>5. ASSUME NEW j \in Kids
          PROVE  /\ kid'[j].st \in {"serve", "close"} /\ ~Trait.thread
                       => fds'[j] = UdpFds \cup ({kid'[j].conn} \ {NoConn})
                 /\ kid'[j].st \in {"none", "zombie", "gone"} => fds'[j] = {}
      BY <2>3, <2>4 DEF Inv, DescriptorsRight
    <3> QED BY <2>5, <2>6, <3>4, <3>5 DEF DescriptorsRight
  <2>12. Handling' /\ Noticed'
    BY <2>1, <2>2, <2>6, <2>7 DEF Inv, Handling, Noticed
  <2> QED BY <2>1, <2>2, <2>9, <2>10, <2>11, <2>12 DEF Inv, Distinct, Elements
<1>4. CASE MainCloses
  <2>1. /\ mpc = "close" /\ handler.at = "idle" /\ mpc' \in {"select", "accept", "udp"}
        /\ fds' = [fds EXCEPT ![Main] = @ \ {connfd}]
        /\ UNCHANGED <<backlog, arrived, aborted, program, restart, rset, connfd, kid, pending,
                       handler, done, dgram, stops>>
    BY <1>0, <1>4 DEF MainCloses, MainRuns, sigVars, listenVars, AfterTcp, ParentCloses
  <2>2. /\ fds' \in [Kids \cup {Main} -> SUBSET (Conns \cup {ListenFd, UdpFd})]
        /\ \A j \in Kids : fds'[j] = fds[j]
        /\ fds'[Main] = fds[Main] \ {connfd}
    BY <1>0, <2>1 DEF TypeOK
  <2>3. TypeOK'
    BY <1>0, <2>1, <2>2 DEF TypeOK, ListenTypeOK
  <2>4. /\ Trait' = Trait /\ UdpFds' = UdpFds /\ up /\ up' /\ Zombies' = Zombies
        /\ \A j \in Kids : Running(j)' <=> Running(j)
    BY <2>1 DEF Trait, UdpFds, up, Zombies, Running
  <2>5. ~Trait.thread
    BY <2>1 DEF Inv, Tables
  <2>6. fds'[Main] = {ListenFd} \cup UdpFds
    <3>1. fds[Main] = {ListenFd} \cup UdpFds \cup ({connfd} \ {NoConn})
      BY <2>1, <2>4, <2>5 DEF Inv, DescriptorsRight
    <3>2. connfd \notin {ListenFd, UdpFd}
      BY <1>0 DEF TypeOK
    <3> QED BY <2>2, <3>1, <3>2 DEF UdpFds
  <2>7. DescriptorsRight'
    BY <2>1, <2>2, <2>3, <2>4, <2>5, <2>6 DEF Inv, DescriptorsRight
  <2>8. Tables' /\ Owned'
    BY <2>1, <2>2, <2>4, <2>5 DEF Inv, Tables, Owned, Elements
  <2>9. Handling' /\ Noticed'
    BY <2>1, <2>4 DEF Inv, Handling, Noticed
  <2> QED BY <2>1, <2>7, <2>8, <2>9 DEF Inv, Distinct, Elements
<1> QED BY <1>1, <1>2, <1>3, <1>4 DEF MainStep

\* accept() fails: only tcp_serve goes on, and forks a child for no connection.
LEMMA FailKeeps == Inv /\ MainAcceptFails => Inv'
<1> SUFFICES ASSUME Inv, MainAcceptFails PROVE Inv'
  OBVIOUS
<1> USE ForkServerAssumption, ConnAssumption
<1>0. TypeOK /\ ListenTypeOK /\ mpc = "accept" /\ handler.at = "idle" /\ up
  BY DEF Inv, DescriptorsRight, TypeOK, MainAcceptFails, MainRuns, up
<1>1. CASE Trait.eintr # "ignore"
  BY <1>0, <1>1, DiesKeeps DEF MainAcceptFails
<1>2. CASE Trait.eintr = "ignore"
  <2>1. /\ connfd' = NoConn /\ mpc' = "fork"
        /\ UNCHANGED <<backlog, arrived, aborted, program, restart, rset, kid, fds, pending,
                       handler, done, dgram, stops>>
    BY <1>2 DEF MainAcceptFails, sigVars, listenVars
  <2>2. TypeOK'
    BY <1>0, <2>1 DEF TypeOK, ListenTypeOK
  <2>3. /\ Trait' = Trait /\ UdpFds' = UdpFds /\ up' /\ Zombies' = Zombies
        /\ \A k \in Kids : Running(k)' <=> Running(k)
    BY <2>1 DEF Trait, UdpFds, up, Zombies, Running
  <2>4. ~Trait.thread
    BY <1>0, <1>2, TraitType DEF TypeOK
  <2>5. Tables' /\ Owned'
    BY <2>1, <2>3, <2>4 DEF Inv, Tables, Owned, Elements
  <2>6. fds[Main] = {ListenFd} \cup UdpFds
    BY <1>0, <2>4 DEF Inv, DescriptorsRight
  <2>7. DescriptorsRight'
    BY <2>1, <2>2, <2>3, <2>4, <2>6 DEF Inv, DescriptorsRight
  <2>8. Handling' /\ Noticed'
    BY <1>0, <2>1, <2>3 DEF Inv, Handling, Noticed
  <2> QED BY <2>1, <2>5, <2>7, <2>8 DEF Inv, Distinct, Elements
<1> QED BY <1>1, <1>2

\* With waitpid() in a loop the handler does not return before it has met every zombie;
\* a child that exits after that raises SIGCHLD anew.
LEMMA HandlerKeeps == Inv /\ HandlerStep => Inv'
<1> SUFFICES ASSUME Inv, HandlerStep PROVE Inv'
  OBVIOUS
<1> USE ForkServerAssumption
<1>0. /\ TypeOK /\ ListenTypeOK /\ Top \in {"select", "accept"}
      /\ handler \in [at : {"idle", "wait", "ret"}, intr : BOOLEAN]
  BY TraitType DEF Inv, DescriptorsRight, TypeOK
<1>1. CASE SigChld
  <2>1. PICK blocked \in BOOLEAN : /\ blocked => mpc = "accept"
                                   /\ handler' = [at |-> "wait", intr |-> blocked]
    BY <1>1 DEF SigChld
  <2>2. /\ up /\ pending' = FALSE
        /\ UNCHANGED <<backlog, arrived, aborted, program, restart, mpc, rset, connfd, kid, fds,
                       done, dgram, stops>>
    BY <1>1 DEF SigChld, listenVars, mainVars
  <2>3. TypeOK'
    <3>1. pending' \in BOOLEAN
      BY <2>2, Zenon
    <3>2. handler' \in [at : {"idle", "wait", "ret"}, intr : BOOLEAN]
      BY <2>1
    <3> QED BY <1>0, <2>2, <3>1, <3>2 DEF TypeOK, ListenTypeOK
  <2>4. /\ DescriptorsRight' /\ Tables' /\ Owned' /\ (up' <=> up)
    BY <2>2, <2>3, FrameKeeps DEF Elements
  <2>5. Handling' /\ Noticed'
    BY <2>1, <2>2, <2>4 DEF Handling, Noticed
  <2> QED BY <2>2, <2>4, <2>5 DEF Inv, Distinct, Elements
<1>2. CASE Reap
  <2>1. PICK k \in Zombies : kid' = [kid EXCEPT ![k].st = "gone"]
    BY <1>2 DEF Reap
  <2>2. /\ handler.at = "wait" /\ handler' = [handler EXCEPT !.at = AfterReap] /\ up
        /\ UNCHANGED <<backlog, arrived, aborted, program, restart, mpc, rset, connfd, fds, pending,
                       done, dgram, stops>>
    BY <1>2 DEF Reap, listenVars, mainVars, Inv, Handling
  <2>3. /\ handler' \in [at : {"idle", "wait", "ret"}, intr : BOOLEAN]
        /\ handler'.at = AfterReap /\ handler'.intr = handler.intr
    BY <1>0, <2>2 DEF AfterReap
  <2>4. /\ k \in Kids /\ kid[k].st = "zombie" /\ kid'[k].st = "gone" /\ kid'[k].conn = kid[k].conn
        /\ \A j \in Kids \ {k} : kid'[j] = kid[j]
        /\ kid' \in [Kids -> [st : {"none", "start", "serve", "close", "zombie", "gone"},
                              conn : Conns \cup {NoConn}]]
    BY <1>0, <2>1 DEF Zombies, TypeOK
  <2>5. TypeOK'
    BY <1>0, <2>2, <2>3, <2>4 DEF TypeOK, ListenTypeOK
  <2>6. KidOnly(k) /\ ~Running(k) /\ ~Running(k)'
    BY <2>2, <2>4, <2>5 DEF KidOnly, Running
  <2>7. /\ Owned' /\ Trait' = Trait /\ UdpFds' = UdpFds /\ (up' <=> up)
        /\ Distinct(backlog') /\ Elements(backlog') \subseteq arrived'
        /\ \A j \in Kids : Running(j)' <=> Running(j)
    BY <2>4, <2>6, KidKeeps
  <2>8. Tables'
    BY <2>2, <2>4, <2>7 DEF Inv, Tables
  <2>9. DescriptorsRight'
    <3>1. {kid'[j].conn : j \in {i \in Kids : Running(i)'}} = {kid[j].conn : j \in {i \in Kids : Running(i)}}
      BY <2>4, <2>7
    <3>2. fds[k] = {}
      BY <2>4 DEF Inv, DescriptorsRight
    <3> QED BY <2>2, <2>4, <2>5, <2>7, <3>1, <3>2 DEF Inv, DescriptorsRight
  <2>10. Handling' /\ Noticed'
    BY <2>2, <2>3, <2>7 DEF Inv, Handling, Noticed, AfterReap
  <2> QED BY <2>7, <2>8, <2>9, <2>10 DEF Inv, Distinct, Elements
<1>3. CASE ReapNone
  <2>1. /\ handler.at = "wait" /\ handler' = [handler EXCEPT !.at = "ret"] /\ Zombies = {} /\ up
        /\ UNCHANGED <<backlog, arrived, aborted, program, restart, mpc, rset, connfd, kid, fds,
                       pending, done, dgram, stops>>
    BY <1>3 DEF ReapNone, NothingToReap, listenVars, mainVars, Inv, Handling
  <2>2. /\ handler' \in [at : {"idle", "wait", "ret"}, intr : BOOLEAN]
        /\ handler'.intr = handler.intr
    BY <1>0, <2>1
  <2>3. TypeOK'
    BY <1>0, <2>1, <2>2 DEF TypeOK, ListenTypeOK
  <2>4. /\ DescriptorsRight' /\ Tables' /\ Owned' /\ (up' <=> up) /\ Zombies' = Zombies
    BY <2>1, <2>3, FrameKeeps DEF Elements
  <2>5. Handling' /\ Noticed'
    BY <2>1, <2>2, <2>4 DEF Inv, Handling, Noticed
  <2> QED BY <2>1, <2>4, <2>5 DEF Inv, Distinct, Elements
<1>4. CASE HandlerReturns
  <2>1. handler.at = "ret" /\ up
    BY <1>4 DEF HandlerReturns, Inv, Handling
  <2>2. CASE handler.intr /\ ~restart /\ Trait.eintr = "exit"
    BY <1>4, <2>1, <2>2, DiesKeeps DEF HandlerReturns
  <2>3. CASE ~(handler.intr /\ ~restart /\ Trait.eintr = "exit")
    <3>1. /\ handler' = Idle
          /\ mpc' = IF handler.intr /\ ~restart THEN Top ELSE mpc
          /\ UNCHANGED <<backlog, arrived, aborted, program, restart, rset, connfd, kid, fds, pending,
                         done, dgram, stops>>
      BY <1>4, <2>3 DEF HandlerReturns, listenVars
    <3>2. mpc' = mpc \/ (mpc = "accept" /\ mpc' \in {"select", "accept"})
      <4>1. handler.intr => mpc = "accept"
        BY <2>1 DEF Inv, Handling
      <4>2. CASE handler.intr /\ ~restart
        BY <1>0, <3>1, <4>1, <4>2, Zenon
      <4>3. CASE ~(handler.intr /\ ~restart)
        BY <3>1, <4>3, Zenon
      <4> QED BY <4>2, <4>3, Zenon
    <3>3. TypeOK'
      BY <1>0, <3>1, <3>2 DEF TypeOK, ListenTypeOK, Idle
    <3>4. /\ DescriptorsRight' /\ Tables' /\ Owned' /\ (up' <=> up) /\ Zombies' = Zombies
          /\ Trait' = Trait /\ UdpFds' = UdpFds
      BY <3>1, <3>2, <3>3, FrameKeeps DEF Elements
    <3>5. Handling' /\ Noticed'
      BY <2>1, <3>1, <3>4 DEF Inv, Handling, Noticed, Idle
    <3> QED BY <3>1, <3>4, <3>5 DEF Inv, Distinct, Elements
  <2> QED BY <2>2, <2>3
<1> QED BY <1>1, <1>2, <1>3, <1>4 DEF HandlerStep

\* A child closes what it was given, and a thread only its own connection.
LEMMA ChildKeeps ==
    ASSUME Inv, NEW k \in Kids, KidStep(k) \/ KidServed(k) \/ KidFails(k) \/ KidStops(k)
    PROVE  Inv'
<1> USE ForkServerAssumption, ConnAssumption
<1>0. /\ TypeOK /\ ListenTypeOK /\ program \in Programs
      /\ kid \in [Kids -> [st : {"none", "start", "serve", "close", "zombie", "gone"},
                           conn : Conns \cup {NoConn}]]
      /\ fds \in [Kids \cup {Main} -> SUBSET (Conns \cup {ListenFd, UdpFd})]
  BY DEF Inv, DescriptorsRight, TypeOK
<1>1. CASE KidStarts(k)
  <2>1. /\ kid[k].st = "start" /\ fds' = [fds EXCEPT ![k] = @ \ {ListenFd}]
        /\ kid' = [kid EXCEPT ![k] = [st |-> "serve", conn |-> kid[k].conn]]
        /\ UNCHANGED <<backlog, arrived, aborted, program, restart, mpc, rset, connfd, pending,
                       handler, done, dgram, stops>>
    BY <1>1 DEF KidStarts, KidConn, listenVars, mainVars, sigVars
  <2>2. /\ kid' \in [Kids -> [st : {"none", "start", "serve", "close", "zombie", "gone"},
                              conn : Conns \cup {NoConn}]]
        /\ kid'[k].st = "serve" /\ kid'[k].conn = kid[k].conn
        /\ \A j \in Kids \ {k} : kid'[j] = kid[j]
    BY <1>0, <2>1
  <2>3. /\ fds' \in [Kids \cup {Main} -> SUBSET (Conns \cup {ListenFd, UdpFd})]
        /\ fds'[k] = fds[k] \ {ListenFd} /\ fds'[Main] = fds[Main]
        /\ \A j \in Kids \ {k} : fds'[j] = fds[j]
    BY <1>0, <2>1
  <2>4. TypeOK'
    BY <1>0, <2>1, <2>2, <2>3 DEF TypeOK, ListenTypeOK
  <2>5. KidOnly(k) /\ Running(k) /\ Running(k)'
    BY <2>1, <2>2, <2>3, <2>4 DEF KidOnly, Running
  <2>6. /\ Owned' /\ Trait' = Trait /\ UdpFds' = UdpFds /\ (up' <=> up)
        /\ Distinct(backlog') /\ Elements(backlog') \subseteq arrived'
        /\ \A j \in Kids : Running(j)' <=> Running(j)
    BY <2>5, KidKeeps
  <2>7. Tables'
    BY <2>1, <2>2, <2>3, <2>6 DEF Inv, Tables
  <2>8. {kid'[j].conn : j \in {i \in Kids : Running(i)'}} = {kid[j].conn : j \in {i \in Kids : Running(i)}}
    BY <2>2, <2>6
  <2>9. ~Trait.thread => fds'[k] = UdpFds \cup ({kid'[k].conn} \ {NoConn})
    <3>1. kid[k].conn \notin {ListenFd, UdpFd}
      BY <1>0
    <3> QED BY <2>1, <2>2, <2>3, <3>1 DEF UdpFds, Inv, Tables
  <2>10. DescriptorsRight'
    BY <2>1, <2>2, <2>3, <2>4, <2>6, <2>8, <2>9 DEF Inv, DescriptorsRight
  <2>11. Zombies' = Zombies
    BY <2>1, <2>2 DEF Zombies
  <2>12. Handling' /\ Noticed'
    BY <2>1, <2>6, <2>11 DEF Inv, Handling, Noticed
  <2> QED BY <2>6, <2>7, <2>10, <2>12 DEF Inv, Distinct, Elements
<1>2. CASE KidServed(k) \/ (KidFails(k) /\ ~Trait.thread)
  <2>1. /\ kid[k].st = "serve" /\ kid' = [kid EXCEPT ![k].st = "close"]
        /\ UNCHANGED <<backlog, arrived, aborted, program, restart, mpc, rset, connfd, fds, pending,
                       handler, done, dgram, stops>>
    BY <1>2 DEF KidServed, KidFails, listenVars, mainVars, sigVars
  <2>2. /\ kid' \in [Kids -> [st : {"none", "start", "serve", "close", "zombie", "gone"},
                              conn : Conns \cup {NoConn}]]
        /\ kid'[k].st = "close" /\ kid'[k].conn = kid[k].conn
        /\ \A j \in Kids \ {k} : kid'[j] = kid[j]
    BY <1>0, <2>1
  <2>4. TypeOK'
    BY <1>0, <2>1, <2>2 DEF TypeOK, ListenTypeOK
  <2>5. KidOnly(k) /\ Running(k) /\ Running(k)'
    BY <2>1, <2>2, <2>4 DEF KidOnly, Running
  <2>6. /\ Owned' /\ Trait' = Trait /\ UdpFds' = UdpFds /\ (up' <=> up)
        /\ Distinct(backlog') /\ Elements(backlog') \subseteq arrived'
        /\ \A j \in Kids : Running(j)' <=> Running(j)
    BY <2>5, KidKeeps
  <2>7. Tables'
    BY <2>1, <2>2, <2>6 DEF Inv, Tables
  <2>8. {kid'[j].conn : j \in {i \in Kids : Running(i)'}} = {kid[j].conn : j \in {i \in Kids : Running(i)}}
    BY <2>2, <2>6
  <2>10. DescriptorsRight'
    BY <2>1, <2>2, <2>4, <2>6, <2>8 DEF Inv, DescriptorsRight
  <2>11. Zombies' = Zombies
    BY <2>1, <2>2 DEF Zombies
  <2>12. Handling' /\ Noticed'
    BY <2>1, <2>6, <2>11 DEF Inv, Handling, Noticed
  <2> QED BY <2>6, <2>7, <2>10, <2>12 DEF Inv, Distinct, Elements
<1>3. CASE KidFails(k) /\ Trait.thread
  <2>1. Running(k) /\ MainDies
    BY <1>3 DEF KidFails, Running
  <2>2. up
    BY <1>3, <2>1 DEF Inv, Handling
  <2> QED BY <2>1, <2>2, DiesKeeps
<1>4. CASE KidExits(k)
  <2>1. /\ kid[k].st = "close" /\ ~Trait.thread
        /\ kid' = [kid EXCEPT ![k].st = IF up THEN "zombie" ELSE "gone"]
        /\ fds' = [fds EXCEPT ![k] = {}]
        /\ pending' = (pending \/ (up /\ Trait.reap # "none"))
        /\ done' = done \cup ({kid[k].conn} \ {NoConn})
        /\ UNCHANGED <<backlog, arrived, aborted, program, restart, mpc, rset, connfd, handler,
                       dgram, stops>>
    BY <1>4 DEF KidExits, listenVars, mainVars
  <2>2. /\ kid' \in [Kids -> [st : {"none", "start", "serve", "close", "zombie", "gone"},
                              conn : Conns \cup {NoConn}]]
        /\ kid'[k].st \in {"zombie", "gone"} /\ kid'[k].conn = kid[k].conn
        /\ \A j \in Kids \ {k} : kid'[j] = kid[j]
    BY <1>0, <2>1
  <2>3. /\ fds' \in [Kids \cup {Main} -> SUBSET (Conns \cup {ListenFd, UdpFd})]
        /\ fds'[k] = {} /\ fds'[Main] = fds[Main]
        /\ \A j \in Kids \ {k} : fds'[j] = fds[j]
    BY <1>0, <2>1
  <2>4. TypeOK'
    <3>1. pending' \in BOOLEAN
      BY <1>0, <2>1, Zenon DEF TypeOK
    <3>2. done' \subseteq Conns
      BY <1>0, <2>1 DEF TypeOK
    <3> QED BY <1>0, <2>1, <2>2, <2>3, <3>1, <3>2 DEF TypeOK, ListenTypeOK
  <2>5. KidOnly(k) /\ ~Running(k)'
    BY <2>1, <2>2, <2>3, <2>4 DEF KidOnly, Running
  <2>6. /\ Owned' /\ Trait' = Trait /\ UdpFds' = UdpFds /\ (up' <=> up)
        /\ Distinct(backlog') /\ Elements(backlog') \subseteq arrived'
        /\ \A j \in Kids \ {k} : Running(j)' <=> Running(j)
    BY <2>5, KidKeeps
  <2>7. Tables'
    BY <2>1, <2>2, <2>3, <2>5, <2>6 DEF Inv, Tables
  <2>8. DescriptorsRight'
    BY <2>1, <2>2, <2>3, <2>4, <2>6 DEF Inv, DescriptorsRight
  <2>9. Handling'
    BY <2>1, <2>6 DEF Inv, Handling
  <2>10. Noticed'
    <3>1. up /\ Trait.reap = "waitpid" => pending'
      BY <2>1
    <3> QED BY <2>6, <3>1 DEF Noticed
  <2> QED BY <2>6, <2>7, <2>8, <2>9, <2>10 DEF Inv, Distinct, Elements
<1>5. CASE ThreadCloses(k)
  <2>1. /\ kid[k].st = "close" /\ Trait.thread
        /\ kid' = [kid EXCEPT ![k].st = "gone"]
        /\ fds' = [fds EXCEPT ![Main] = @ \ {kid[k].conn}]
        /\ done' = done \cup {kid[k].conn}
        /\ UNCHANGED <<backlog, arrived, aborted, program, restart, mpc, rset, connfd, pending,
                       handler, dgram, stops>>
    BY <1>5 DEF ThreadCloses, listenVars, mainVars, sigVars
  <2>2. /\ kid' \in [Kids -> [st : {"none", "start", "serve", "close", "zombie", "gone"},
                              conn : Conns \cup {NoConn}]]
        /\ kid'[k].st = "gone" /\ kid'[k].conn = kid[k].conn
        /\ \A j \in Kids \ {k} : kid'[j] = kid[j]
    BY <1>0, <2>1
  <2>3. /\ fds' \in [Kids \cup {Main} -> SUBSET (Conns \cup {ListenFd, UdpFd})]
        /\ fds'[Main] = fds[Main] \ {kid[k].conn}
        /\ \A j \in Kids : fds'[j] = fds[j]
    BY <1>0, <2>1
  <2>4. Running(k) /\ kid[k].conn # NoConn /\ kid[k].conn \in Conns /\ up
    BY <1>0, <2>1 DEF Running, Inv, Tables, Handling
  <2>5. TypeOK'
    BY <1>0, <2>1, <2>2, <2>3, <2>4 DEF TypeOK, ListenTypeOK
  <2>6. KidOnly(k) /\ ~Running(k)'
    BY <2>1, <2>2, <2>3, <2>5 DEF KidOnly, Running
  <2>7. /\ Owned' /\ Trait' = Trait /\ UdpFds' = UdpFds /\ (up' <=> up)
        /\ Distinct(backlog') /\ Elements(backlog') \subseteq arrived'
        /\ \A j \in Kids \ {k} : Running(j)' <=> Running(j)
    BY <2>4, <2>6, KidKeeps
  <2>8. Tables'
    BY <2>1, <2>2, <2>3, <2>6, <2>7 DEF Inv, Tables
  <2>9. DescriptorsRight'
    <3> DEFINE R == {kid[j].conn : j \in {i \in Kids : Running(i)}}
               Q == {kid'[j].conn : j \in {i \in Kids : Running(i)'}}
    <3>1. fds[Main] = {ListenFd} \cup UdpFds \cup (IF mpc = "fork" THEN {connfd} \ {NoConn} ELSE {}) \cup R
      BY <2>1, <2>4 DEF Inv, DescriptorsRight, Tables
    <3>2. Q = R \ {kid[k].conn}
      <4>1. Q \subseteq R /\ kid[k].conn \notin Q
        BY <2>2, <2>4, <2>6, <2>7 DEF Inv, Owned
      <4>2. R \ {kid[k].conn} \subseteq Q
        BY <2>2, <2>4, <2>6, <2>7
      <4> QED BY <4>1, <4>2
    <3>3. mpc = "fork" => connfd # kid[k].conn
      BY <2>4 DEF Inv, Owned
    <3>4. kid[k].conn \notin {ListenFd, UdpFd}
      BY <2>4
    <3> HIDE DEF R, Q
    <3>5. fds'[Main] = {ListenFd} \cup UdpFds \cup (IF mpc = "fork" THEN {connfd} \ {NoConn} ELSE {}) \cup Q
      BY <2>3, <3>1, <3>2, <3>3, <3>4 DEF UdpFds
    <3>6. mpc # "close"
      BY <2>1 DEF Inv, Tables
    <3>7. ASSUME NEW j \in Kids, kid'[j].st \in {"none", "zombie", "gone"} PROVE fds'[j] = {}
      BY <2>1, <2>3 DEF Inv, Tables
    <3> QED BY <2>1, <2>5, <2>7, <3>5, <3>6, <3>7 DEF DescriptorsRight, Q
  <2>10. Handling'
    BY <2>1, <2>4, <2>7 DEF Inv, Handling
  <2>11. Noticed'
    <3>1. Trait.reap = "none"
      BY <1>0, <2>1, TraitType
    <3> QED BY <2>7, <3>1 DEF Noticed
  <2> QED BY <2>7, <2>8, <2>9, <2>10, <2>11 DEF Inv, Distinct, Elements
<1>6. CASE KidStops(k)
  <2>1. /\ up /\ stops < MaxStops /\ stops' = stops + 1 /\ pending' = TRUE
        /\ UNCHANGED <<backlog, arrived, aborted, program, restart, mpc, rset, connfd, kid, fds,
                       handler, done, dgram>>
    BY <1>6 DEF KidStops, listenVars, mainVars
  <2>2. TypeOK'
    <3>1. stops' \in 0 .. MaxStops
      BY <1>0, <2>1 DEF TypeOK
    <3>2. pending' \in BOOLEAN
      BY <2>1, Zenon
    <3> QED BY <1>0, <2>1, <3>1, <3>2 DEF TypeOK, ListenTypeOK
  <2>3. /\ DescriptorsRight' /\ Tables' /\ Owned' /\ (up' <=> up) /\ Trait' = Trait /\ UdpFds' = UdpFds
        /\ \A j \in Kids : Running(j)' <=> Running(j)
    BY <2>1, <2>2, FrameKeeps DEF Elements
  <2>4. Handling' /\ Noticed'
    BY <2>1, <2>3 DEF Inv, Handling, Noticed
  <2> QED BY <2>1, <2>3, <2>4 DEF Inv, Distinct, Elements
<1> QED BY <1>1, <1>2, <1>3, <1>4, <1>5, <1>6 DEF KidStep

LEMMA InvNext == Inv /\ [Next]_vars => Inv'
<1> SUFFICES ASSUME Inv, [Next]_vars PROVE Inv'
  OBVIOUS
<1>1. CASE Client
  BY <1>1, ClientKeeps
<1>2. CASE MainStep
  BY <1>2, MainKeeps
<1>3. CASE MainAcceptFails
  BY <1>3, FailKeeps
<1>4. CASE MainEnds
  BY <1>4, DiesKeeps DEF MainEnds
<1>5. CASE HandlerStep
  BY <1>5, HandlerKeeps
<1>6. ASSUME NEW k \in Kids, KidStep(k) \/ KidServed(k) \/ KidFails(k) \/ KidStops(k) PROVE Inv'
  BY <1>6, ChildKeeps
<1>7. CASE UNCHANGED vars
  BY <1>7 DEF vars, Inv, DescriptorsRight, TypeOK, UdpFds, ListenTypeOK, UdpFds, Tables, Owned, Handling, Noticed,
              Distinct, Elements, Trait, up, Running, Zombies
<1> QED BY <1>1, <1>2, <1>3, <1>4, <1>5, <1>6, <1>7 DEF Next

\* A server with a process or a thread per connection leaks no descriptor (tcpserv01.c:26-31,
\* serv06.c:26-39), and one whose sig_chld() loops over waitpid() keeps no zombie
\* (sigchldwaitpid.c:9-10), for any number of children, connections and stopped children.
THEOREM NothingLeaks == Spec => []NothingLeftOver
<1>1. Inv => NothingLeftOver
  BY DEF Inv, NothingLeftOver, NoZombies, Noticed
<1> QED BY <1>1, InvInit, InvNext, PTL DEF Spec

-----------------------------------------------------------------------------
(* Refinement of ConnDispatch.                                              *)

\* The connection accept() returned and no child has yet, and the line clients wait in.
Hand == IF mpc = "fork" /\ connfd # NoConn THEN <<connfd>> ELSE <<>>
Line == IF ~up THEN <<>> ELSE Hand \o backlog

\* What child k serves, and what each does.
Serving(k) == IF Running(k) THEN kid[k].conn ELSE NoConn
Served == [k \in Kids |-> Serving(k)]

\* Every step is a step of ConnDispatch or leaves its variables alone: a child has its
\* connection from fork() on, and waits, signals, zombies and datagrams are invisible.
LEMMA DispatchNext == Inv /\ [Next]_vars => [Dispatch!Next]_(Dispatch!dispatchVars)
<1> SUFFICES ASSUME Inv, [Next]_vars
             PROVE  Dispatch!Next \/ UNCHANGED Dispatch!dispatchVars
  OBVIOUS
<1> USE ConnAssumption, ForkServerAssumption
<1>0. /\ TypeOK /\ program \in Programs /\ backlog \in Seq(Conns)
      /\ kid \in [Kids -> [st : {"none", "start", "serve", "close", "zombie", "gone"},
                           conn : Conns \cup {NoConn}]]
      /\ Hand \in Seq(Conns) /\ Top \in {"select", "accept"}
  BY TraitType DEF Inv, DescriptorsRight, TypeOK, ListenTypeOK, Hand
\* The steps of ConnDispatch in these terms.
<1>1. ASSUME Line' = Line, Served' = Served, UNCHANGED <<arrived, aborted, done>>, up' = up
      PROVE  UNCHANGED Dispatch!dispatchVars
  BY <1>1 DEF Dispatch!dispatchVars, Line, Hand, Served, Serving
<1>2. ASSUME NEW c \in Conns, up, c \notin arrived, arrived' = arrived \cup {c},
             Line' = Append(Line, c), Served' = Served, UNCHANGED <<aborted, done>>, up' = up
      PROVE  Dispatch!Next
  BY <1>2 DEF Dispatch!Next, Dispatch!Arrive, Line, Hand, Served, Serving
<1>3. ASSUME NEW k \in DOMAIN Line, up, Line' = Without(Line, k), Served' = Served,
             aborted' = aborted \cup {Line[k]}, UNCHANGED <<arrived, done>>, up' = up
      PROVE  Dispatch!Next
  BY <1>3 DEF Dispatch!Next, Dispatch!Abort, Without, Line, Hand, Served, Serving
<1>4. ASSUME NEW w \in Kids, up, Line # <<>>, Served[w] = NoConn, Line' = Tail(Line),
             Served' = [Served EXCEPT ![w] = Head(Line)],
             UNCHANGED <<arrived, aborted, done>>, up' = up
      PROVE  Dispatch!Next
  BY <1>4 DEF Dispatch!Next, Dispatch!Take, Line, Hand, Served, Serving
<1>5. ASSUME NEW w \in Kids, Served[w] # NoConn, Line' = Line,
             done' = done \cup {Served[w]}, Served' = [Served EXCEPT ![w] = NoConn],
             UNCHANGED <<arrived, aborted>>, up' = up
      PROVE  Dispatch!Next
  BY <1>5 DEF Dispatch!Next, Dispatch!Finish, Line, Hand, Served, Serving
<1>6. ASSUME up, up' = FALSE, NEW W \in SUBSET Kids,
             Served' = [w \in Kids |-> IF w \in W THEN NoConn ELSE Served[w]],
             UNCHANGED <<arrived, aborted, done>>
      PROVE  Dispatch!Next
  <2>1. Line' = <<>>
    BY <1>6 DEF Line
  <2> QED BY <1>6, <2>1 DEF Dispatch!Next, Dispatch!Exit, Line, Hand, Served, Serving
\* Steps that leave the children alone.
<1>7. ASSUME UNCHANGED <<kid>> PROVE Served' = Served
  BY <1>7 DEF Served, Serving, Running
<1>8. ASSUME UNCHANGED <<backlog, arrived, aborted, done, connfd>>, Served' = Served,
             mpc' = mpc \/ {mpc, mpc'} \cap {"fork", "dead"} = {}
      PROVE  UNCHANGED Dispatch!dispatchVars
  <2>1. up' = up /\ Line' = Line
    BY <1>8 DEF up, Line, Hand
  <2> QED BY <1>1, <1>8, <2>1
<1>9. CASE Client
  <2>1. up /\ UNCHANGED <<mpc, connfd, kid, done>>
    BY <1>9 DEF Client, mainVars
  <2>2. /\ Served' = Served /\ up' = up /\ Hand' = Hand
        /\ Line = Hand \o backlog /\ Line' = Hand \o backlog'
    BY <1>7, <2>1 DEF up, Hand, Line
  <2>3. ASSUME NEW c \in Conns, ConnArrives(c) PROVE Dispatch!Next
    <3>1. Line' = Append(Line, c)
      BY <1>0, <2>2, <2>3, LineClient DEF ConnArrives
    <3> QED BY <1>2, <2>1, <2>2, <2>3, <3>1 DEF ConnArrives
  <2>4. ASSUME NEW k \in DOMAIN backlog, ConnAborted(k) PROVE Dispatch!Next
    <3>1. /\ Len(Hand) + k \in DOMAIN Line /\ Line[Len(Hand) + k] = backlog[k]
          /\ Line' = Without(Line, Len(Hand) + k)
      <4>1. /\ Len(Hand) + k \in DOMAIN (Hand \o backlog) /\ (Hand \o backlog)[Len(Hand) + k] = backlog[k]
            /\ Hand \o DropAt(backlog, k) = Without(Hand \o backlog, Len(Hand) + k)
        BY <1>0, <2>4, LineClient
      <4>2. backlog' = DropAt(backlog, k)
        BY <2>4 DEF ConnAborted
      <4> QED BY <2>2, <4>1, <4>2, Zenon
    <3> QED BY <1>3, <2>1, <2>2, <2>4, <3>1 DEF ConnAborted
  <2>5. CASE UNCHANGED listenVars
    BY <1>8, <2>1, <2>2, <2>5 DEF listenVars
  <2>6. arrived # Conns => (CHOOSE c \in Conns \ arrived : TRUE) \in Conns
    BY <1>0 DEF TypeOK, ListenTypeOK
  <2> QED BY <1>9, <2>3, <2>4, <2>5, <2>6 DEF Client
<1>10. CASE MainSelect \/ MainUdp \/ MainCloses
  <2>1. /\ UNCHANGED <<backlog, arrived, aborted, done, connfd, kid>>
        /\ mpc \in {"select", "udp", "close"} /\ mpc' \in {"select", "accept", "udp"}
    BY <1>0, <1>10 DEF MainSelect, MainUdp, MainCloses, MainRuns, AfterTcp, listenVars
  <2> QED BY <1>7, <1>8, <2>1
<1>11. CASE MainAccept
  <2>1. PICK c \in Conns : AcceptReturns(c) /\ connfd' = c
    BY <1>11 DEF MainAccept
  <2>2. mpc = "accept" /\ mpc' = "fork" /\ UNCHANGED <<kid, done>>
    BY <1>11 DEF MainAccept, MainRuns
  <2>3. Hand = <<>> /\ Hand' = <<c>> /\ up' = up /\ up /\ up'
    BY <2>1, <2>2 DEF Hand, up
  <2>4. Line' = Line
    <3>1. /\ backlog # <<>> /\ c = Head(backlog) /\ backlog' = Tail(backlog)
      BY <2>1 DEF AcceptReturns
    <3>2. <<Head(backlog)>> \o Tail(backlog) = <<>> \o backlog
      BY <1>0, <3>1
    <3> QED BY <2>3, <3>1, <3>2 DEF Line
  <2> QED BY <1>1, <1>7, <2>1, <2>2, <2>3, <2>4 DEF AcceptReturns
<1>12. ASSUME up, MainDies PROVE Dispatch!Next
  <2> DEFINE W == {k \in Kids : Trait.thread \/ ~Running(k)}
  <2>1. \A k \in Kids : Serving(k)' = IF k \in W THEN NoConn ELSE Served[k]
    <3> SUFFICES ASSUME NEW k \in Kids
                 PROVE  Serving(k)' = IF k \in W THEN NoConn ELSE Served[k]
      OBVIOUS
    <3>1. kid' = [j \in Kids |-> IF Trait.thread \/ ~Running(j)
                                 THEN [kid[j] EXCEPT !.st = "gone"] ELSE kid[j]]
      BY <1>12 DEF MainDies
    <3>2. CASE k \in W
      <4>1. kid'[k].st = "gone"
        BY <1>0, <3>1, <3>2
      <4> QED BY <3>2, <4>1 DEF Serving, Running
    <3>3. CASE k \notin W
      <4>1. kid'[k] = kid[k]
        BY <1>0, <3>1, <3>3
      <4> QED BY <3>3, <4>1 DEF Serving, Running, Served
    <3> QED BY <3>2, <3>3
  <2>2. Served' = [w \in Kids |-> IF w \in W THEN NoConn ELSE Served[w]]
    BY <2>1 DEF Served
  <2>3. W \in SUBSET Kids /\ up' = FALSE /\ UNCHANGED <<arrived, aborted, done>>
    BY <1>12 DEF MainDies, listenVars, up
  <2> HIDE DEF W
  <2> QED BY <1>6, <1>12, <2>2, <2>3
<1>13. CASE MainAcceptFails
  <2>1. mpc = "accept" /\ up
    BY <1>13 DEF MainAcceptFails, MainRuns, up
  <2>2. CASE Trait.eintr # "ignore"
    BY <1>12, <1>13, <2>1, <2>2 DEF MainAcceptFails
  <2>3. CASE Trait.eintr = "ignore"
    <3>1. /\ connfd' = NoConn /\ mpc' = "fork"
          /\ UNCHANGED <<backlog, arrived, aborted, kid, done>>
      BY <1>13, <2>3 DEF MainAcceptFails, listenVars
    <3>2. Line' = Line /\ up' = up
      BY <2>1, <3>1 DEF Line, Hand, up
    <3> QED BY <1>1, <1>7, <3>1, <3>2
  <2> QED BY <2>2, <2>3
<1>14. CASE MainForks
  <2>1. PICK k \in Unborn : kid' = [kid EXCEPT ![k] = [st |-> "start", conn |-> connfd]]
    BY <1>14 DEF MainForks
  <2>2. /\ mpc = "fork" /\ mpc' \in {"close", "select", "accept", "udp"}
        /\ UNCHANGED <<backlog, arrived, aborted, done, connfd>>
        /\ k \in Kids /\ kid[k].st = "none"
    BY <1>0, <1>14 DEF MainForks, MainRuns, listenVars, Unborn, AfterTcp
  <2>3. Serving(k) = NoConn /\ Serving(k)' = connfd /\ \A j \in Kids \ {k} : Serving(j)' = Serving(j)
    <3>1. kid'[k].st = "start" /\ kid'[k].conn = connfd /\ \A j \in Kids \ {k} : kid'[j] = kid[j]
      BY <1>0, <2>1, <2>2
    <3> QED BY <2>2, <3>1 DEF Serving, Running
  <2>4. Served[k] = NoConn /\ Served' = [Served EXCEPT ![k] = connfd]
    BY <2>2, <2>3 DEF Served
  <2>5. up /\ up' = up /\ Hand' = <<>> /\ Line' = backlog
    <3>1. <<>> \o backlog = backlog
      BY <1>0
    <3> QED BY <2>2, <3>1 DEF up, Hand, Line
  <2>6. CASE connfd = NoConn
    <3>1. Served' = Served
      BY <2>4, <2>6 DEF Served
    <3>2. Line' = Line
      BY <1>0, <2>5, <2>6 DEF Line, Hand
    <3> QED BY <1>1, <2>2, <2>5, <3>1, <3>2
  <2>7. CASE connfd # NoConn
    <3>1. Line = <<connfd>> \o backlog /\ connfd \in Conns
      BY <1>0, <2>2, <2>5, <2>7 DEF Line, Hand, TypeOK
    <3>2. Line # <<>> /\ Head(Line) = connfd /\ Tail(Line) = backlog
      BY <1>0, <3>1
    <3> QED BY <1>4, <2>2, <2>4, <2>5, <3>2
  <2> QED BY <2>6, <2>7
<1>15. CASE SigChld \/ ReapNone
  BY <1>7, <1>8, <1>15 DEF SigChld, ReapNone, listenVars, mainVars
<1>16. CASE Reap
  <2>1. PICK k \in Zombies : kid' = [kid EXCEPT ![k].st = "gone"]
    BY <1>16 DEF Reap
  <2>2. \A j \in Kids : Serving(j)' = Serving(j)
    BY <1>0, <2>1 DEF Serving, Running, Zombies
  <2>3. Served' = Served
    BY <2>2 DEF Served
  <2> QED BY <1>8, <1>16, <2>3 DEF Reap, listenVars, mainVars
<1>17. CASE HandlerReturns
  <2>1. handler.at = "ret" /\ up /\ (handler.intr => mpc = "accept")
    BY <1>17 DEF HandlerReturns, Inv, Handling
  <2>2. CASE handler.intr /\ ~restart /\ Trait.eintr = "exit"
    BY <1>12, <1>17, <2>1, <2>2 DEF HandlerReturns
  <2>3. CASE ~(handler.intr /\ ~restart /\ Trait.eintr = "exit")
    <3>1. /\ mpc' = IF handler.intr /\ ~restart THEN Top ELSE mpc
          /\ UNCHANGED <<backlog, arrived, aborted, connfd, kid, done>>
      BY <1>17, <2>3 DEF HandlerReturns, listenVars
    <3>2. mpc' = mpc \/ (mpc = "accept" /\ mpc' = Top)
      BY <2>1, <3>1, Zenon
    <3>3. mpc' = mpc \/ {mpc, mpc'} \cap {"fork", "dead"} = {}
      BY <1>0, <3>2
    <3> QED BY <1>7, <1>8, <3>1, <3>3
  <2> QED BY <2>2, <2>3
<1>18. ASSUME NEW k \in Kids, KidStarts(k) \/ KidServed(k) \/ (KidFails(k) /\ ~Trait.thread) \/ KidStops(k)
       PROVE  UNCHANGED Dispatch!dispatchVars
  <2>1. UNCHANGED <<backlog, arrived, aborted, done, connfd, mpc>>
    BY <1>18 DEF KidStarts, KidServed, KidFails, KidStops, listenVars, mainVars
  <2>2. \A j \in Kids : Serving(j)' = Serving(j)
    BY <1>0, <1>18 DEF KidStarts, KidConn, KidServed, KidFails, KidStops, Serving, Running
  <2>3. Served' = Served
    BY <2>2 DEF Served
  <2> QED BY <1>8, <2>1, <2>3
<1>19. ASSUME NEW k \in Kids, KidFails(k), Trait.thread PROVE Dispatch!Next
  <2>1. Running(k) /\ MainDies
    BY <1>19 DEF KidFails, Running
  <2>2. up
    BY <1>19, <2>1 DEF Inv, Handling
  <2> QED BY <1>12, <2>1, <2>2
<1>20. ASSUME NEW k \in Kids, KidExits(k) \/ ThreadCloses(k)
       PROVE  Dispatch!Next \/ UNCHANGED Dispatch!dispatchVars
  <2>1. /\ UNCHANGED <<backlog, arrived, aborted, connfd, mpc>> /\ kid[k].st = "close"
        /\ \/ kid' = [kid EXCEPT ![k].st = IF up THEN "zombie" ELSE "gone"]
           \/ kid' = [kid EXCEPT ![k].st = "gone"]
    BY <1>20 DEF KidExits, ThreadCloses, listenVars, mainVars
  <2>2. /\ Serving(k) = kid[k].conn /\ Serving(k)' = NoConn
        /\ \A j \in Kids \ {k} : Serving(j)' = Serving(j)
    <3>1. kid'[k].st \in {"zombie", "gone"} /\ \A j \in Kids \ {k} : kid'[j] = kid[j]
      BY <1>0, <2>1
    <3> QED BY <2>1, <3>1 DEF Serving, Running
  <2>3. Served[k] = kid[k].conn /\ Served' = [Served EXCEPT ![k] = NoConn]
    <3>1. Served[k] = kid[k].conn /\ DOMAIN Served = Kids
      BY <2>2 DEF Served
    <3>2. Served' = [j \in Kids |-> IF j = k THEN NoConn ELSE Serving(j)]
      BY <2>2 DEF Served
    <3> QED BY <3>1, <3>2 DEF Served
  <2>4. up' = up /\ Line' = Line
    BY <2>1 DEF up, Line, Hand
  <2>5. done' = done \cup ({kid[k].conn} \ {NoConn})
    <3>1. CASE KidExits(k)
      BY <3>1 DEF KidExits
    <3>2. CASE ThreadCloses(k)
      <4>1. kid[k].conn # NoConn
        BY <2>1, <3>2 DEF ThreadCloses, Inv, Tables, Running
      <4> QED BY <3>2, <4>1 DEF ThreadCloses
    <3> QED BY <1>20, <3>1, <3>2
  <2>6. CASE kid[k].conn = NoConn
    <3>1. Served' = Served /\ done' = done
      BY <2>3, <2>5, <2>6 DEF Served
    <3> QED BY <1>1, <2>1, <2>4, <3>1
  <2>7. CASE kid[k].conn # NoConn
    <3>1. Served[k] # NoConn /\ done' = done \cup {Served[k]}
      BY <2>3, <2>5, <2>7
    <3> QED BY <1>5, <2>1, <2>3, <2>4, <3>1
  <2> QED BY <2>6, <2>7
<1>21. CASE UNCHANGED vars
  BY <1>7, <1>8, <1>21 DEF vars
<1>22. CASE MainEnds
  BY <1>12, <1>22 DEF MainEnds
<1> QED
  BY <1>9, <1>10, <1>11, <1>13, <1>14, <1>15, <1>16, <1>17, <1>18, <1>19, <1>20, <1>21, <1>22
     DEF Next, MainStep, HandlerStep, KidStep

\* All the servers of ForkServer keep the promise of ConnDispatch: connections are
\* accepted in order of arrival and each is served by one child or thread, its own, until
\* it is done or the server ends (tcpserv01.c:24-31, threads/tcpserv02.c:24-41).
THEOREM ForkDispatches == Spec => ImplementsDispatch
<1>1. Init => Dispatch!Init
  <2> SUFFICES ASSUME Init PROVE Dispatch!Init
    OBVIOUS
  <2>1. /\ mpc \in {"select", "accept"} /\ backlog = <<>> /\ arrived = {} /\ aborted = {}
        /\ done = {} /\ \A k \in Kids : ~Running(k)
    BY TraitType DEF Init, ListenInit, Running
  <2>2. Line = <<>> /\ Served = [k \in Kids |-> NoConn] /\ up = TRUE
    BY <2>1 DEF Line, Hand, Served, Serving, up
  <2> QED BY <2>1, <2>2 DEF Dispatch!Init, Line, Hand, Served, Serving
<1>2. Spec => []Inv
  BY InvInit, InvNext, PTL DEF Spec
<1> QED BY <1>1, <1>2, DispatchNext, PTL DEF Spec, ImplementsDispatch, Dispatch!Spec
=============================================================================
