----------------------------- MODULE AcceptPool -----------------------------
(***************************************************************************)
(* The servers of server/ whose workers all call accept() on the same       *)
(* listening socket: serv00 (one process), serv02, serv02m, serv03, serv03m *)
(* and serv04 (preforked), serv07 and serv09 (prethreaded), and serv02 with *)
(* child02l.c.  They differ in how a worker protects accept(), whether it   *)
(* counts its clients, and in what else ends when a worker fails.           *)
(***************************************************************************)
EXTENDS ListenQueue

CONSTANTS Workers,   \* the children or threads
          Nobody,    \* the lock is free
          Servers    \* which of the programs to look at

ASSUME AcceptPoolAssumption == Nobody \notin Workers

VARIABLES server,    \* the program that is running
          pc,        \* pc[w]: the step of its loop that worker w is at, 0 if it has ended
          connfd,    \* connfd[w]: the local variable of worker w
          owner,     \* who has the lock around accept()
          count,     \* the clients of each worker, where the program counts them
          closed,    \* connections processed and closed
          died,      \* connections a failing worker cut off
          up         \* the server has not been stopped

workVars == <<pc, connfd, owner, count>>
vars == <<backlog, arrived, aborted, server, pc, connfd, owner, count, closed, died, up>>

\* The loop of child_main() or thread_main() in each program.
serv00   == <<"accept", "child", "close">>
child02  == <<"accept", "child", "close">>
child02l == <<"select", "accept", "child", "close">>
child02m == <<"accept", "count", "child", "close">>
child03  == <<"lock", "accept", "unlock", "child", "close">>
child03m == <<"lock", "accept", "unlock", "count", "child", "close">>
child04  == <<"lock", "accept", "unlock", "child", "close">>
thread07 == <<"lock", "accept", "unlock", "count", "child", "close">>
thread09 == <<"accept", "count", "child", "close">>

Loops == [serv00 |-> serv00, serv02 |-> child02, serv02l |-> child02l, serv02m |-> child02m,
          serv03 |-> child03, serv03m |-> child03m, serv04 |-> child04,
          serv07 |-> thread07, serv09 |-> thread09]

ASSUME ServersAssumption == Servers \subseteq DOMAIN Loops

Loop == Loops[server]
At(w, step) == pc[w] # 0 /\ Loop[pc[w]] = step
Following(k) == IF k = Len(Loop) THEN 1 ELSE k + 1

\* Workers that are threads of one process end together.
OneProcess == server \in {"serv00", "serv07", "serv09"}
\* serv00 has a single worker, its main().
Pool == IF server = "serv00" THEN {CHOOSE w \in Workers : TRUE} ELSE Workers

TypeOK ==
    /\ ListenTypeOK
    /\ server \in Servers
    /\ pc \in [Workers -> 0 .. Len(Loop)]
    /\ connfd \in [Workers -> Conns \cup {NoConn}]
    /\ owner \in Workers \cup {Nobody}
    /\ count \in [Workers -> Nat]
    /\ closed \subseteq Conns /\ died \subseteq Conns
    /\ up \in BOOLEAN

Init ==
    /\ ListenInit
    /\ server \in Servers
    /\ pc = [w \in Workers |-> IF w \in Pool THEN 1 ELSE 0]
    /\ connfd = [w \in Workers |-> NoConn]
    /\ owner = Nobody
    /\ count = [w \in Workers |-> 0]
    /\ closed = {} /\ died = {}
    /\ up = TRUE

Client == /\ up
          /\ \/ \E c \in Conns : ConnArrives(c)
             \/ \E k \in DOMAIN backlog : ConnAborted(k)
          /\ UNCHANGED <<server, workVars, closed, died, up>>

-----------------------------------------------------------------------------
(* The steps of the loop.                                                   *)

Advance(w) == pc' = [pc EXCEPT ![w] = Following(@)]

\* my_lock_wait(), Pthread_mutex_lock()
TakeLock(w) == owner = Nobody /\ owner' = w

Lock(w) ==
    /\ At(w, "lock") /\ TakeLock(w)
    /\ Advance(w)
    /\ UNCHANGED <<listenVars, server, connfd, count, closed, died, up>>

\* my_lock_release(), Pthread_mutex_unlock()
DropLock_Forgotten == UNCHANGED owner
DropLock == owner' = Nobody

Unlock(w) ==
    /\ At(w, "unlock") /\ DropLock
    /\ Advance(w)
    /\ UNCHANGED <<listenVars, server, connfd, count, closed, died, up>>

\* child02l.c waits until the listening socket is readable; when it calls accept()
\* another worker may have taken the connection.
Select(w) ==
    /\ At(w, "select") /\ backlog # <<>>
    /\ Advance(w)
    /\ UNCHANGED <<listenVars, server, connfd, owner, count, closed, died, up>>

\* connfd = Accept(listenfd, cliaddr, &clilen): connfd is local to the worker
SetConnfd_Shared(w, c) == connfd' = [v \in Workers |-> c]
SetConnfd(w, c) == connfd' = [connfd EXCEPT ![w] = c]

AcceptStep(w) ==
    /\ At(w, "accept")
    /\ \E c \in Conns : AcceptReturns(c) /\ SetConnfd(w, c)
    /\ Advance(w)
    /\ UNCHANGED <<server, owner, count, closed, died, up>>

Count(w) ==
    /\ At(w, "count")
    /\ count' = [count EXCEPT ![w] = @ + 1]
    /\ Advance(w)
    /\ UNCHANGED <<listenVars, server, connfd, owner, closed, died, up>>

WebChildReturns(w) ==
    /\ At(w, "child")
    /\ Advance(w)
    /\ UNCHANGED <<listenVars, server, connfd, owner, count, closed, died, up>>

Close(w) ==
    /\ At(w, "close")
    /\ closed' = closed \cup {connfd[w]}
    /\ connfd' = [connfd EXCEPT ![w] = NoConn]
    /\ Advance(w)
    /\ UNCHANGED <<listenVars, server, owner, count, died, up>>

\* The kernel releases a record lock of fcntl() when its owner exits; a mutex in
\* shared memory stays locked.
OwnerAfter_NeverReleased(w) == owner
OwnerAfter(w) == IF owner = w /\ server # "serv04" THEN Nobody ELSE owner

InHand == {connfd[w] : w \in Workers} \ {NoConn}

\* The whole process ends: exit(), or sig_int() killing and awaiting all children.
StopAll ==
    /\ up' = FALSE
    /\ pc' = [w \in Workers |-> 0]
    /\ connfd' = [w \in Workers |-> NoConn]
    /\ died' = died \cup InHand
    /\ UNCHANGED <<listenVars, server, owner, count, closed>>

\* Accept() or web_child() calls err_sys() or err_quit(), and only this process ends.
Fail(w) ==
    /\ At(w, "accept") \/ At(w, "child")
    /\ IF OneProcess
       THEN StopAll
       ELSE /\ pc' = [pc EXCEPT ![w] = 0]
            /\ died' = died \cup ({connfd[w]} \ {NoConn})
            /\ connfd' = [connfd EXCEPT ![w] = NoConn]
            /\ owner' = OwnerAfter(w)
            /\ UNCHANGED <<listenVars, server, count, closed, up>>

\* A child that has died leaves its parent in pause(), so SIGINT still stops the rest.
SigInt == up /\ StopAll

Step(w) == \/ Lock(w) \/ Unlock(w) \/ Select(w) \/ AcceptStep(w) \/ Count(w) \/ Close(w)

Next ==
    \/ Client
    \/ \E w \in Workers : Step(w) \/ WebChildReturns(w) \/ Fail(w)
    \/ SigInt

Spec == Init /\ [][Next]_vars

\* Every worker that can run is scheduled; web_child() waits for the client and need
\* not return.
FairSpec == Spec /\ \A w \in Workers : WF_vars(Step(w))

-----------------------------------------------------------------------------
(* Properties.                                                              *)

\* Types are kept, and in the programs with a lock only the worker that has it calls
\* accept(), so at most one worker sleeps there (child03.c:28-30, child04.c:28-30,
\* pthread07.c:26-28).
\* The lock is never left with a worker that has died, except the mutex of serv04: there
\* the servers that remain wait for ever (lock_fcntl.c:32-50, lock_pthread.c:26-36).
LockRight ==
    /\ TypeOK
    /\ \A w \in Workers :
         At(w, "unlock") \/ (At(w, "accept") /\ Loop[1] = "lock") => owner = w
    /\ up /\ owner # Nobody /\ pc[owner] = 0 => server = "serv04"

\* A connection waiting in the kernel is accepted, unless the server is stopped, no
\* worker is left, all those left are busy, or serv04's mutex died with its owner.
NoneFree == \A w \in Workers : pc[w] = 0 \/ At(w, "child")
EventuallyAccepted ==
    \A c \in Conns :
        c \in Elements(backlog)
        ~> (c \notin Elements(backlog) \/ ~up \/ NoneFree
            \/ (server = "serv04" /\ owner # Nobody /\ pc[owner] = 0))

\* All of them implement ConnDispatch: every connection is accepted by one worker, in
\* order of arrival (the Accept, web_child and Close of each loop).
Dispatch == INSTANCE ConnDispatch WITH
    queue   <- IF up THEN backlog ELSE <<>>,
    serving <- connfd,
    done    <- closed
ImplementsDispatch == Dispatch!Spec
=============================================================================
