-------------------------- MODULE PrethreadServer --------------------------
(***************************************************************************)
(* serv08: a prethreaded TCP server (server/serv08.c, pthread08.c,          *)
(* pthread08.h).  Only the main thread calls accept(); it hands each        *)
(* connected descriptor to a pool of threads through the ring clifd[],      *)
(* guarded by clifd_mutex and announced through clifd_cond.                 *)
(***************************************************************************)
EXTENDS ListenQueue

CONSTANTS Threads,  \* the nthreads threads made by thread_make()
          MAXNCLI,  \* slots of clifd[]
          Main,     \* the main thread, as an owner of the mutex
          Nobody    \* the mutex is free

ASSUME PoolAssumption ==
    /\ IsFiniteSet(Threads)
    /\ MAXNCLI \in Nat \ {0}
    /\ Main \notin Threads /\ Nobody \notin Threads /\ Main # Nobody

VARIABLES
    clifd,        \* the ring of descriptors
    iget, iput,   \* next slot to take from, next slot to fill
    mutex,        \* owner of clifd_mutex
    mpc, connfd,  \* main(): where it is, its local connfd
    tpc, tconn,   \* thread_main(): where each thread is, its local connfd
    thread_count, \* tptr[].thread_count
    closed,       \* connections processed and closed
    up            \* the process has not exited

ringVars == <<clifd, iget, iput>>
mainVars == <<mpc, connfd>>
thrVars  == <<tpc, tconn, thread_count, closed>>
vars == <<backlog, arrived, aborted, clifd, iget, iput, mutex, mpc, connfd,
          tpc, tconn, thread_count, closed, up>>

Slots == 0 .. MAXNCLI - 1

MainPcs == {"accept", "lock", "put", "unlock"}
ThreadPcs == {"lock", "test", "wait", "relock", "get", "unlock", "count", "child", "close"}

TypeOK ==
    /\ ListenTypeOK
    /\ closed \subseteq Conns
    /\ clifd \in [Slots -> Conns \cup {NoConn}]
    /\ iget \in Slots /\ iput \in Slots
    /\ mutex \in Threads \cup {Main, Nobody}
    /\ mpc \in MainPcs /\ connfd \in Conns \cup {NoConn}
    /\ tpc \in [Threads -> ThreadPcs]
    /\ tconn \in [Threads -> Conns \cup {NoConn}]
    /\ thread_count \in [Threads -> Nat]
    /\ up \in BOOLEAN

\* The threads exist before main() enters its accept loop.
Init ==
    /\ ListenInit
    /\ closed = {}
    /\ clifd = [i \in Slots |-> NoConn]
    /\ iget = 0 /\ iput = 0
    /\ mutex = Nobody
    /\ mpc = "accept" /\ connfd = NoConn
    /\ tpc = [t \in Threads |-> "lock"]
    /\ tconn = [t \in Threads |-> NoConn]
    /\ thread_count = [t \in Threads |-> 0]
    /\ up = TRUE

-----------------------------------------------------------------------------
(* The clients and the kernel.                                              *)

Client == /\ up
          /\ \/ \E c \in Conns : ConnArrives(c)
             \/ \E k \in DOMAIN backlog : ConnAborted(k)
          /\ UNCHANGED <<ringVars, mutex, mainVars, thrVars, up>>

\* exit(), err_quit() and err_sys() end all threads at once.
Exit ==
    /\ up' = FALSE
    /\ UNCHANGED <<listenVars, ringVars, mutex, mainVars, thrVars>>

-----------------------------------------------------------------------------
(* main(): accept, then put the descriptor on the ring under the mutex.     *)

\* ++i, back to 0 at MAXNCLI
Advance_NoWrap(i) == i + 1
Advance(i) == IF i + 1 = MAXNCLI THEN 0 ELSE i + 1

\* if (iput == iget) after the increment
RingFull_Never == FALSE
RingFull == Advance(iput) = iget

\* pthread_cond_signal(&clifd_cond): one waiter, if any, must get the mutex again
WakeOne ==
    \/ \E t \in Threads : tpc[t] = "wait" /\ tpc' = [tpc EXCEPT ![t] = "relock"]
    \/ (\A t \in Threads : tpc[t] # "wait") /\ UNCHANGED tpc
CondSignal_IfWasEmpty == IF iget = iput THEN WakeOne ELSE UNCHANGED tpc
CondSignal_Dropped == UNCHANGED tpc
CondSignal == WakeOne

MainAccept ==
    /\ up /\ mpc = "accept"
    /\ \E c \in Conns : AcceptReturns(c) /\ connfd' = c
    /\ mpc' = "lock"
    /\ UNCHANGED <<ringVars, mutex, thrVars, up>>

\* Accept() quits on any error but an aborted connection.
MainAcceptFails == up /\ mpc = "accept" /\ Exit

\* Pthread_mutex_lock(&clifd_mutex) by who
TakeMutex_NoWait(who) == mutex' = who
TakeMutex(who) == mutex = Nobody /\ mutex' = who

MainLock ==
    /\ up /\ mpc = "lock" /\ TakeMutex(Main)
    /\ mpc' = "put"
    /\ UNCHANGED <<listenVars, ringVars, connfd, thrVars, up>>

\* The store, ++iput, and the check that turns a full ring into err_quit()
\* while the mutex is still held.
MainPut ==
    /\ up /\ mpc = "put"
    /\ clifd' = [clifd EXCEPT ![iput] = connfd]
    /\ iput' = Advance(iput)
    /\ \/ /\ RingFull
          /\ up' = FALSE
          /\ UNCHANGED <<mainVars, tpc>>
       \/ /\ ~RingFull
          /\ CondSignal
          /\ mpc' = "unlock" /\ connfd' = NoConn
          /\ UNCHANGED up
    /\ UNCHANGED <<listenVars, iget, mutex, tconn, thread_count, closed>>

MainUnlock ==
    /\ up /\ mpc = "unlock"
    /\ mutex' = Nobody /\ mpc' = "accept"
    /\ UNCHANGED <<listenVars, ringVars, connfd, thrVars, up>>

-----------------------------------------------------------------------------
(* thread_main()                                                            *)

Goto(t, pc) == tpc' = [tpc EXCEPT ![t] = pc]

\* A thread that was woken goes back to the test of the while loop.
AfterLock_IfNotWhile(t) == IF tpc[t] = "relock" THEN "get" ELSE "test"
AfterLock(t) == "test"

ThreadLock(t) ==
    /\ up /\ tpc[t] \in {"lock", "relock"} /\ TakeMutex(t)
    /\ Goto(t, AfterLock(t))
    /\ UNCHANGED <<listenVars, ringVars, mainVars, tconn, thread_count, closed, up>>

\* while (iget == iput) pthread_cond_wait(), which releases the mutex and sleeps
ThreadTest(t) ==
    /\ up /\ tpc[t] = "test"
    /\ \/ iget = iput /\ mutex' = Nobody /\ Goto(t, "wait")
       \/ iget # iput /\ UNCHANGED mutex /\ Goto(t, "get")
    /\ UNCHANGED <<listenVars, ringVars, mainVars, tconn, thread_count, closed, up>>

\* POSIX lets pthread_cond_wait() return without a signal.
SpuriousWake(t) ==
    /\ up /\ tpc[t] = "wait"
    /\ Goto(t, "relock")
    /\ UNCHANGED <<listenVars, ringVars, mutex, mainVars, tconn, thread_count, closed, up>>

ThreadGet(t) ==
    /\ up /\ tpc[t] = "get"
    /\ tconn' = [tconn EXCEPT ![t] = clifd[iget]]
    /\ iget' = Advance(iget)
    /\ Goto(t, "unlock")
    /\ UNCHANGED <<listenVars, clifd, iput, mutex, mainVars, thread_count, closed, up>>

ThreadUnlock(t) ==
    /\ up /\ tpc[t] = "unlock"
    /\ mutex' = Nobody
    /\ Goto(t, "count")
    /\ UNCHANGED <<listenVars, ringVars, mainVars, tconn, thread_count, closed, up>>

ThreadCount(t) ==
    /\ up /\ tpc[t] = "count"
    /\ thread_count' = [thread_count EXCEPT ![t] = @ + 1]
    /\ Goto(t, "child")
    /\ UNCHANGED <<listenVars, ringVars, mutex, mainVars, tconn, closed, up>>

\* web_child() returns when the client has closed the connection ...
WebChildReturns(t) ==
    /\ up /\ tpc[t] = "child"
    /\ Goto(t, "close")
    /\ UNCHANGED <<listenVars, ringVars, mutex, mainVars, tconn, thread_count, closed, up>>

\* ... and ends the whole process on a request out of range or an I/O error.
WebChildQuits(t) == up /\ tpc[t] = "child" /\ Exit

ThreadClose(t) ==
    /\ up /\ tpc[t] = "close"
    /\ closed' = closed \cup {tconn[t]}
    /\ tconn' = [tconn EXCEPT ![t] = NoConn]
    /\ Goto(t, "lock")
    /\ UNCHANGED <<listenVars, ringVars, mutex, mainVars, thread_count, up>>

\* sig_int(): print the counters and exit
SigInt == up /\ Exit

MainStep == MainAccept \/ MainLock \/ MainPut \/ MainUnlock

\* the steps of thread t that wait for nothing but the processor and the mutex
ThreadStep(t) == \/ ThreadLock(t) \/ ThreadTest(t) \/ ThreadGet(t)
                 \/ ThreadUnlock(t) \/ ThreadCount(t) \/ ThreadClose(t)

Next ==
    \/ Client
    \/ MainStep \/ MainAcceptFails
    \/ \E t \in Threads : \/ ThreadStep(t) \/ SpuriousWake(t)
                          \/ WebChildReturns(t) \/ WebChildQuits(t)
    \/ SigInt

Spec == Init /\ [][Next]_vars

\* The scheduler runs every runnable thread, and a thread blocked on a mutex that is
\* released again and again gets it in the end (strong fairness of the two locks);
\* nothing is assumed of the clients.
FairSpec == /\ Spec
            /\ WF_vars(MainStep) /\ SF_vars(MainLock)
            /\ \A t \in Threads : WF_vars(ThreadStep(t)) /\ SF_vars(ThreadLock(t))

-----------------------------------------------------------------------------
(* Properties.                                                              *)

\* The number of descriptors on the ring, and the slots that hold them.
Dist(i, j) == IF j >= i THEN j - i ELSE j + MAXNCLI - i
Live(g, p) == {i \in Slots : Dist(g, i) < Dist(g, p)}
Queued == Dist(iget, iput)
LiveSlots == Live(iget, iput)

\* The places an accepted connection can be: in main's hand, on the ring, or with
\* a thread.
InHand == {connfd} \ {NoConn}
OnRing == {clifd[i] : i \in LiveSlots}
WithThread == {tconn[t] : t \in Threads} \ {NoConn}
InBacklog == Elements(backlog)

\* Mutual exclusion: whoever is between lock and unlock owns clifd_mutex, so two
\* threads never work on clifd[], iget and iput at once (serv08.c:39-46,
\* pthread08.c:21-27).
InCritical(t) == tpc[t] \in {"test", "get", "unlock"}
MutexHeld ==
    /\ (mutex = Main) <=> (mpc \in {"put", "unlock"})
    /\ \A t \in Threads : (mutex = t) <=> InCritical(t)

\* Exactly once: while the server runs, every connection the kernel completed is in
\* one place only, so no descriptor is lost, overwritten on the ring or given to two
\* threads (serv08.c:40-44, pthread08.c:24-26).
ExactlyOnce ==
    up =>
    /\ Distinct(backlog) /\ InBacklog \cap aborted = {}
    /\ arrived = aborted \cup InBacklog \cup InHand \cup OnRing \cup WithThread \cup closed
    /\ \A i, j \in LiveSlots : clifd[i] = clifd[j] => i = j
    /\ \A s, t \in Threads : tconn[s] = tconn[t] /\ tconn[s] # NoConn => s = t
    /\ NoConn \notin OnRing
    /\ InHand \cap (OnRing \cup WithThread \cup closed) = {}
    /\ OnRing \cap (WithThread \cup closed) = {}
    /\ WithThread \cap closed = {}
    /\ (InBacklog \cup aborted) \cap (InHand \cup OnRing \cup WithThread \cup closed) = {}

\* No lost wakeup: while some thread sleeps on clifd_cond, at least as many threads
\* are on their way to the ring as it holds descriptors, so no client waits behind a
\* busy thread while an idle one sleeps (serv08.c:45, pthread08.c:22-23).
OnTheWay == {t \in Threads : tpc[t] \in {"lock", "relock", "test", "get"}}
NoLostWakeup ==
    up /\ (\E t \in Threads : tpc[t] = "wait") => Queued <= Cardinality(OnTheWay)

\* Every connection main() accepted is eventually taken by a thread, unless the
\* server exits or every thread is held up by its own client (pthread08.c:20-32).
AllBusy == \A t \in Threads : tpc[t] = "child"
EventuallyTaken ==
    \A c \in Conns : (up /\ c \in InHand \cup OnRing)
                      ~> (c \notin InHand \cup OnRing \/ AllBusy \/ ~up)

\* serv08 implements ConnDispatch: a connection waits in the kernel, in main's hand or
\* on the ring, and a thread takes it when it advances iget.  After exit() the ring
\* means nothing.
RingSeq == [k \in 1 .. Queued |-> clifd[(iget + k - 1) % MAXNCLI]]
HandSeq == IF connfd = NoConn THEN <<>> ELSE <<connfd>>
Dispatch == INSTANCE ConnDispatch WITH
    Workers <- Threads,
    queue   <- IF up THEN RingSeq \o HandSeq \o backlog ELSE <<>>,
    serving <- IF up THEN tconn ELSE [t \in Threads |-> NoConn],
    done    <- closed
ImplementsDispatch == Dispatch!Spec
=============================================================================
