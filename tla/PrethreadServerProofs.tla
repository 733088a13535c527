----------------------- MODULE PrethreadServerProofs -----------------------
(***************************************************************************)
(* PrethreadServer for any number of threads, connections and ring slots:   *)
(* the mutex excludes, no wakeup is lost and every connection is in exactly *)
(* one place.                                                               *)
(***************************************************************************)
EXTENDS PrethreadServer, ListenQueueProofs, FiniteSetTheorems

-----------------------------------------------------------------------------
(* The ring: what one step of iput or iget does to the occupied slots.      *)

\* Filling slot p when the ring is not full occupies exactly p (serv08.c:40-44).
LEMMA RingPut ==
    ASSUME NEW g \in Slots, NEW p \in Slots, Advance(p) # g
    PROVE  /\ Advance(p) \in Slots
           /\ Dist(g, Advance(p)) = Dist(g, p) + 1
           /\ p \notin Live(g, p)
           /\ Live(g, Advance(p)) = Live(g, p) \cup {p}
<1>1. MAXNCLI \in Nat /\ MAXNCLI > 0
  BY PoolAssumption
<1>2. Advance(p) \in Slots /\ Dist(g, Advance(p)) = Dist(g, p) + 1
  BY <1>1 DEF Advance, Dist, Slots
<1>3. \A i \in Slots : Dist(g, i) < Dist(g, p) + 1 <=> (Dist(g, i) < Dist(g, p) \/ i = p)
  BY <1>1 DEF Dist, Slots
<1>4. ~(Dist(g, p) < Dist(g, p))
  BY <1>1 DEF Dist, Slots
<1> QED BY <1>2, <1>3, <1>4 DEF Live

\* Taking slot g from a ring that is not empty frees exactly g (pthread08.c:24-26).
LEMMA RingGet ==
    ASSUME NEW g \in Slots, NEW p \in Slots, g # p
    PROVE  /\ Advance(g) \in Slots
           /\ Dist(Advance(g), p) = Dist(g, p) - 1
           /\ g \in Live(g, p)
           /\ Live(Advance(g), p) = Live(g, p) \ {g}
<1>1. MAXNCLI \in Nat /\ MAXNCLI > 0
  BY PoolAssumption
<1>2. Advance(g) \in Slots /\ Dist(Advance(g), p) = Dist(g, p) - 1
  BY <1>1 DEF Advance, Dist, Slots
<1>3. Dist(g, g) < Dist(g, p)
  BY <1>1 DEF Dist, Slots
<1>4. \A i \in Slots : Dist(Advance(g), i) < Dist(g, p) - 1 <=> (Dist(g, i) < Dist(g, p) /\ i # g)
  BY <1>1 DEF Dist, Advance, Slots
<1> QED BY <1>2, <1>3, <1>4 DEF Live

\* The ring indices never leave the array.
LEMMA AdvanceType == ASSUME NEW i \in Slots PROVE Advance(i) \in Slots
  BY PoolAssumption DEF Advance, Slots

-----------------------------------------------------------------------------
(* The inductive invariant.                                                 *)

\* main() and the threads hold a descriptor exactly between taking and handing it on,
\* and a thread that passed the while test is still facing a ring that is not empty.
HoldPcs == {"unlock", "count", "child", "close"}
Shape ==
    /\ connfd # NoConn <=> mpc \in {"lock", "put"}
    /\ \A t \in Threads : tconn[t] # NoConn <=> tpc[t] \in HoldPcs
    /\ \A t \in Threads : tpc[t] = "get" => iget # iput

TypeMutex == TypeOK /\ MutexHeld /\ Distinct(backlog) /\ Elements(backlog) \subseteq arrived

Inv == TypeMutex /\ Shape /\ ExactlyOnce /\ NoLostWakeup

-----------------------------------------------------------------------------
(* Types and mutual exclusion.                                              *)

\* The threads start outside the critical section, the mutex free.
LEMMA TypeMutexInit == Init => TypeMutex
<1> SUFFICES ASSUME Init PROVE TypeMutex
  OBVIOUS
<1>1. 0 \in Slots
  BY PoolAssumption DEF Slots
<1>2. TypeOK
  BY <1>1, PoolAssumption DEF Init, TypeOK, ListenInit, ListenTypeOK, MainPcs, ThreadPcs
<1>3. MutexHeld
  BY PoolAssumption DEF Init, MutexHeld, InCritical
<1>4. Distinct(backlog) /\ Elements(backlog) \subseteq arrived
  BY DEF Init, ListenInit, Distinct, Elements
<1> QED BY <1>2, <1>3, <1>4 DEF TypeMutex

\* Every step keeps the types and leaves the mutex with whoever is between lock and
\* unlock (serv08.c:39-46, pthread08.c:21-27).
LEMMA TypeMutexNext == TypeMutex /\ Shape /\ [Next]_vars => TypeMutex'
<1> SUFFICES ASSUME TypeMutex, Shape, [Next]_vars PROVE TypeMutex'
  OBVIOUS
<1> USE PoolAssumption, AdvanceType
<1> USE DEF TypeMutex, TypeOK, MutexHeld, InCritical, MainPcs, ThreadPcs,
            listenVars, ringVars, mainVars, thrVars
<1>1. CASE Client
  <2>1. ListenTypeOK' /\ Distinct(backlog)' /\ (Elements(backlog) \subseteq arrived)'
    BY <1>1, ListenStep DEF Client
  <2> QED BY <1>1, <2>1 DEF Client
<1>2. CASE MainAccept
  <2>1. ListenTypeOK' /\ Distinct(backlog)' /\ (Elements(backlog) \subseteq arrived)'
    BY <1>2, ListenStep DEF MainAccept
  <2> QED BY <1>2, <2>1 DEF MainAccept
<1> USE DEF ListenTypeOK
<1>3. CASE MainAcceptFails
  BY <1>3 DEF MainAcceptFails, Exit
<1>4. CASE MainLock
  BY <1>4 DEF MainLock, TakeMutex
<1>5. CASE MainPut
  <2>1. TypeOK' /\ MutexHeld'
    <3>1. UNCHANGED <<mutex, backlog, arrived, aborted, iget, tconn, thread_count, closed>>
      BY <1>5 DEF MainPut
    <3>2. clifd' \in [Slots -> Conns \cup {NoConn}] /\ iput' \in Slots
      BY <1>5 DEF MainPut
    <3>3. CASE RingFull
      BY <1>5, <3>1, <3>2, <3>3 DEF MainPut
    <3>4. CASE ~RingFull
      <4>1. /\ tpc' \in [Threads -> ThreadPcs]
            /\ \A t \in Threads : InCritical(t)' <=> InCritical(t)
        BY <1>5, <3>4 DEF MainPut, CondSignal, WakeOne
      <4>2. mpc = "put" /\ mpc' = "unlock" /\ connfd' = NoConn /\ up' = up
        BY <1>5, <3>4 DEF MainPut
      <4> QED BY <3>1, <3>2, <4>1, <4>2
    <3> QED BY <3>3, <3>4
  <2>2. UNCHANGED <<backlog, arrived>>
    BY <1>5 DEF MainPut
  <2> QED BY <2>1, <2>2
<1>6. CASE MainUnlock
  BY <1>6 DEF MainUnlock
<1> USE DEF Goto
<1>7. ASSUME NEW t \in Threads, ThreadLock(t) PROVE TypeMutex'
  BY <1>7 DEF ThreadLock, AfterLock, TakeMutex
<1>8. ASSUME NEW t \in Threads, ThreadTest(t) PROVE TypeMutex'
  BY <1>8 DEF ThreadTest
<1>9. ASSUME NEW t \in Threads, ThreadGet(t) PROVE TypeMutex'
  BY <1>9 DEF ThreadGet
<1>10. ASSUME NEW t \in Threads, ThreadUnlock(t) PROVE TypeMutex'
  BY <1>10 DEF ThreadUnlock
<1>11. ASSUME NEW t \in Threads, ThreadCount(t) PROVE TypeMutex'
  BY <1>11 DEF ThreadCount
<1>12. ASSUME NEW t \in Threads, ThreadClose(t) PROVE TypeMutex'
  <2>1. closed' \subseteq Conns
    BY <1>12 DEF ThreadClose, Shape, HoldPcs
  <2> QED BY <1>12, <2>1 DEF ThreadClose
<1>13. ASSUME NEW t \in Threads, SpuriousWake(t) \/ WebChildReturns(t) PROVE TypeMutex'
  BY <1>13 DEF SpuriousWake, WebChildReturns
<1>14. ASSUME NEW t \in Threads, WebChildQuits(t) PROVE TypeMutex'
  BY <1>14 DEF WebChildQuits, Exit
<1>15. CASE SigInt
  BY <1>15 DEF SigInt, Exit
<1>16. CASE UNCHANGED vars
  BY <1>16 DEF vars
<1> QED
  BY <1>1, <1>2, <1>3, <1>4, <1>5, <1>6, <1>7, <1>8, <1>9, <1>10, <1>11, <1>12, <1>13,
     <1>14, <1>15, <1>16 DEF Next, MainStep, ThreadStep

-----------------------------------------------------------------------------
(* Who holds a descriptor.                                                  *)

\* Every step keeps track of who holds a descriptor; the while test of pthread08.c:22
\* stays true until its thread takes the descriptor, because the mutex is held.
LEMMA ShapeNext == TypeMutex /\ Shape /\ ExactlyOnce /\ [Next]_vars => Shape'
<1> SUFFICES ASSUME TypeMutex, Shape, ExactlyOnce, [Next]_vars PROVE Shape'
  OBVIOUS
<1> USE PoolAssumption, ConnAssumption
<1> USE DEF TypeMutex, TypeOK, MutexHeld, InCritical, Shape, HoldPcs, ThreadPcs, MainPcs,
            listenVars, ringVars, mainVars, thrVars, Goto
<1>1. CASE Client
  BY <1>1 DEF Client
<1>2. CASE MainAccept
  BY <1>2 DEF MainAccept
<1>3. CASE MainAcceptFails \/ SigInt
  BY <1>3 DEF MainAcceptFails, SigInt, Exit
<1>4. CASE MainLock \/ MainUnlock
  BY <1>4 DEF MainLock, MainUnlock
<1>5. CASE MainPut
  <2>1. \A t \in Threads : tpc[t] # "get"
    BY <1>5 DEF MainPut
  <2>2. UNCHANGED tconn /\ \A t \in Threads : tpc'[t] # "get" /\ (tpc'[t] \in HoldPcs <=> tpc[t] \in HoldPcs)
    BY <1>5, <2>1 DEF MainPut, CondSignal, WakeOne
  <2>3. connfd' # NoConn <=> mpc' \in {"lock", "put"}
    BY <1>5 DEF MainPut
  <2> QED BY <2>2, <2>3
<1>6. ASSUME NEW t \in Threads, ThreadLock(t) PROVE Shape'
  BY <1>6 DEF ThreadLock, AfterLock
<1>7. ASSUME NEW t \in Threads, ThreadTest(t) PROVE Shape'
  BY <1>7 DEF ThreadTest
<1>8. ASSUME NEW t \in Threads, ThreadGet(t) PROVE Shape'
  <2>1. \A u \in Threads : u # t => tpc[u] # "get"
    BY <1>8 DEF ThreadGet
  <2>2. iget \in LiveSlots
    BY <1>8, RingGet DEF ThreadGet, LiveSlots
  <2>3. clifd[iget] # NoConn
    BY <1>8, <2>2 DEF ThreadGet, ExactlyOnce, OnRing
  <2> QED BY <1>8, <2>1, <2>3 DEF ThreadGet
<1>9. ASSUME NEW t \in Threads, ThreadUnlock(t) \/ ThreadCount(t) PROVE Shape'
  BY <1>9 DEF ThreadUnlock, ThreadCount
<1>10. ASSUME NEW t \in Threads, SpuriousWake(t) \/ WebChildReturns(t) PROVE Shape'
  BY <1>10 DEF SpuriousWake, WebChildReturns
<1>11. ASSUME NEW t \in Threads, ThreadClose(t) PROVE Shape'
  BY <1>11 DEF ThreadClose
<1>12. ASSUME NEW t \in Threads, WebChildQuits(t) PROVE Shape'
  BY <1>12 DEF WebChildQuits, Exit
<1>13. CASE UNCHANGED vars
  BY <1>13 DEF vars
<1> QED
  BY <1>1, <1>2, <1>3, <1>4, <1>5, <1>6, <1>7, <1>8, <1>9, <1>10, <1>11, <1>12, <1>13
     DEF Next, MainStep, ThreadStep

-----------------------------------------------------------------------------
(* Every connection in exactly one place.                                   *)

\* The places of an accepted connection do not change when none of the variables
\* they are made of does.
LEMMA OnceUnchanged ==
    ASSUME ExactlyOnce, up' = up \/ up' = FALSE,
           UNCHANGED <<backlog, arrived, aborted, clifd, iget, iput, connfd, tconn, closed>>
    PROVE  ExactlyOnce'
<1>1. UNCHANGED <<InBacklog, InHand, WithThread, LiveSlots>>
  BY DEF InBacklog, InHand, WithThread, LiveSlots, Live
<1>2. UNCHANGED OnRing
  BY <1>1 DEF OnRing
<1>3. (up => Distinct(backlog)) /\ backlog' = backlog
  BY DEF ExactlyOnce
<1>4. up' => Distinct(backlog)'
  BY <1>3 DEF Distinct
<1> QED BY <1>1, <1>2, <1>4 DEF ExactlyOnce

\* Every step moves a connection from one place to the next, or moves none.
LEMMA OnceNext == TypeMutex /\ Shape /\ ExactlyOnce /\ [Next]_vars => ExactlyOnce'
<1> SUFFICES ASSUME TypeMutex, Shape, ExactlyOnce, [Next]_vars PROVE ExactlyOnce'
  OBVIOUS
<1> USE PoolAssumption, ConnAssumption
<1> DEFINE Out == InHand \cup OnRing \cup WithThread \cup closed
<1>0. /\ backlog \in Seq(Conns) /\ Distinct(backlog) /\ iget \in Slots /\ iput \in Slots
      /\ clifd \in [Slots -> Conns \cup {NoConn}]
      /\ tconn \in [Threads -> Conns \cup {NoConn}]
      /\ Elements(backlog) \subseteq arrived
  BY DEF TypeMutex, TypeOK, ListenTypeOK
<1>1. CASE Client
  <2>1. /\ up
        /\ UNCHANGED <<clifd, iget, iput, connfd, tconn, closed, up>>
    BY <1>1 DEF Client, ringVars, mainVars, thrVars
  <2>2. UNCHANGED <<InHand, OnRing, WithThread, LiveSlots>>
    BY <2>1 DEF InHand, OnRing, WithThread, LiveSlots, Live
  <2>3. ASSUME NEW c \in Conns, ConnArrives(c) PROVE ExactlyOnce'
    <3>1. c \notin Elements(backlog) /\ c \notin arrived
      BY <1>0, <2>3 DEF ConnArrives
    <3>2. /\ Elements(backlog') = Elements(backlog) \cup {c}
          /\ Distinct(backlog') /\ arrived' = arrived \cup {c} /\ aborted' = aborted
      BY <1>0, <2>3, <3>1, AppendLemma DEF ConnArrives
    <3> QED BY <2>1, <2>2, <3>1, <3>2 DEF ExactlyOnce, InBacklog, Distinct
  <2>4. ASSUME NEW k \in DOMAIN backlog, ConnAborted(k) PROVE ExactlyOnce'
    <3>1. /\ Elements(backlog) = Elements(backlog') \cup {backlog[k]}
          /\ backlog[k] \notin Elements(backlog')
          /\ Distinct(backlog') /\ aborted' = aborted \cup {backlog[k]} /\ arrived' = arrived
      BY <1>0, <2>4, DropLemma DEF ConnAborted
    <3> QED BY <2>1, <2>2, <3>1 DEF ExactlyOnce, InBacklog, Distinct
  <2> QED BY <1>1, <2>3, <2>4 DEF Client
<1>2. CASE MainAccept
  <2>1. /\ up /\ mpc = "accept"
        /\ UNCHANGED <<clifd, iget, iput, tconn, closed, up>>
    BY <1>2 DEF MainAccept, ringVars, thrVars
  <2>2. UNCHANGED <<OnRing, WithThread, LiveSlots>>
    BY <2>1 DEF OnRing, WithThread, LiveSlots, Live
  <2>3. PICK c \in Conns : AcceptReturns(c) /\ connfd' = c
    BY <1>2 DEF MainAccept
  <2>4. /\ Elements(backlog) = Elements(backlog') \cup {c} /\ c \notin Elements(backlog')
        /\ Distinct(backlog') /\ arrived' = arrived /\ aborted' = aborted
    BY <1>0, <2>3, TailLemma DEF AcceptReturns
  <2>5. InHand = {} /\ InHand' = {c}
    BY <2>1, <2>3 DEF Shape, InHand
  <2> QED BY <2>1, <2>2, <2>4, <2>5 DEF ExactlyOnce, InBacklog, Distinct
<1>3. CASE MainPut
  <2>1. /\ up /\ mpc = "put" /\ clifd' = [clifd EXCEPT ![iput] = connfd] /\ iput' = Advance(iput)
        /\ UNCHANGED <<backlog, arrived, aborted, iget, tconn, closed>>
    BY <1>3 DEF MainPut, listenVars
  <2>2. CASE RingFull
    BY <1>3, <2>2 DEF MainPut, ExactlyOnce
  <2>3. CASE ~RingFull
    <3>1. connfd' = NoConn /\ up' = up
      BY <1>3, <2>3 DEF MainPut
    <3>2. iput \notin LiveSlots /\ LiveSlots' = LiveSlots \cup {iput} /\ LiveSlots \subseteq Slots
      BY <1>0, <2>1, <2>3, RingPut DEF RingFull, LiveSlots, Live
    <3>3. clifd'[iput] = connfd /\ \A i \in LiveSlots : clifd'[i] = clifd[i]
      BY <1>0, <2>1, <3>2
    <3>4. OnRing' = OnRing \cup {connfd}
      BY <3>2, <3>3 DEF OnRing
    <3>5. connfd # NoConn /\ InHand = {connfd} /\ InHand' = {}
      BY <2>1, <3>1 DEF Shape, InHand
    <3>6. UNCHANGED <<WithThread, InBacklog>> /\ Distinct(backlog')
      BY <1>0, <2>1 DEF WithThread, InBacklog
    <3>7. connfd \notin OnRing
      BY <2>1, <3>5 DEF ExactlyOnce
    <3>8. \A i, j \in LiveSlots' : clifd'[i] = clifd'[j] => i = j
      BY <2>1, <3>2, <3>3, <3>7 DEF OnRing, ExactlyOnce
    <3> QED BY <2>1, <3>1, <3>4, <3>5, <3>6, <3>8 DEF ExactlyOnce, Distinct
  <2> QED BY <2>2, <2>3
<1>4. ASSUME NEW t \in Threads, ThreadGet(t) PROVE ExactlyOnce'
  <2>1. /\ up /\ tpc[t] = "get" /\ tconn' = [tconn EXCEPT ![t] = clifd[iget]] /\ iget' = Advance(iget)
        /\ UNCHANGED <<backlog, arrived, aborted, clifd, iput, connfd, closed, up>>
    BY <1>4 DEF ThreadGet, listenVars, mainVars
  <2>2. iget \in LiveSlots /\ LiveSlots' = LiveSlots \ {iget} /\ LiveSlots \subseteq Slots
    BY <1>0, <2>1, RingGet DEF Shape, LiveSlots, Live
  <2> DEFINE c == clifd[iget]
  <2>3. c \in OnRing /\ c # NoConn /\ OnRing' = OnRing \ {c}
    BY <2>1, <2>2 DEF OnRing, ExactlyOnce
  <2>4. tconn[t] = NoConn
    BY <2>1 DEF Shape, HoldPcs
  <2>5. WithThread' = WithThread \cup {c}
    <3>1. tconn'[t] = c /\ \A u \in Threads \ {t} : tconn'[u] = tconn[u]
      BY <1>0, <2>1
    <3> QED BY <2>3, <2>4, <3>1 DEF WithThread
  <2>6. c \notin WithThread
    BY <2>1, <2>3 DEF ExactlyOnce
  <2>7. \A s, u \in Threads : tconn'[s] = tconn'[u] /\ tconn'[s] # NoConn => s = u
    <3>1. tconn'[t] = c /\ \A u \in Threads \ {t} : tconn'[u] = tconn[u] /\ tconn[u] # c
      BY <1>0, <2>1, <2>3, <2>6 DEF WithThread
    <3> QED BY <2>1, <3>1 DEF ExactlyOnce
  <2>8. UNCHANGED <<InHand, InBacklog>> /\ Distinct(backlog')
    BY <1>0, <2>1 DEF InHand, InBacklog
  <2>9. \A i, j \in LiveSlots' : clifd'[i] = clifd'[j] => i = j
    BY <2>1, <2>2 DEF ExactlyOnce
  <2> QED BY <2>1, <2>3, <2>5, <2>7, <2>8, <2>9 DEF ExactlyOnce, Distinct
<1>5. ASSUME NEW t \in Threads, ThreadClose(t) PROVE ExactlyOnce'
  <2>1. /\ up /\ tpc[t] = "close" /\ tconn' = [tconn EXCEPT ![t] = NoConn]
        /\ closed' = closed \cup {tconn[t]}
        /\ UNCHANGED <<backlog, arrived, aborted, clifd, iget, iput, connfd, up>>
    BY <1>5 DEF ThreadClose, listenVars, ringVars, mainVars
  <2>2. tconn[t] # NoConn
    BY <2>1 DEF Shape, HoldPcs
  <2>3. tconn'[t] = NoConn /\ \A u \in Threads \ {t} : tconn'[u] = tconn[u] /\ (tconn[u] # tconn[t])
    BY <1>0, <2>1, <2>2 DEF ExactlyOnce
  <2>4. WithThread' = WithThread \ {tconn[t]} /\ tconn[t] \in WithThread
    BY <2>2, <2>3 DEF WithThread
  <2>5. UNCHANGED <<InHand, InBacklog, OnRing, LiveSlots>> /\ Distinct(backlog')
    BY <1>0, <2>1 DEF InHand, InBacklog, OnRing, LiveSlots, Live
  <2>6. \A s, u \in Threads : tconn'[s] = tconn'[u] /\ tconn'[s] # NoConn => s = u
    BY <2>1, <2>3 DEF ExactlyOnce
  <2> QED BY <2>1, <2>4, <2>5, <2>6 DEF ExactlyOnce, Distinct
<1> USE OnceUnchanged DEF listenVars, ringVars, mainVars, thrVars
<1>6. CASE MainLock \/ MainUnlock
  BY <1>6 DEF MainLock, MainUnlock
<1>7. ASSUME NEW t \in Threads,
             ThreadLock(t) \/ ThreadTest(t) \/ ThreadUnlock(t) \/ ThreadCount(t)
             \/ SpuriousWake(t) \/ WebChildReturns(t) PROVE ExactlyOnce'
  BY <1>7 DEF ThreadLock, ThreadTest, ThreadUnlock, ThreadCount, SpuriousWake, WebChildReturns
<1>8. CASE MainAcceptFails \/ SigInt \/ \E t \in Threads : WebChildQuits(t)
  BY <1>8 DEF MainAcceptFails, SigInt, WebChildQuits, Exit
<1>9. CASE UNCHANGED vars
  BY <1>9 DEF vars
<1> QED BY <1>1, <1>2, <1>3, <1>4, <1>5, <1>6, <1>7, <1>8, <1>9 DEF Next, MainStep, ThreadStep

-----------------------------------------------------------------------------
(* No lost wakeup.                                                          *)

\* The number of threads on their way to the ring, when one of them joins or leaves.
LEMMA OnTheWayCount ==
    ASSUME NEW A, NEW B, A \subseteq Threads, B \subseteq Threads
    PROVE  /\ Cardinality(A) \in Nat
           /\ A \subseteq B => Cardinality(A) <= Cardinality(B)
           /\ \A t \in Threads \ A : B = A \cup {t} => Cardinality(B) = Cardinality(A) + 1
           /\ \A t \in A : B = A \ {t} => Cardinality(B) = Cardinality(A) - 1
<1>1. IsFiniteSet(A) /\ IsFiniteSet(B)
  BY PoolAssumption, FS_Subset
<1>2. Cardinality(A) \in Nat
  BY <1>1, FS_CardinalityType
<1>3. A \subseteq B => Cardinality(A) <= Cardinality(B)
  BY <1>1, FS_Subset
<1>4. \A t \in Threads \ A : B = A \cup {t} => Cardinality(B) = Cardinality(A) + 1
  BY <1>1, FS_AddElement
<1>5. \A t \in A : B = A \ {t} => Cardinality(B) = Cardinality(A) - 1
  BY <1>1, FS_RemoveElement
<1> QED BY <1>2, <1>3, <1>4, <1>5

\* The number of queued descriptors is a natural number.
LEMMA DistType == ASSUME NEW i \in Slots, NEW j \in Slots PROVE Dist(i, j) \in Nat
  BY PoolAssumption DEF Slots, Dist

\* Every step keeps as many threads on their way as there are descriptors, as long as
\* some thread sleeps: pthread_cond_signal() (serv08.c:45) adds one for each put.
LEMMA WakeNext == TypeMutex /\ Shape /\ NoLostWakeup /\ [Next]_vars => NoLostWakeup'
<1> SUFFICES ASSUME TypeMutex, Shape, NoLostWakeup, [Next]_vars,
                    up', NEW w \in Threads, tpc'[w] = "wait"
             PROVE  Queued' <= Cardinality(OnTheWay')
  BY DEF NoLostWakeup
<1>0. /\ iget \in Slots /\ iput \in Slots /\ tpc \in [Threads -> ThreadPcs]
      /\ Queued \in Nat
      /\ OnTheWay \subseteq Threads /\ OnTheWay' \subseteq Threads
      /\ Cardinality(OnTheWay) \in Nat /\ Cardinality(OnTheWay') \in Nat
  BY DistType, OnTheWayCount DEF TypeMutex, TypeOK, Queued, OnTheWay
\* A step that leaves the ring alone and takes no thread off its way.
<1>1. ASSUME iget' = iget, iput' = iput, OnTheWay \subseteq OnTheWay',
             up, \E t \in Threads : tpc[t] = "wait"
      PROVE  Queued' <= Cardinality(OnTheWay')
  <2>1. Queued' = Queued /\ Cardinality(OnTheWay) <= Cardinality(OnTheWay')
    BY <1>0, <1>1, OnTheWayCount DEF Queued
  <2>2. Queued <= Cardinality(OnTheWay)
    BY <1>1 DEF NoLostWakeup
  <2> QED BY <1>0, <2>1, <2>2
<1> USE DEF listenVars, ringVars, mainVars, thrVars, Goto
<1>2. CASE Client \/ MainAccept \/ MainLock \/ MainUnlock \/ UNCHANGED vars
  <2>1. UNCHANGED <<iget, iput, tpc, up>>
    BY <1>2 DEF Client, MainAccept, MainLock, MainUnlock, vars
  <2> QED BY <1>1, <2>1 DEF OnTheWay
<1>3. CASE MainPut
  <2>1. up /\ ~RingFull /\ CondSignal /\ iput' = Advance(iput) /\ iget' = iget
    BY <1>3 DEF MainPut
  <2>2. Queued' = Queued + 1
    BY <1>0, <2>1, RingPut DEF RingFull, Queued
  <2>3. PICK t \in Threads : tpc[t] = "wait" /\ tpc' = [tpc EXCEPT ![t] = "relock"]
    BY <1>0, <2>1 DEF CondSignal, WakeOne
  <2>4. t \in Threads \ OnTheWay /\ OnTheWay' = OnTheWay \cup {t}
    BY <1>0, <2>3 DEF OnTheWay
  <2>5. Cardinality(OnTheWay') = Cardinality(OnTheWay) + 1
    BY <1>0, <2>4, OnTheWayCount
  <2>6. Queued <= Cardinality(OnTheWay)
    BY <2>1, <2>3 DEF NoLostWakeup
  <2> QED BY <1>0, <2>2, <2>5, <2>6
<1>4. ASSUME NEW t \in Threads,
             ThreadLock(t) \/ ThreadUnlock(t) \/ ThreadCount(t)
             \/ SpuriousWake(t) \/ WebChildReturns(t) \/ ThreadClose(t)
      PROVE  Queued' <= Cardinality(OnTheWay')
  <2>1. /\ up /\ iget' = iget /\ iput' = iput
        /\ \E pc \in ThreadPcs \ {"wait"} : tpc' = [tpc EXCEPT ![t] = pc]
    BY <1>4 DEF ThreadLock, AfterLock, ThreadUnlock, ThreadCount, SpuriousWake,
                WebChildReturns, ThreadClose, ThreadPcs
  <2>2. OnTheWay \subseteq OnTheWay'
    BY <1>0, <1>4 DEF ThreadLock, AfterLock, ThreadUnlock, ThreadCount, SpuriousWake,
                WebChildReturns, ThreadClose, OnTheWay
  <2>3. tpc[w] = "wait"
    BY <1>0, <2>1
  <2> QED BY <1>1, <2>1, <2>2, <2>3
<1>5. ASSUME NEW t \in Threads, ThreadTest(t) PROVE Queued' <= Cardinality(OnTheWay')
  <2>1. up /\ tpc[t] = "test" /\ iget' = iget /\ iput' = iput
    BY <1>5 DEF ThreadTest
  <2>2. CASE iget = iput
    BY <1>0, <2>1, <2>2, PoolAssumption DEF Queued, Dist, Slots
  <2>3. CASE iget # iput
    <3>1. tpc' = [tpc EXCEPT ![t] = "get"]
      BY <1>5, <2>3 DEF ThreadTest
    <3> QED BY <1>0, <1>1, <2>1, <3>1 DEF OnTheWay
  <2> QED BY <2>2, <2>3
<1>6. ASSUME NEW t \in Threads, ThreadGet(t) PROVE Queued' <= Cardinality(OnTheWay')
  <2>1. /\ up /\ tpc[t] = "get" /\ tpc' = [tpc EXCEPT ![t] = "unlock"]
        /\ iget' = Advance(iget) /\ iput' = iput /\ iget # iput
    BY <1>6 DEF ThreadGet, Shape
  <2>2. Queued' = Queued - 1
    BY <1>0, <2>1, RingGet DEF Queued
  <2>3. t \in OnTheWay /\ OnTheWay' = OnTheWay \ {t}
    BY <1>0, <2>1 DEF OnTheWay
  <2>4. Cardinality(OnTheWay') = Cardinality(OnTheWay) - 1
    BY <1>0, <2>3, OnTheWayCount
  <2>5. tpc[w] = "wait"
    BY <1>0, <2>1
  <2>6. Queued <= Cardinality(OnTheWay)
    BY <2>1, <2>5 DEF NoLostWakeup
  <2> QED BY <1>0, <2>2, <2>4, <2>6
<1>7. CASE MainAcceptFails \/ SigInt \/ \E t \in Threads : WebChildQuits(t)
  BY <1>7 DEF MainAcceptFails, SigInt, WebChildQuits, Exit
<1> QED BY <1>2, <1>3, <1>4, <1>5, <1>6, <1>7 DEF Next, MainStep, ThreadStep

-----------------------------------------------------------------------------
(* The theorems.                                                            *)

\* The invariant holds when main() enters its loop.
LEMMA InvInit == Init => Inv
<1> SUFFICES ASSUME Init PROVE Inv
  OBVIOUS
<1>1. TypeMutex
  BY TypeMutexInit
<1>2. Shape
  BY DEF Init, Shape, HoldPcs
<1>3. LiveSlots = {} /\ Queued = 0
  BY PoolAssumption DEF Init, LiveSlots, Live, Queued, Dist, Slots
<1>4. ExactlyOnce
  <2>1. InBacklog = {} /\ InHand = {} /\ OnRing = {} /\ WithThread = {} /\ Distinct(backlog)
    BY <1>3 DEF Init, ListenInit, InBacklog, Elements, InHand, OnRing, WithThread, Distinct
  <2> QED BY <1>3, <2>1 DEF Init, ListenInit, ExactlyOnce
<1>5. NoLostWakeup
  BY DEF Init, NoLostWakeup
<1> QED BY <1>1, <1>2, <1>4, <1>5 DEF Inv

\* The inductive invariant holds in every reachable state of serv08.
THEOREM Inductive == Spec => []Inv
<1>1. Inv /\ [Next]_vars => Inv'
  BY TypeMutexNext, ShapeNext, OnceNext, WakeNext DEF Inv
<1> QED BY InvInit, <1>1, PTL DEF Spec

\* Type correctness, for any numbers of threads, connections and ring slots: in
\* particular iget and iput always index clifd[] (serv08.c:41-42, pthread08.c:25-26).
THEOREM TypeCorrect == Spec => []TypeOK
<1>1. Inv => TypeOK
  BY DEF Inv, TypeMutex
<1> QED BY Inductive, <1>1, PTL

\* clifd_mutex excludes: only its owner is between lock and unlock.
THEOREM MutualExclusion == Spec => []MutexHeld
<1>1. Inv => MutexHeld
  BY DEF Inv, TypeMutex
<1> QED BY Inductive, <1>1, PTL

\* No accepted descriptor is lost, overwritten or given to two threads.
THEOREM NoConnectionLost == Spec => []ExactlyOnce
<1>1. Inv => ExactlyOnce
  BY DEF Inv
<1> QED BY Inductive, <1>1, PTL

\* One cond_signal per descriptor is enough: nobody sleeps on work.
THEOREM WakeupsSuffice == Spec => []NoLostWakeup
<1>1. Inv => NoLostWakeup
  BY DEF Inv
<1> QED BY Inductive, <1>1, PTL
-----------------------------------------------------------------------------
(* Refinement of ConnDispatch.                                              *)

\* A ring index that went at most once round, as % MAXNCLI brings it back.
Wrap(x) == IF x < MAXNCLI THEN x ELSE x - MAXNCLI

\* Wrap is the remainder.
LEMMA ModOnce ==
    ASSUME NEW x \in 0 .. MAXNCLI + MAXNCLI - 1
    PROVE  x % MAXNCLI = Wrap(x)
<1>1. MAXNCLI \in Nat \ {0}
  BY PoolAssumption
<1>2. CASE x < MAXNCLI
  BY <1>1, <1>2 DEF Wrap
<1>3. CASE x >= MAXNCLI
  BY <1>1, <1>3 DEF Wrap
<1> QED BY <1>1, <1>2, <1>3

\* The slots between iget and iput, in the order in which they were filled and will be
\* taken (serv08.c:41-42, pthread08.c:24-26).
LEMMA RingOrder ==
    ASSUME NEW g \in Slots, NEW p \in Slots
    PROVE  /\ \A k \in 1 .. Dist(g, p) : (g + k - 1) % MAXNCLI \in Live(g, p)
           /\ (g + Dist(g, p)) % MAXNCLI = p
           /\ g % MAXNCLI = g
           /\ \A k \in 1 .. Dist(g, p) - 1 : (Advance(g) + k - 1) % MAXNCLI = (g + k) % MAXNCLI
<1>1. MAXNCLI \in Nat \ {0} /\ g \in 0 .. MAXNCLI - 1 /\ p \in 0 .. MAXNCLI - 1
  BY PoolAssumption DEF Slots
<1>2. Dist(g, p) \in 0 .. MAXNCLI - 1
  BY <1>1 DEF Dist
<1>3. ASSUME NEW k \in 1 .. Dist(g, p) PROVE (g + k - 1) % MAXNCLI \in Live(g, p)
  <2>1. g + k - 1 \in 0 .. MAXNCLI + MAXNCLI - 1
    BY <1>1, <1>2
  <2>2. (g + k - 1) % MAXNCLI = Wrap(g + k - 1)
    BY <2>1, ModOnce, Zenon
  <2>3. Wrap(g + k - 1) \in Live(g, p)
    BY <1>1, <1>2 DEF Wrap, Live, Dist, Slots
  <2> QED BY <2>2, <2>3, Zenon
<1>4. (g + Dist(g, p)) % MAXNCLI = p
  <2>1. g + Dist(g, p) \in 0 .. MAXNCLI + MAXNCLI - 1
    BY <1>1, <1>2
  <2>2. (g + Dist(g, p)) % MAXNCLI = Wrap(g + Dist(g, p))
    BY <2>1, ModOnce, Zenon
  <2>3. Wrap(g + Dist(g, p)) = p
    BY <1>1 DEF Wrap, Dist
  <2> QED BY <2>2, <2>3, Zenon
<1>5. g % MAXNCLI = g
  BY <1>1, ModOnce DEF Wrap
<1>6. ASSUME NEW k \in 1 .. Dist(g, p) - 1
      PROVE  (Advance(g) + k - 1) % MAXNCLI = (g + k) % MAXNCLI
  <2>1. g + k \in 0 .. MAXNCLI + MAXNCLI - 1 /\ Advance(g) + k - 1 \in 0 .. MAXNCLI + MAXNCLI - 1
    BY <1>1, <1>2 DEF Advance
  <2>2. /\ (g + k) % MAXNCLI = Wrap(g + k)
        /\ (Advance(g) + k - 1) % MAXNCLI = Wrap(Advance(g) + k - 1)
    BY <2>1, ModOnce, Zenon
  <2>3. Wrap(g + k) = Wrap(Advance(g) + k - 1)
    BY <1>1, <1>2 DEF Advance, Wrap
  <2> QED BY <2>2, <2>3, Zenon
<1> QED BY <1>3, <1>4, <1>5, <1>6

\* While the server runs, the ring is a sequence of connections.
LEMMA RingSeqType ==
    ASSUME Inv, up
    PROVE  /\ Queued \in Nat /\ RingSeq \in Seq(Conns) /\ Len(RingSeq) = Queued
           /\ HandSeq \in Seq(Conns) /\ backlog \in Seq(Conns)
<1>1. iget \in Slots /\ iput \in Slots /\ clifd \in [Slots -> Conns \cup {NoConn}]
  BY DEF Inv, TypeMutex, TypeOK
<1>2. Queued \in Nat
  BY <1>1, DistType DEF Queued
<1>3. \A k \in 1 .. Queued : (iget + k - 1) % MAXNCLI \in LiveSlots
  BY <1>1, RingOrder DEF Queued, LiveSlots
<1>4. \A i \in LiveSlots : clifd[i] \in Conns
  BY <1>1 DEF LiveSlots, Live, Inv, ExactlyOnce, OnRing
<1>5. RingSeq \in [1 .. Queued -> Conns]
  BY <1>3, <1>4 DEF RingSeq
<1>6. HandSeq \in Seq(Conns) /\ backlog \in Seq(Conns)
  BY DEF Inv, TypeMutex, TypeOK, ListenTypeOK, HandSeq
<1> QED BY <1>2, <1>5, <1>6

\* A thread takes the head of the line, once the ring is not empty.
LEMMA LineTake ==
    ASSUME NEW S, NEW r \in Seq(S), NEW h \in Seq(S), NEW b \in Seq(S), r # <<>>
    PROVE  /\ (r \o h) \o b # <<>>
           /\ Head((r \o h) \o b) = r[1]
           /\ Tail((r \o h) \o b) = (Tail(r) \o h) \o b
<1>1. /\ (r \o h) # <<>> /\ Head(r \o h) = r[1] /\ r \o h \in Seq(S)
      /\ Tail(r \o h) = Tail(r) \o h
  OBVIOUS
<1>2. \A t \in Seq(S) : t # <<>> => /\ t \o b # <<>> /\ Head(t \o b) = Head(t)
                                     /\ Tail(t \o b) = Tail(t) \o b
  OBVIOUS
<1> QED BY <1>1, <1>2

\* Every step is a step of ConnDispatch or leaves its variables alone: a thread takes a
\* connection when it advances iget, and what main() does with mutex and ring is
\* invisible.
LEMMA DispatchNext == Inv /\ [Next]_vars => [Dispatch!Next]_(Dispatch!dispatchVars)
<1> SUFFICES ASSUME Inv, [Next]_vars
             PROVE  Dispatch!Next \/ UNCHANGED Dispatch!dispatchVars
  OBVIOUS
<1> DEFINE line == (RingSeq \o HandSeq) \o backlog
<1> USE PoolAssumption, ConnAssumption DEF listenVars, ringVars, mainVars, thrVars
<1>0. /\ up => /\ RingSeq \in Seq(Conns) /\ Len(RingSeq) = Queued /\ Queued \in Nat
               /\ HandSeq \in Seq(Conns) /\ backlog \in Seq(Conns)
               /\ RingSeq \o HandSeq \in Seq(Conns)
      /\ tconn \in [Threads -> Conns \cup {NoConn}]
      /\ iget \in Slots /\ iput \in Slots /\ clifd \in [Slots -> Conns \cup {NoConn}]
      /\ tpc \in [Threads -> ThreadPcs]
  BY RingSeqType DEF Inv, TypeMutex, TypeOK
\* The ring and main's hand as they were.
<1>1. ASSUME UNCHANGED <<clifd, iget, iput>> PROVE RingSeq' = RingSeq
  BY <1>1 DEF RingSeq, Queued
<1>2. ASSUME UNCHANGED connfd PROVE HandSeq' = HandSeq
  BY <1>2 DEF HandSeq
<1>3. ASSUME UNCHANGED <<backlog, arrived, aborted, clifd, iget, iput, connfd, tconn, closed, up>>
      PROVE  UNCHANGED Dispatch!dispatchVars
  BY <1>1, <1>2, <1>3 DEF Dispatch!dispatchVars
<1>4. CASE Client
  <2>1. /\ up /\ UNCHANGED <<tconn, closed, up>>
        /\ RingSeq' = RingSeq /\ HandSeq' = HandSeq
    BY <1>1, <1>2, <1>4 DEF Client
  <2>2. ASSUME NEW c \in Conns, ConnArrives(c) PROVE Dispatch!Arrive(c)
    <3>1. (RingSeq \o HandSeq) \o Append(backlog, c) = Append(line, c)
      BY <1>0, <2>1, LineClient
    <3> QED BY <2>1, <2>2, <3>1 DEF ConnArrives, Dispatch!Arrive
  <2>3. ASSUME NEW k \in DOMAIN backlog, ConnAborted(k)
        PROVE  \E j \in DOMAIN (IF up THEN line ELSE <<>>) : Dispatch!Abort(j)
    <3> DEFINE n == Len(RingSeq \o HandSeq) + k
    <3>1. /\ n \in DOMAIN line /\ line[n] = backlog[k]
          /\ (RingSeq \o HandSeq) \o DropAt(backlog, k) = Without(line, n)
      <4> DEFINE p == RingSeq \o HandSeq
      <4>1. p \in Seq(Conns) /\ backlog \in Seq(Conns)
        BY <1>0, <2>1
      <4> HIDE DEF p
      <4>2. \A j \in DOMAIN backlog :
              /\ Len(p) + j \in DOMAIN (p \o backlog) /\ (p \o backlog)[Len(p) + j] = backlog[j]
              /\ p \o DropAt(backlog, j) = Without(p \o backlog, Len(p) + j)
        BY <4>1, LineClient
      <4> QED BY <4>2 DEF p
    <3> HIDE DEF n
    <3>2. Dispatch!Abort(n)
      BY <2>1, <2>3, <3>1 DEF ConnAborted, Dispatch!Abort, Without
    <3> QED BY <2>1, <3>1, <3>2
  <2> QED BY <1>4, <2>1, <2>2, <2>3 DEF Client, Dispatch!Next
<1>5. CASE MainAccept
  <2>1. /\ up /\ mpc = "accept" /\ backlog # <<>> /\ backlog' = Tail(backlog)
        /\ connfd' = Head(backlog) /\ connfd' \in Conns
        /\ UNCHANGED <<arrived, aborted, clifd, iget, iput, tconn, closed, up>>
    BY <1>5 DEF MainAccept, AcceptReturns
  <2>2. HandSeq = <<>> /\ HandSeq' = <<Head(backlog)>> /\ RingSeq' = RingSeq
    BY <1>1, <2>1 DEF HandSeq, Inv, Shape
  <2>3. (RingSeq \o <<Head(backlog)>>) \o Tail(backlog) = (RingSeq \o <<>>) \o backlog
    BY <1>0, <2>1, LineMain
  <2> QED BY <2>1, <2>2, <2>3 DEF Dispatch!dispatchVars
<1>6. CASE MainPut
  <2>1. /\ up /\ mpc = "put" /\ clifd' = [clifd EXCEPT ![iput] = connfd] /\ iput' = Advance(iput)
        /\ UNCHANGED <<backlog, arrived, aborted, iget, tconn, closed>>
    BY <1>6 DEF MainPut
  <2>2. CASE RingFull
    <3>1. up' = FALSE
      BY <1>6, <2>2 DEF MainPut
    <3> QED BY <2>1, <3>1 DEF Dispatch!Exit, Dispatch!Next
  <2>3. CASE ~RingFull
    <3>1. connfd' = NoConn /\ up' = up
      BY <1>6, <2>3 DEF MainPut
    <3>2. connfd # NoConn /\ connfd \in Conns
      BY <2>1 DEF Inv, Shape, TypeMutex, TypeOK
    <3>3. HandSeq = <<connfd>> /\ HandSeq' = <<>>
      BY <3>1, <3>2 DEF HandSeq
    <3>4. RingSeq' = Append(RingSeq, connfd)
      <4>1. Queued' = Queued + 1 /\ iput \notin LiveSlots /\ LiveSlots \subseteq Slots
        BY <1>0, <2>1, <2>3, RingPut DEF RingFull, Queued, LiveSlots, Live
      <4>2. /\ \A k \in 1 .. Queued : (iget + k - 1) % MAXNCLI \in LiveSlots
            /\ (iget + Queued) % MAXNCLI = iput
        BY <1>0, RingOrder DEF Queued, LiveSlots
      <4>3. RingSeq' = [k \in 1 .. Queued + 1 |-> clifd'[(iget + k - 1) % MAXNCLI]]
        BY <2>1, <4>1 DEF RingSeq
      <4>4. \A k \in 1 .. Queued : clifd'[(iget + k - 1) % MAXNCLI] = clifd[(iget + k - 1) % MAXNCLI]
        BY <1>0, <2>1, <4>1, <4>2
      <4>5. \A k \in 1 .. Queued : RingSeq[k] = clifd[(iget + k - 1) % MAXNCLI]
        BY DEF RingSeq
      <4>6. clifd'[(iget + Queued) % MAXNCLI] = connfd
        BY <1>0, <2>1, <4>2
      <4>7. iget + (Queued + 1) - 1 = iget + Queued
        BY <1>0, <2>1 DEF Slots
      <4> DEFINE f == RingSeq'
      <4>8. /\ \A k \in 1 .. Queued : f[k] = RingSeq[k]
            /\ f[Queued + 1] = connfd
            /\ f = [k \in 1 .. Queued + 1 |-> f[k]]
        BY <1>0, <2>1, <4>3, <4>4, <4>5, <4>6, <4>7
      <4> HIDE DEF f
      <4>9. f = Append(RingSeq, connfd)
        <5>1. /\ RingSeq \in Seq(Conns) /\ Len(RingSeq) = Queued /\ Queued \in Nat
          BY <1>0, <2>1
        <5>2. \A k \in 1 .. Queued + 1 : f[k] \in Conns
          <6>1. \A k \in 1 .. Queued : RingSeq[k] \in Conns
            BY <5>1
          <6>2. \A k \in 1 .. Queued + 1 : k \in 1 .. Queued \/ k = Queued + 1
            BY <5>1
          <6> QED BY <3>2, <4>8, <6>1, <6>2, Zenon
        <5>3. f \in Seq(Conns) /\ Len(f) = Queued + 1
          BY <4>8, <5>1, <5>2
        <5>4. /\ Append(RingSeq, connfd) \in Seq(Conns) /\ Len(Append(RingSeq, connfd)) = Queued + 1
              /\ \A k \in 1 .. Queued : Append(RingSeq, connfd)[k] = RingSeq[k]
              /\ Append(RingSeq, connfd)[Queued + 1] = connfd
          BY <3>2, <5>1
        <5>5. \A k \in 1 .. Queued + 1 : f[k] = Append(RingSeq, connfd)[k]
          <6>1. \A k \in 1 .. Queued + 1 : k \in 1 .. Queued \/ k = Queued + 1
            BY <5>1
          <6> QED BY <4>8, <5>4, <6>1, Zenon
        <5> QED BY <5>3, <5>4, <5>5, SeqEqual
      <4> QED BY <4>9 DEF f
    <3>5. (Append(RingSeq, connfd) \o <<>>) \o backlog = (RingSeq \o <<connfd>>) \o backlog
      BY <1>0, <2>1, <3>2, LineMain
    <3> QED BY <2>1, <3>1, <3>3, <3>4, <3>5 DEF Dispatch!dispatchVars
  <2> QED BY <2>2, <2>3
<1>7. ASSUME NEW t \in Threads, ThreadGet(t) PROVE Dispatch!Take(t)
  <2>1. /\ up /\ tpc[t] = "get" /\ tconn' = [tconn EXCEPT ![t] = clifd[iget]] /\ iget' = Advance(iget)
        /\ UNCHANGED <<backlog, arrived, aborted, clifd, iput, connfd, closed, up>>
    BY <1>7 DEF ThreadGet
  <2>2. iget # iput /\ tconn[t] = NoConn
    BY <2>1 DEF Inv, Shape, HoldPcs
  <2>3. Queued' = Queued - 1 /\ Queued' \in Nat
    BY <1>0, <2>1, <2>2, RingGet, AdvanceType, DistType DEF Queued
  <2>4. /\ iget % MAXNCLI = iget
        /\ \A k \in 1 .. Queued - 1 : (Advance(iget) + k - 1) % MAXNCLI = (iget + k) % MAXNCLI
    BY <1>0, RingOrder DEF Queued
  <2>5. /\ \A k \in 1 .. Queued : RingSeq[k] = clifd[(iget + k - 1) % MAXNCLI]
        /\ \A k \in 1 .. Queued - 1 : RingSeq'[k] = clifd[(Advance(iget) + k - 1) % MAXNCLI]
    BY <2>1, <2>3 DEF RingSeq
  <2>6. RingSeq[1] = clifd[iget]
    <3>1. 1 \in 1 .. Queued /\ iget + 1 - 1 = iget
      BY <1>0, <2>1, <2>3 DEF Slots
    <3> QED BY <2>4, <2>5, <3>1
  <2>7. \A k \in 1 .. Queued - 1 : RingSeq'[k] = RingSeq[k + 1]
    <3> SUFFICES ASSUME NEW k \in 1 .. Queued - 1 PROVE RingSeq'[k] = RingSeq[k + 1]
      OBVIOUS
    <3>1. k + 1 \in 1 .. Queued /\ iget + (k + 1) - 1 = iget + k
      BY <1>0, <2>1 DEF Slots
    <3> QED BY <2>4, <2>5, <3>1
  <2>8. RingSeq' \in Seq(Conns) /\ Len(RingSeq') = Queued - 1
    <3>1. \A k \in 1 .. Queued - 1 : RingSeq'[k] \in Conns
      BY <1>0, <2>1, <2>7
    <3> DEFINE f == RingSeq'
    <3>2. f = [k \in 1 .. Queued - 1 |-> f[k]]
      BY <2>3 DEF RingSeq
    <3> HIDE DEF f
    <3>3. \A k \in 1 .. Queued - 1 : f[k] \in Conns
      BY <3>1 DEF f
    <3>4. f \in Seq(Conns) /\ Len(f) = Queued - 1
      BY <2>3, <3>2, <3>3
    <3> QED BY <3>4 DEF f
  <2>9. RingSeq # <<>>
    BY <1>0, <2>1, <2>3
  <2>10. /\ line # <<>> /\ Head(line) = clifd[iget]
         /\ Tail(line) = (RingSeq' \o HandSeq) \o backlog
    <3> DEFINE rr == RingSeq'
    <3>1. /\ RingSeq \in Seq(Conns) /\ HandSeq \in Seq(Conns) /\ backlog \in Seq(Conns)
          /\ rr \in Seq(Conns) /\ RingSeq # <<>> /\ Len(rr) = Len(RingSeq) - 1
          /\ \A k \in 1 .. Len(RingSeq) - 1 : rr[k] = RingSeq[k + 1]
      BY <1>0, <2>1, <2>7, <2>8, <2>9
    <3> HIDE DEF rr
    <3> DEFINE h == HandSeq
               ring == RingSeq
    <3> HIDE DEF h, ring
    <3>2. /\ ring \in Seq(Conns) /\ h \in Seq(Conns) /\ backlog \in Seq(Conns)
          /\ rr \in Seq(Conns) /\ ring # <<>> /\ Len(rr) = Len(ring) - 1
          /\ \A k \in 1 .. Len(ring) - 1 : rr[k] = ring[k + 1]
      BY <3>1 DEF h, ring
    <3>3. /\ (ring \o h) \o backlog # <<>> /\ Head((ring \o h) \o backlog) = ring[1]
          /\ Tail((ring \o h) \o backlog) = (Tail(ring) \o h) \o backlog
      <4>1. ring \in Seq(Conns) /\ h \in Seq(Conns) /\ backlog \in Seq(Conns) /\ ring # <<>>
        BY <3>2
      <4> QED
        BY <4>1, LineTake, SMTT(30)
    <3>4. /\ Tail(ring) \in Seq(Conns) /\ Len(Tail(ring)) = Len(ring) - 1
          /\ \A k \in 1 .. Len(ring) - 1 : Tail(ring)[k] = ring[k + 1]
      BY <3>2
    <3>5. rr = Tail(ring)
      BY <3>2, <3>4, SeqEqual
    <3> QED BY <2>6, <3>3, <3>5 DEF rr, h, ring
  <2>11. HandSeq' = HandSeq
    BY <1>2, <2>1
  <2> HIDE DEF line
  <2>12. line' = Tail(line)
    BY <2>1, <2>10, <2>11 DEF line
  <2> QED BY <2>1, <2>2, <2>10, <2>12 DEF Dispatch!Take, line
<1>8. ASSUME NEW t \in Threads, ThreadClose(t) PROVE Dispatch!Finish(t)
  <2>1. /\ up /\ tpc[t] = "close" /\ tconn' = [tconn EXCEPT ![t] = NoConn]
        /\ closed' = closed \cup {tconn[t]}
        /\ UNCHANGED <<backlog, arrived, aborted, clifd, iget, iput, connfd, up>>
    BY <1>8 DEF ThreadClose
  <2>2. tconn[t] # NoConn
    BY <2>1 DEF Inv, Shape, HoldPcs
  <2> QED BY <1>1, <1>2, <2>1, <2>2 DEF Dispatch!Finish
<1>9. ASSUME up, Exit PROVE Dispatch!Exit
  <2>1. up' = FALSE /\ UNCHANGED <<arrived, aborted, closed>>
    BY <1>9 DEF Exit
  <2> QED BY <1>9, <2>1 DEF Dispatch!Exit
<1>10. CASE MainAcceptFails \/ SigInt \/ \E t \in Threads : WebChildQuits(t)
  BY <1>9, <1>10 DEF MainAcceptFails, SigInt, WebChildQuits, Dispatch!Next
<1>11. CASE MainLock \/ MainUnlock
  BY <1>3, <1>11 DEF MainLock, MainUnlock
<1>12. ASSUME NEW t \in Threads,
              ThreadLock(t) \/ ThreadTest(t) \/ ThreadUnlock(t) \/ ThreadCount(t)
              \/ SpuriousWake(t) \/ WebChildReturns(t)
       PROVE  UNCHANGED Dispatch!dispatchVars
  BY <1>3, <1>12 DEF ThreadLock, ThreadTest, ThreadUnlock, ThreadCount, SpuriousWake, WebChildReturns
<1>13. CASE UNCHANGED vars
  BY <1>3, <1>13 DEF vars
<1> QED BY <1>4, <1>5, <1>6, <1>7, <1>8, <1>10, <1>11, <1>12, <1>13
        DEF Next, MainStep, ThreadStep, Dispatch!Next

\* serv08 keeps the promise of ConnDispatch, for any numbers of threads, connections and
\* ring slots: the connections are served in order of arrival, each by one thread.
THEOREM RingDispatches == Spec => ImplementsDispatch
<1>1. Init => Dispatch!Init
  <2> SUFFICES ASSUME Init PROVE Dispatch!Init
    OBVIOUS
  <2>1. Queued = 0 /\ RingSeq = <<>>
    BY PoolAssumption DEF Init, RingSeq, Queued, Dist
  <2>2. HandSeq = <<>> /\ backlog = <<>>
    BY DEF Init, ListenInit, HandSeq
  <2> QED BY <2>1, <2>2 DEF Init, ListenInit, Dispatch!Init
<1> QED BY <1>1, Inductive, DispatchNext, PTL DEF Spec, ImplementsDispatch, Dispatch!Spec

=============================================================================
