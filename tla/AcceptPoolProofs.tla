-------------------------- MODULE AcceptPoolProofs --------------------------
(***************************************************************************)
(* AcceptPool for any number of workers and connections and for all of its  *)
(* programs: the lock around accept() is held by the worker that calls it,  *)
(* and every program implements ConnDispatch.                               *)
(***************************************************************************)
EXTENDS AcceptPool, ListenQueueProofs

-----------------------------------------------------------------------------
(* The nine loops.                                                          *)

\* The steps at which a worker has no connection.
Waiting == {"lock", "select", "accept"}

\* How the steps of a loop follow one another in every program: the lock is taken just
\* before accept() and given back just after it, and close() ends the loop
\* (child03.c:26-34, pthread07.c:24-34 and the others).
LEMMA LoopSteps ==
    ASSUME server \in Servers
    PROVE  /\ Len(Loop) \in Nat /\ 1 \in 1 .. Len(Loop) /\ Loop[1] \in Waiting
           /\ \A k \in 1 .. Len(Loop) :
                /\ Following(k) \in 1 .. Len(Loop)
                /\ Loop[k] = "lock" => Loop[Following(k)] = "accept" /\ Loop[1] = "lock"
                /\ Loop[k] = "select" => Loop[Following(k)] = "accept" /\ Loop[1] # "lock"
                /\ Loop[k] = "accept" =>
                      /\ Loop[Following(k)] \notin Waiting
                      /\ Loop[1] = "lock" <=> Loop[Following(k)] = "unlock"
                /\ Loop[k] = "unlock" =>
                      /\ Loop[Following(k)] \notin Waiting \cup {"unlock"}
                      /\ Loop[1] = "lock"
                /\ Loop[k] \in {"count", "child"} =>
                      Loop[Following(k)] \notin Waiting \cup {"unlock"}
                /\ Loop[k] = "close" => Following(k) = 1
<1>1. server \in {"serv00", "serv02", "serv02l", "serv02m", "serv03", "serv03m", "serv04",
                  "serv07", "serv09"}
  BY ServersAssumption DEF Loops
<1>2. CASE server \in {"serv00", "serv02"}
  <2>1. Loop = <<"accept", "child", "close">>
    BY <1>2 DEF Loop, Loops, serv00, child02
  <2>2. /\ Len(Loop) = 3
        /\ Loop[1] = "accept" /\ Loop[2] = "child" /\ Loop[3] = "close"
    BY <2>1
  <2>3. \A k \in 1 .. 3 : k = 1 \/ k = 2 \/ k = 3
    OBVIOUS
  <2> QED BY <2>2, <2>3 DEF Following, Waiting
<1>3. CASE server = "serv02l"
  <2>1. Loop = <<"select", "accept", "child", "close">>
    BY <1>3 DEF Loop, Loops, child02l
  <2>2. /\ Len(Loop) = 4
        /\ Loop[1] = "select" /\ Loop[2] = "accept" /\ Loop[3] = "child" /\ Loop[4] = "close"
    BY <2>1
  <2>3. \A k \in 1 .. 4 : k = 1 \/ k = 2 \/ k = 3 \/ k = 4
    OBVIOUS
  <2> QED BY <2>2, <2>3 DEF Following, Waiting
<1>4. CASE server \in {"serv02m", "serv09"}
  <2>1. Loop = <<"accept", "count", "child", "close">>
    BY <1>4 DEF Loop, Loops, child02m, thread09
  <2>2. /\ Len(Loop) = 4
        /\ Loop[1] = "accept" /\ Loop[2] = "count" /\ Loop[3] = "child" /\ Loop[4] = "close"
    BY <2>1
  <2>3. \A k \in 1 .. 4 : k = 1 \/ k = 2 \/ k = 3 \/ k = 4
    OBVIOUS
  <2> QED BY <2>2, <2>3 DEF Following, Waiting
<1>5. CASE server \in {"serv03", "serv04"}
  <2>1. Loop = <<"lock", "accept", "unlock", "child", "close">>
    BY <1>5 DEF Loop, Loops, child03, child04
  <2>2. /\ Len(Loop) = 5
        /\ Loop[1] = "lock" /\ Loop[2] = "accept" /\ Loop[3] = "unlock" /\ Loop[4] = "child" /\ Loop[5] = "close"
    BY <2>1
  <2>3. \A k \in 1 .. 5 : k = 1 \/ k = 2 \/ k = 3 \/ k = 4 \/ k = 5
    OBVIOUS
  <2> QED BY <2>2, <2>3 DEF Following, Waiting
<1>6. CASE server \in {"serv03m", "serv07"}
  <2>1. Loop = <<"lock", "accept", "unlock", "count", "child", "close">>
    BY <1>6 DEF Loop, Loops, child03m, thread07
  <2>2. /\ Len(Loop) = 6
        /\ Loop[1] = "lock" /\ Loop[2] = "accept" /\ Loop[3] = "unlock" /\ Loop[4] = "count" /\ Loop[5] = "child" /\ Loop[6] = "close"
    BY <2>1
  <2>3. \A k \in 1 .. 6 : k = 1 \/ k = 2 \/ k = 3 \/ k = 4 \/ k = 5 \/ k = 6
    OBVIOUS
  <2> QED BY <2>2, <2>3 DEF Following, Waiting
<1> QED BY <1>1, <1>2, <1>3, <1>4, <1>5, <1>6
-----------------------------------------------------------------------------
(* The inductive invariant.                                                 *)

\* A worker has a connection exactly after accept() in its loop; a stopped server has
\* no worker left.
Shape ==
    /\ \A w \in Workers : connfd[w] = NoConn <=> pc[w] = 0 \/ Loop[pc[w]] \in Waiting
    /\ ~up => \A w \in Workers : pc[w] = 0

\* The lock has an owner only while a worker is at accept() or at the unlock after it,
\* unless that worker died there.
OwnerAtWork ==
    \A w \in Workers : owner = w =>
        \/ At(w, "unlock")
        \/ At(w, "accept") /\ Loop[1] = "lock"
        \/ pc[w] = 0 /\ (up => server = "serv04")

Inv == /\ LockRight /\ Shape /\ OwnerAtWork
       /\ Distinct(backlog) /\ Elements(backlog) \subseteq arrived

\* All workers start at the top of their loop with the lock free (child_make(), tptr).
LEMMA InvInit == Init => Inv
<1> SUFFICES ASSUME Init PROVE Inv
  OBVIOUS
<1> USE AcceptPoolAssumption DEF Init, ListenInit
<1>1. /\ Len(Loop) \in Nat /\ 1 \in 1 .. Len(Loop)
      /\ Loop[1] \in Waiting
  BY LoopSteps
<1>2. TypeOK
  BY <1>1 DEF TypeOK, ListenTypeOK
<1>3. \A w \in Workers : ~ At(w, "unlock") /\ (At(w, "accept") => Loop[1] = "accept")
  BY <1>1 DEF At, Waiting
<1>4. LockRight
  BY <1>2, <1>3 DEF LockRight
<1>5. Shape /\ OwnerAtWork
  BY <1>1 DEF Shape, OwnerAtWork
<1>6. Distinct(backlog) /\ Elements(backlog) \subseteq arrived
  BY DEF Distinct, Elements
<1> QED BY <1>4, <1>5, <1>6 DEF Inv

\* Where a worker that is at a step of its loop goes next; the program does not change.
LEMMA InvAdvance ==
    ASSUME TypeOK, NEW w \in Workers, pc[w] # 0, Advance(w), UNCHANGED server
    PROVE  /\ pc[w] \in 1 .. Len(Loop)
           /\ Loop' = Loop
           /\ pc' \in [Workers -> 0 .. Len(Loop)]
           /\ pc'[w] = Following(pc[w]) /\ pc'[w] \in 1 .. Len(Loop)
           /\ \A v \in Workers \ {w} : pc'[v] = pc[v]
<1>1. pc[w] \in 1 .. Len(Loop) /\ Loop' = Loop /\ Len(Loop) \in Nat
  BY LoopSteps DEF TypeOK, Loop
<1>2. Following(pc[w]) \in 1 .. Len(Loop)
  BY <1>1, LoopSteps DEF TypeOK
<1> QED BY <1>1, <1>2 DEF Advance, TypeOK

\* Every step of every program keeps the invariant.
LEMMA InvNext == Inv /\ [Next]_vars => Inv'
<1> SUFFICES ASSUME Inv, [Next]_vars PROVE Inv'
  OBVIOUS
<1> USE AcceptPoolAssumption, ConnAssumption
<1> USE DEF Inv, LockRight, listenVars, workVars
<1>0. /\ server \in Servers
      /\ \A w \in Workers : pc[w] # 0 => pc[w] \in 1 .. Len(Loop)
      /\ Len(Loop) \in Nat
  BY LoopSteps DEF TypeOK
<1>1. CASE Client
  <2>1. ListenTypeOK' /\ Distinct(backlog)' /\ (Elements(backlog) \subseteq arrived)'
    BY <1>1, ListenStep DEF Client, TypeOK
  <2>2. UNCHANGED <<server, pc, connfd, owner, count, closed, died, up, Loop>>
    BY <1>1 DEF Client, Loop
  <2> QED BY <2>1, <2>2 DEF TypeOK, Shape, OwnerAtWork, At
<1>2. ASSUME NEW w \in Workers, Step(w) \/ WebChildReturns(w) PROVE Inv'
  <2> USE DEF Waiting
  <2>1. Advance(w) /\ UNCHANGED <<server, up>> /\ pc[w] # 0
    BY <1>2 DEF Step, Lock, Unlock, Select, AcceptStep, Count, WebChildReturns, Close, At
  <2>2. /\ Loop' = Loop /\ pc[w] \in 1 .. Len(Loop)
        /\ pc' \in [Workers -> 0 .. Len(Loop)]
        /\ pc'[w] = Following(pc[w]) /\ pc'[w] \in 1 .. Len(Loop) /\ pc'[w] # 0
        /\ \A v \in Workers \ {w} : pc'[v] = pc[v]
    BY <2>1, <1>0, InvAdvance
  <2>3. owner \in Workers \cup {Nobody}
    BY DEF TypeOK
  <2>4. up
    BY <2>1 DEF Shape
  <2>5. ASSUME Lock(w) PROVE Inv'
    <3>1. /\ owner = Nobody /\ owner' = w
          /\ UNCHANGED <<backlog, arrived, aborted, connfd, count, closed, died>>
      BY <2>5 DEF Lock, TakeLock
    <3>2. Loop[pc[w]] = "lock" /\ Loop[pc'[w]] = "accept" /\ Loop[1] = "lock"
      BY <2>2, <2>5, <1>0, LoopSteps DEF Lock, At
    <3>3. TypeOK'
      BY <2>1, <2>2, <3>1 DEF TypeOK, ListenTypeOK
    <3>4. LockRight'
      BY <2>1, <2>2, <2>3, <3>1, <3>2, <3>3 DEF At
    <3>5. Shape' /\ OwnerAtWork'
      BY <2>1, <2>2, <3>1, <3>2, <2>4 DEF Shape, OwnerAtWork, At
    <3> QED BY <3>1, <3>4, <3>5 DEF Distinct, Elements
  <2>6. ASSUME Unlock(w) PROVE Inv'
    <3>1. /\ owner = w /\ owner' = Nobody
          /\ UNCHANGED <<backlog, arrived, aborted, connfd, count, closed, died>>
      BY <2>6 DEF Unlock, DropLock
    <3>2. Loop[pc[w]] = "unlock" /\ Loop[pc'[w]] \notin Waiting \cup {"unlock"}
      BY <2>2, <2>6, <1>0, LoopSteps DEF Unlock, At
    <3>3. TypeOK'
      BY <2>1, <2>2, <3>1 DEF TypeOK, ListenTypeOK
    <3>4. LockRight'
      BY <2>1, <2>2, <2>3, <3>1, <3>2, <3>3 DEF At
    <3>5. Shape' /\ OwnerAtWork'
      BY <2>1, <2>2, <3>1, <3>2, <2>4 DEF Shape, OwnerAtWork, At
    <3> QED BY <3>1, <3>4, <3>5 DEF Distinct, Elements
  <2>7. ASSUME Select(w) PROVE Inv'
    <3>1. UNCHANGED <<backlog, arrived, aborted, connfd, owner, count, closed, died>>
      BY <2>7 DEF Select
    <3>2. Loop[pc[w]] = "select" /\ Loop[pc'[w]] = "accept" /\ Loop[1] # "lock"
      BY <2>2, <2>7, <1>0, LoopSteps DEF Select, At
    <3>3. TypeOK'
      BY <2>1, <2>2, <3>1 DEF TypeOK, ListenTypeOK
    <3>4. LockRight'
      BY <2>1, <2>2, <2>3, <3>1, <3>2, <3>3 DEF At
    <3>5. Shape' /\ OwnerAtWork'
      BY <2>1, <2>2, <3>1, <3>2, <2>4 DEF Shape, OwnerAtWork, At
    <3> QED BY <3>1, <3>4, <3>5 DEF Distinct, Elements
  <2>8. ASSUME AcceptStep(w) PROVE Inv'
    <3>1. PICK c \in Conns : AcceptReturns(c) /\ SetConnfd(w, c)
      BY <2>8 DEF AcceptStep
    <3>2. /\ connfd' = [connfd EXCEPT ![w] = c]
          /\ UNCHANGED <<owner, count, closed, died>>
      BY <2>8, <3>1 DEF AcceptStep, SetConnfd
    <3>3. ListenTypeOK' /\ Distinct(backlog)' /\ (Elements(backlog) \subseteq arrived)'
      BY <3>1, ListenStep DEF TypeOK
    <3>4. /\ Loop[pc[w]] = "accept" /\ Loop[pc'[w]] \notin Waiting
          /\ Loop[1] = "lock" <=> Loop[pc'[w]] = "unlock"
      BY <2>2, <2>8, <1>0, LoopSteps DEF AcceptStep, At
    <3>5. TypeOK'
      BY <2>1, <2>2, <3>2, <3>3 DEF TypeOK
    <3>6. LockRight'
      BY <2>1, <2>2, <2>3, <3>2, <3>4, <3>5 DEF At
    <3>7. connfd \in [Workers -> Conns \cup {NoConn}]
      BY DEF TypeOK
    <3>8. Shape' /\ OwnerAtWork'
      BY <2>1, <2>2, <3>2, <3>4, <2>4, <3>7 DEF Shape, OwnerAtWork, At
    <3> QED BY <3>3, <3>6, <3>8
  <2>9. ASSUME Count(w) \/ WebChildReturns(w) PROVE Inv'
    <3>1. /\ count' \in [Workers -> Nat]
          /\ UNCHANGED <<backlog, arrived, aborted, connfd, owner, closed, died>>
      BY <2>9 DEF Count, WebChildReturns, TypeOK
    <3>2. Loop[pc[w]] \in {"count", "child"} /\ Loop[pc'[w]] \notin Waiting \cup {"unlock"}
      BY <2>2, <2>9, <1>0, LoopSteps DEF Count, WebChildReturns, At
    <3>3. TypeOK'
      BY <2>1, <2>2, <3>1 DEF TypeOK, ListenTypeOK
    <3>4. LockRight'
      BY <2>1, <2>2, <2>3, <3>1, <3>2, <3>3 DEF At
    <3>5. Shape' /\ OwnerAtWork'
      BY <2>1, <2>2, <3>1, <3>2, <2>4 DEF Shape, OwnerAtWork, At
    <3> QED BY <3>1, <3>4, <3>5 DEF Distinct, Elements
  <2>10. ASSUME Close(w) PROVE Inv'
    <3>1. /\ closed' = closed \cup {connfd[w]} /\ connfd' = [connfd EXCEPT ![w] = NoConn]
          /\ UNCHANGED <<backlog, arrived, aborted, owner, count, died>>
      BY <2>10 DEF Close
    <3>2. /\ Loop[pc[w]] = "close" /\ pc'[w] = 1 /\ Loop[pc'[w]] \in Waiting
          /\ Loop[1] = "lock" => Loop[pc'[w]] # "accept"
      BY <2>2, <2>10, <1>0, LoopSteps DEF Close, At
    <3>3. connfd \in [Workers -> Conns \cup {NoConn}] /\ connfd[w] \in Conns
      BY <3>2, <2>1, <2>2 DEF TypeOK, Shape
    <3>4. TypeOK'
      BY <2>1, <2>2, <3>1, <3>3 DEF TypeOK, ListenTypeOK
    <3>5. LockRight'
      BY <2>1, <2>2, <2>3, <3>1, <3>2, <3>4 DEF At
    <3>6. Shape' /\ OwnerAtWork'
      BY <2>1, <2>2, <3>1, <3>2, <3>3, <2>4 DEF Shape, OwnerAtWork, At
    <3> QED BY <3>1, <3>5, <3>6 DEF Distinct, Elements
  <2> QED BY <1>2, <2>5, <2>6, <2>7, <2>8, <2>9, <2>10 DEF Step
<1>3. ASSUME up, StopAll PROVE Inv'
  <2>1. /\ up' = FALSE /\ pc' = [w \in Workers |-> 0] /\ connfd' = [w \in Workers |-> NoConn]
        /\ died' = died \cup InHand
        /\ UNCHANGED <<backlog, arrived, aborted, server, owner, count, closed>>
    BY <1>3 DEF StopAll
  <2>2. InHand \subseteq Conns /\ Loop' = Loop
    BY <2>1 DEF InHand, TypeOK, Loop
  <2>3. TypeOK'
    <3>1. pc' \in [Workers -> 0 .. Len(Loop)]
      BY <2>1, <1>0
    <3>2. connfd' \in [Workers -> Conns \cup {NoConn}] /\ died' \subseteq Conns
      BY <2>1, <2>2 DEF TypeOK
    <3> QED BY <2>1, <2>2, <3>1, <3>2 DEF TypeOK, ListenTypeOK
  <2>4. LockRight'
    BY <2>1, <2>3 DEF At
  <2>5. Shape' /\ OwnerAtWork'
    BY <2>1 DEF Shape, OwnerAtWork
  <2> QED BY <2>1, <2>4, <2>5 DEF Distinct, Elements
<1>4. ASSUME NEW w \in Workers, Fail(w) PROVE Inv'
  <2>1. up /\ pc[w] # 0
    BY <1>4 DEF Fail, At, Shape
  <2>2. CASE OneProcess
    BY <1>3, <1>4, <2>1, <2>2 DEF Fail
  <2>3. CASE ~ OneProcess
    <3>1. /\ pc' = [pc EXCEPT ![w] = 0]
          /\ died' = died \cup ({connfd[w]} \ {NoConn})
          /\ connfd' = [connfd EXCEPT ![w] = NoConn]
          /\ owner' = OwnerAfter(w)
          /\ UNCHANGED <<backlog, arrived, aborted, server, count, closed, up>>
      BY <1>4, <2>3 DEF Fail
    <3>2. Loop' = Loop
      BY <3>1 DEF Loop
    <3>3. TypeOK'
      BY <3>1, <3>2, <1>0 DEF TypeOK, ListenTypeOK, OwnerAfter
    <3>4. pc \in [Workers -> 0 .. Len(Loop)] /\ connfd \in [Workers -> Conns \cup {NoConn}]
      BY DEF TypeOK
    <3>5. LockRight'
      BY <3>1, <3>2, <3>3, <3>4 DEF At, OwnerAfter
    <3>6. Shape' /\ OwnerAtWork'
      BY <3>1, <3>2, <3>4, <2>1 DEF Shape, OwnerAtWork, At, OwnerAfter
    <3> QED BY <3>1, <3>5, <3>6 DEF Distinct, Elements
  <2> QED BY <2>2, <2>3
<1>5. CASE SigInt
  BY <1>3, <1>5 DEF SigInt
<1>6. CASE UNCHANGED vars
  <2>1. UNCHANGED <<backlog, arrived, aborted, server, pc, connfd, owner, count, closed, died, up, Loop>>
    BY <1>6 DEF vars, Loop
  <2> QED BY <2>1 DEF TypeOK, ListenTypeOK, Shape, OwnerAtWork, At, Distinct, Elements
<1> QED BY <1>1, <1>2, <1>4, <1>5, <1>6 DEF Next

\* In every program the worker that calls accept() under a lock owns it, and only in
\* serv04 can the lock stay with a worker that has died.
THEOREM AcceptUnderLock == Spec => []LockRight
<1>1. Inv => LockRight
  BY DEF Inv
<1> QED BY <1>1, InvInit, InvNext, PTL DEF Spec

-----------------------------------------------------------------------------
(* Refinement of ConnDispatch.                                              *)

\* Every step is a step of ConnDispatch or leaves its variables alone: accept() is
\* Take, close() is Finish, the end of a process Die or Exit.
LEMMA DispatchNext == Inv /\ [Next]_vars => [Dispatch!Next]_(Dispatch!dispatchVars)
<1> SUFFICES ASSUME Inv, [Next]_vars
             PROVE  Dispatch!Next \/ UNCHANGED Dispatch!dispatchVars
  OBVIOUS
<1> USE ConnAssumption DEF listenVars, workVars, Inv, LockRight
<1>0. /\ \A w \in Workers : pc[w] # 0 => up
      /\ connfd \in [Workers -> Conns \cup {NoConn}]
  BY DEF Shape, TypeOK
<1>1. CASE Client
  <2>1. up /\ UNCHANGED <<connfd, closed, up>>
    BY <1>1 DEF Client
  <2>2. ASSUME NEW c \in Conns, ConnArrives(c) PROVE Dispatch!Arrive(c)
    BY <2>1, <2>2 DEF ConnArrives, Dispatch!Arrive
  <2>3. ASSUME NEW k \in DOMAIN backlog, ConnAborted(k) PROVE Dispatch!Abort(k)
    <3>1. DropAt(backlog, k) = [j \in 1 .. Len(backlog) - 1 |-> backlog[IF j < k THEN j ELSE j + 1]]
      BY DEF DropAt
    <3> QED BY <2>1, <2>3, <3>1 DEF ConnAborted, Dispatch!Abort
  <2> QED BY <1>1, <2>1, <2>2, <2>3 DEF Client, Dispatch!Next
<1>2. ASSUME NEW w \in Workers,
             Lock(w) \/ Unlock(w) \/ Select(w) \/ Count(w) \/ WebChildReturns(w)
      PROVE  UNCHANGED Dispatch!dispatchVars
  BY <1>2 DEF Lock, Unlock, Select, Count, WebChildReturns, Dispatch!dispatchVars
<1>3. ASSUME NEW w \in Workers, AcceptStep(w) PROVE Dispatch!Take(w)
  <2>1. up /\ connfd[w] = NoConn
    BY <1>3 DEF AcceptStep, At, Shape, Waiting
  <2>2. /\ backlog # <<>> /\ backlog' = Tail(backlog)
        /\ connfd' = [connfd EXCEPT ![w] = Head(backlog)]
        /\ UNCHANGED <<arrived, aborted, closed, up>>
    BY <1>3 DEF AcceptStep, AcceptReturns, SetConnfd
  <2> QED BY <2>1, <2>2 DEF Dispatch!Take
<1>4. ASSUME NEW w \in Workers, Close(w) PROVE Dispatch!Finish(w)
  <2>1. connfd[w] # NoConn
    BY <1>4 DEF Close, At, Shape, Waiting
  <2> QED BY <1>4, <2>1 DEF Close, Dispatch!Finish
<1>5. ASSUME up, StopAll PROVE Dispatch!Exit
  <2>1. connfd' = [w \in Workers |-> IF w \in Workers THEN NoConn ELSE connfd[w]]
    BY <1>5 DEF StopAll
  <2> QED BY <1>5, <2>1 DEF StopAll, Dispatch!Exit
<1>6. ASSUME NEW w \in Workers, Fail(w)
      PROVE  Dispatch!Exit \/ Dispatch!Die(w) \/ UNCHANGED Dispatch!dispatchVars
  <2>1. up
    BY <1>6, <1>0 DEF Fail, At
  <2>2. CASE OneProcess
    BY <1>5, <1>6, <2>1, <2>2 DEF Fail
  <2>3. CASE ~ OneProcess
    <3>1. /\ connfd' = [connfd EXCEPT ![w] = NoConn]
          /\ UNCHANGED <<backlog, arrived, aborted, closed, up>>
      BY <1>6, <2>3 DEF Fail
    <3>2. CASE connfd[w] = NoConn
      <4>1. connfd' = connfd
        BY <1>0, <3>1, <3>2
      <4> QED BY <3>1, <4>1 DEF Dispatch!dispatchVars
    <3>3. CASE connfd[w] # NoConn
      BY <3>1, <3>3 DEF Dispatch!Die
    <3> QED BY <3>2, <3>3
  <2> QED BY <2>2, <2>3
<1>7. CASE SigInt
  BY <1>5, <1>7 DEF SigInt, Dispatch!Next
<1>8. CASE UNCHANGED vars
  BY <1>8 DEF vars, Dispatch!dispatchVars
<1> QED BY <1>1, <1>2, <1>3, <1>4, <1>6, <1>7, <1>8 DEF Next, Step, Dispatch!Next

\* serv00, serv02-04, serv07 and serv09 all keep the promise of ConnDispatch: the
\* connections are served in order of arrival, each by one worker, none lost.
THEOREM PoolDispatches == Spec => ImplementsDispatch
<1>1. Init => Dispatch!Init
  BY DEF Init, ListenInit, Dispatch!Init
<1>2. Spec => []Inv
  BY InvInit, InvNext, PTL DEF Spec
<1> QED BY <1>1, <1>2, DispatchNext, PTL DEF Spec, ImplementsDispatch, Dispatch!Spec
=============================================================================
