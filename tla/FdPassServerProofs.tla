------------------------- MODULE FdPassServerProofs -------------------------
(***************************************************************************)
(* FdPassServer for any number of children and connections: the parent's    *)
(* belief about its children is true, and serv05 implements ConnDispatch.   *)
(***************************************************************************)
EXTENDS FdPassServer, ListenQueueProofs, FiniteSetTheorems

-----------------------------------------------------------------------------
(* The inductive invariant.                                                 *)

Free == {i \in Children : child_status[i] = 0}

\* A child has a connection in hand exactly while it serves it, and a descriptor waits
\* for a child that is alive only while that child is in read_fd(), at most one of them
\* (child05.c:41-48).
Hands ==
    \A i \in Children :
        /\ cconn[i] # NoConn <=> cpc[i] \in {"child", "close"}
        /\ Alive(i) => toChild[i] = <<>> \/ (cpc[i] = "read" /\ Len(toChild[i]) = 1)

\* navail is the number of children whose status is 0 as long as no child has died;
\* afterwards it may only be too large, because every byte of a dying child's message
\* counts as a child that is ready (serv05.c:62,76).
Counted ==
    /\ navail >= Cardinality(Free)
    /\ up /\ Dead = {} => navail = Cardinality(Free)
    /\ mpc = "accept" => navail > 0

Inv == /\ BeliefTrue /\ Hands /\ Counted
       /\ Distinct(backlog) /\ Elements(backlog) \subseteq arrived

\* The children are finitely many, and marking one busy or ready changes the number of
\* those that are free by one.
LEMMA FreeCount ==
    ASSUME NEW A, NEW B, A \subseteq Children, B \subseteq Children
    PROVE  /\ Cardinality(A) \in Nat
           /\ Cardinality(A) = 0 <=> A = {}
           /\ \A i \in Children \ A : B = A \cup {i} => Cardinality(B) = Cardinality(A) + 1
           /\ \A i \in A : B = A \ {i} => Cardinality(B) = Cardinality(A) - 1
<1>1. IsFiniteSet(Children)
  BY FdPassAssumption, FS_Interval DEF Children
<1>2. IsFiniteSet(A) /\ IsFiniteSet(B)
  BY <1>1, FS_Subset
<1>3. Cardinality(A) \in Nat
  BY <1>2, FS_CardinalityType
<1>4. Cardinality(A) = 0 <=> A = {}
  BY <1>2, FS_EmptySet
<1>5. \A i \in Children \ A : B = A \cup {i} => Cardinality(B) = Cardinality(A) + 1
  BY <1>2, FS_AddElement
<1>6. \A i \in A : B = A \ {i} => Cardinality(B) = Cardinality(A) - 1
  BY <1>2, FS_RemoveElement
<1> QED BY <1>3, <1>4, <1>5, <1>6

\* A pipe with one descriptor in it is empty when that one has been read.
LEMMA OneElement ==
    ASSUME NEW S, NEW s \in Seq(S), Len(s) = 1
    PROVE  s # <<>> /\ Head(s) \in S /\ Tail(s) = <<>>
<1>1. s # <<>> /\ Head(s) \in S /\ Tail(s) \in Seq(S) /\ Len(Tail(s)) = 0
  OBVIOUS
<1>2. \A t \in Seq(S) : Len(t) = 0 => t = <<>>
  OBVIOUS
<1> QED BY <1>1, <1>2

\* The children have been forked and all are free.
LEMMA InvInit == Init => Inv
<1> SUFFICES ASSUME Init PROVE Inv
  OBVIOUS
<1> USE FdPassAssumption DEF Init, ListenInit
<1>1. BeliefTrue
  <2>1. TypeOK
    <3>1. /\ toChild \in [Children -> Seq(Conns)] /\ child_count \in [Children -> Nat]
          /\ bytes \in [Children -> Nat] /\ child_status \in [Children -> {0, 1}]
      OBVIOUS
    <3>2. /\ cpc \in [Children -> {"read", "child", "close", "ready", "dead"}]
          /\ cconn \in [Children -> Conns \cup {NoConn}] /\ navail \in Nat
      OBVIOUS
    <3>3. ListenTypeOK /\ exitBy \in Reasons
      BY DEF ListenTypeOK, Reasons
    <3>4. /\ mpc \in {"select", "accept", "scan"} /\ lset \in BOOLEAN /\ rset \subseteq Children
          /\ closed \subseteq Conns /\ died \subseteq Conns /\ up \in BOOLEAN
      OBVIOUS
    <3> QED BY <3>1, <3>2, <3>3, <3>4 DEF TypeOK
  <2>2. \A i \in Children : child_status[i] = Outstanding(i)
    BY DEF Outstanding
  <2> QED BY <2>1, <2>2 DEF BeliefTrue
<1>2. Hands
  BY DEF Hands
<1>3. Counted
  <2>1. Free = Children
    BY DEF Free
  <2>2. Cardinality(Children) = NChildren
    BY FS_Interval DEF Children
  <2> QED BY <2>1, <2>2 DEF Counted
<1>4. Distinct(backlog) /\ Elements(backlog) \subseteq arrived
  BY DEF Distinct, Elements
<1> QED BY <1>1, <1>2, <1>3, <1>4 DEF Inv

\* What a step of child i may do: change its own state and pipe only, and keep the sum of
\* what is under way to it and from it.
ChildOnly(i) ==
    /\ UNCHANGED <<backlog, arrived, aborted, child_status, child_count, navail, mpc, lset,
                   rset, up, exitBy>>
    /\ toChild' \in [Children -> Seq(Conns)] /\ bytes' \in [Children -> Nat]
    /\ cpc' \in [Children -> {"read", "child", "close", "ready", "dead"}]
    /\ cconn' \in [Children -> Conns \cup {NoConn}]
    /\ closed' \subseteq Conns /\ died' \subseteq Conns
    /\ \A j \in Children \ {i} : /\ toChild'[j] = toChild[j] /\ bytes'[j] = bytes[j]
                                 /\ cpc'[j] = cpc[j] /\ cconn'[j] = cconn[j]
    /\ cconn'[i] # NoConn <=> cpc'[i] \in {"child", "close"}
    /\ cpc'[i] # "dead" =>
         /\ toChild'[i] = <<>> \/ (cpc'[i] = "read" /\ Len(toChild'[i]) = 1)
         /\ Outstanding(i)' = Outstanding(i)

\* Such a step keeps the invariant.
LEMMA ChildKeeps ==
    ASSUME Inv, NEW i \in Children, Alive(i), ChildOnly(i)
    PROVE  Inv'
<1> USE DEF ChildOnly
<1>1. TypeOK'
  BY DEF Inv, BeliefTrue, TypeOK, ListenTypeOK
<1>2. \A j \in Children \ {i} : Outstanding(j)' = Outstanding(j) /\ (Alive(j)' <=> Alive(j))
  BY DEF Outstanding, Alive
<1>3. Dead \subseteq Dead'
  BY <1>2 DEF Dead
<1>4. BeliefTrue'
  <2>1. up' => \A j \in Children : Alive(j)' => child_status'[j] = Outstanding(j)'
    BY <1>2 DEF Inv, BeliefTrue, Alive
  <2> QED BY <1>1, <1>3, <2>1 DEF Inv, BeliefTrue
<1>5. Hands'
  BY <1>2 DEF Inv, Hands, Alive
<1>6. Counted'
  <2>1. Free' = Free
    BY DEF Free
  <2> QED BY <1>3, <2>1 DEF Inv, Counted
<1> QED BY <1>4, <1>5, <1>6 DEF Inv, Distinct, Elements

\* When the parent exits, no variable but up and exitBy changes, save the connection that
\* accept() just returned.
LEMMA ExitKeeps ==
    ASSUME Inv, NEW why \in Reasons, ParentExits(why),
           ListenTypeOK' /\ Distinct(backlog)' /\ (Elements(backlog) \subseteq arrived)',
           why = "noavail" => Dead # {}
    PROVE  Inv'
<1> USE DEF ParentExits, parentVars, pipeVars, childVars
<1>1. TypeOK'
  BY DEF Inv, BeliefTrue, TypeOK
<1>2. Dead' = Dead /\ Free' = Free
  BY DEF Dead, Free, Alive
<1>3. BeliefTrue'
  BY <1>1, <1>2 DEF BeliefTrue
<1>4. Hands' /\ Counted'
  BY <1>2 DEF Inv, Hands, Counted, Alive
<1> QED BY <1>3, <1>4 DEF Inv

\* Every step keeps the invariant.
LEMMA InvNext == Inv /\ [Next]_vars => Inv'
<1> SUFFICES ASSUME Inv, [Next]_vars PROVE Inv'
  OBVIOUS
<1> USE FdPassAssumption, ConnAssumption
<1> USE DEF listenVars, parentVars, pipeVars, childVars, procVars
<1>0. /\ TypeOK /\ Hands /\ Counted
      /\ Distinct(backlog) /\ Elements(backlog) \subseteq arrived
      /\ up => \A i \in Children : Alive(i) => child_status[i] = Outstanding(i)
      /\ Cardinality(Free) \in Nat /\ Free \subseteq Children
  BY FreeCount DEF Inv, BeliefTrue, Free
<1>1. CASE Client
  <2>1. ListenTypeOK' /\ Distinct(backlog)' /\ (Elements(backlog) \subseteq arrived)'
    BY <1>0, <1>1, ListenStep DEF Client, TypeOK
  <2>2. UNCHANGED <<child_status, child_count, navail, mpc, lset, rset, toChild, bytes, cpc,
                    cconn, closed, died, up, exitBy>>
    BY <1>1 DEF Client
  <2> QED BY <2>1, <2>2 DEF Inv, BeliefTrue, TypeOK, Hands, Counted, Outstanding, Alive, Dead, Free
<1>2. CASE ParentSelect
  <2>1. UNCHANGED <<backlog, arrived, aborted, child_status, child_count, navail, toChild, bytes,
                    cpc, cconn, closed, died, up, exitBy>>
    BY <1>2 DEF ParentSelect
  <2>2. /\ lset' \in BOOLEAN /\ rset' \subseteq Children /\ mpc' \in {"accept", "scan"}
        /\ mpc' = "accept" => navail > 0
    BY <1>2 DEF ParentSelect
  <2>3. TypeOK'
    BY <1>0, <2>1, <2>2 DEF TypeOK, ListenTypeOK
  <2>4. BeliefTrue' /\ Hands'
    BY <2>1, <2>3 DEF Inv, BeliefTrue, Hands, Outstanding, Alive, Dead
  <2>5. Counted'
    BY <1>0, <2>1, <2>2 DEF Counted, Dead, Alive, Free
  <2> QED BY <2>1, <2>4, <2>5, <1>0 DEF Inv, Distinct, Elements
<1>3. CASE ParentAccept
  <2>1. PICK c \in Conns :
          /\ AcceptReturns(c)
          /\ \/ Free = {} /\ ParentExits("noavail")
             \/ \E i \in Free :
                  /\ \A j \in Free : i <= j
                  /\ IF Alive(i)
                     THEN /\ MarkBusy(i)
                          /\ child_count' = [child_count EXCEPT ![i] = @ + 1]
                          /\ TakeOne
                          /\ PassTo(i, c)
                          /\ mpc' = IF rset = {} THEN "select" ELSE "scan"
                          /\ UNCHANGED <<lset, rset, bytes, childVars, procVars>>
                     ELSE ParentExits("sigpipe")
    BY <1>3 DEF ParentAccept, Free
  <2>2. up /\ mpc = "accept" /\ navail > 0
    BY <1>0, <1>3 DEF ParentAccept, Counted
  <2>3. ListenTypeOK' /\ Distinct(backlog)' /\ (Elements(backlog) \subseteq arrived)'
    BY <1>0, <2>1, ListenStep DEF TypeOK
  <2>4. ASSUME Free = {}, ParentExits("noavail") PROVE Inv'
    <3>1. Cardinality(Free) = 0
      BY <2>4, FreeCount
    <3>2. Dead # {}
      BY <1>0, <2>2, <3>1 DEF Counted
    <3> QED BY <2>3, <2>4, <3>2, ExitKeeps DEF Reasons
  <2>5. ASSUME ParentExits("sigpipe") PROVE Inv'
    BY <2>3, <2>5, ExitKeeps DEF Reasons
  <2>6. ASSUME NEW i \in Free, Alive(i), MarkBusy(i), TakeOne, PassTo(i, c),
               child_count' = [child_count EXCEPT ![i] = @ + 1],
               mpc' = IF rset = {} THEN "select" ELSE "scan",
               UNCHANGED <<lset, rset, bytes, childVars, procVars>>
        PROVE  Inv'
    <3>1. /\ i \in Children /\ child_status' = [child_status EXCEPT ![i] = 1]
          /\ navail' = navail - 1 /\ toChild' = [toChild EXCEPT ![i] = Append(@, c)]
          /\ UNCHANGED <<lset, rset, bytes, cpc, cconn, closed, died, up, exitBy>>
      BY <2>6 DEF Free, MarkBusy, TakeOne, PassTo
    <3>2. child_status[i] = 0 /\ child_status[i] = Outstanding(i)
      BY <1>0, <2>2, <2>6 DEF Free
    <3>3. Len(toChild[i]) = 0 /\ bytes[i] = 0 /\ cpc[i] = "read" /\ toChild[i] = <<>>
      <4>1. toChild[i] \in Seq(Conns) /\ bytes[i] \in Nat
        BY <1>0, <3>1 DEF TypeOK
      <4> QED BY <3>2, <4>1 DEF Outstanding
    <3>4. toChild' \in [Children -> Seq(Conns)] /\ toChild'[i] = <<c>>
          /\ \A j \in Children \ {i} : toChild'[j] = toChild[j]
      <4>1. toChild \in [Children -> Seq(Conns)] /\ Append(toChild[i], c) = <<c>> /\ <<c>> \in Seq(Conns)
        BY <1>0, <3>3 DEF TypeOK
      <4> QED BY <3>1, <4>1
    <3>5. TypeOK'
      <4>1. /\ child_status' \in [Children -> {0, 1}] /\ child_count' \in [Children -> Nat]
            /\ navail' \in Nat /\ mpc' \in {"select", "accept", "scan"}
        BY <1>0, <2>2, <2>6, <3>1 DEF TypeOK
      <4> QED BY <1>0, <2>3, <3>1, <3>4, <4>1 DEF TypeOK
    <3>6. \A j \in Children : Alive(j)' => child_status'[j] = Outstanding(j)'
      <4>1. Outstanding(i)' = 1 /\ child_status'[i] = 1
        BY <1>0, <3>1, <3>3, <3>4 DEF Outstanding, TypeOK
      <4>2. \A j \in Children \ {i} : /\ Outstanding(j)' = Outstanding(j)
                                      /\ child_status'[j] = child_status[j] /\ (Alive(j)' <=> Alive(j))
        BY <1>0, <3>1, <3>4 DEF Outstanding, Alive, TypeOK
      <4> QED BY <1>0, <2>2, <4>1, <4>2
    <3>7. Dead' = Dead
      BY <3>1 DEF Dead, Alive
    <3>8. BeliefTrue'
      BY <3>1, <3>5, <3>6, <3>7 DEF BeliefTrue, Inv
    <3>9. Hands'
      <4>1. toChild'[i] = <<c>> /\ Len(<<c>>) = 1
        BY <3>4
      <4> QED BY <1>0, <3>1, <3>3, <3>4, <4>1 DEF Hands, Alive
    <3>10. Counted'
      <4>1. Free' = Free \ {i}
        BY <1>0, <3>1 DEF Free, TypeOK
      <4>2. Cardinality(Free') = Cardinality(Free) - 1
        BY <1>0, <2>6, <4>1, FreeCount
      <4>3. mpc' # "accept" /\ navail \in Nat
        BY <1>0, <2>6 DEF TypeOK
      <4> QED BY <1>0, <3>1, <3>7, <4>2, <4>3 DEF Counted
    <3> QED BY <2>3, <3>8, <3>9, <3>10 DEF Inv
  <2> QED BY <2>1, <2>4, <2>5, <2>6
<1>4. CASE ParentAcceptFails
  <2>1. ParentExits("accept") /\ UNCHANGED <<backlog, arrived, aborted>>
    BY <1>4 DEF ParentAcceptFails
  <2>2. ListenTypeOK' /\ Distinct(backlog)' /\ (Elements(backlog) \subseteq arrived)'
    BY <1>0, <2>1 DEF TypeOK, ListenTypeOK, Distinct, Elements
  <2> QED BY <2>1, <2>2, ExitKeeps DEF Reasons
<1>5. CASE ParentRead
  <2>1. PICK i \in rset :
          IF bytes[i] > 0
          THEN /\ bytes' = [bytes EXCEPT ![i] = @ - 1]
               /\ child_status' = [child_status EXCEPT ![i] = 0]
               /\ GiveOne
               /\ rset' = rset \ {i}
               /\ mpc' = IF rset' = {} THEN "select" ELSE "scan"
               /\ UNCHANGED <<child_count, lset, toChild, childVars, procVars>>
          ELSE ParentExits("eof")
    BY <1>5 DEF ParentRead
  <2>2. up /\ mpc = "scan" /\ i \in Children /\ UNCHANGED <<backlog, arrived, aborted>>
    BY <1>0, <1>5 DEF ParentRead, TypeOK
  <2>3. ListenTypeOK' /\ Distinct(backlog)' /\ (Elements(backlog) \subseteq arrived)'
    BY <1>0, <2>2 DEF TypeOK, ListenTypeOK, Distinct, Elements
  <2>4. CASE ~(bytes[i] > 0)
    BY <2>1, <2>3, <2>4, ExitKeeps DEF Reasons
  <2>5. CASE bytes[i] > 0
    <3>1. /\ bytes' = [bytes EXCEPT ![i] = @ - 1] /\ child_status' = [child_status EXCEPT ![i] = 0]
          /\ navail' = navail + 1 /\ rset' = rset \ {i} /\ mpc' \in {"select", "scan"}
          /\ UNCHANGED <<child_count, lset, toChild, cpc, cconn, closed, died, up, exitBy>>
      BY <2>1, <2>5 DEF GiveOne
    <3>2. TypeOK'
      <4>1. /\ bytes' \in [Children -> Nat] /\ child_status' \in [Children -> {0, 1}]
            /\ navail' \in Nat /\ rset' \subseteq Children
        BY <1>0, <2>5, <3>1 DEF TypeOK
      <4> QED BY <1>0, <2>3, <3>1, <4>1 DEF TypeOK
    \* A byte from a child that is alive is its only outstanding thing.
    <3>3. Alive(i) => child_status[i] = 1 /\ Outstanding(i)' = 0
      <4>1. /\ toChild[i] \in Seq(Conns) /\ Len(toChild[i]) \in Nat /\ bytes[i] \in Nat
            /\ child_status[i] \in {0, 1}
        BY <1>0, <2>2 DEF TypeOK
      <4>2. bytes'[i] = bytes[i] - 1 /\ toChild' = toChild /\ cpc' = cpc
        BY <1>0, <2>2, <3>1 DEF TypeOK
      <4>3. Alive(i) => child_status[i] = Len(toChild[i]) + bytes[i] + (IF cpc[i] = "read" THEN 0 ELSE 1)
        BY <1>0, <2>2 DEF Outstanding
      <4> QED BY <2>5, <4>1, <4>2, <4>3 DEF Outstanding
    <3>4. \A j \in Children : Alive(j)' => child_status'[j] = Outstanding(j)'
      <4>1. \A j \in Children \ {i} : /\ Outstanding(j)' = Outstanding(j)
                                      /\ child_status'[j] = child_status[j] /\ (Alive(j)' <=> Alive(j))
        BY <1>0, <3>1 DEF Outstanding, Alive, TypeOK
      <4>2. child_status'[i] = 0 /\ (Alive(i)' <=> Alive(i))
        BY <1>0, <2>2, <3>1 DEF Alive, TypeOK
      <4> QED BY <1>0, <2>2, <3>3, <4>1, <4>2
    <3>5. Dead' = Dead
      BY <3>1 DEF Dead, Alive
    <3>6. BeliefTrue'
      BY <3>1, <3>2, <3>4, <3>5 DEF BeliefTrue, Inv
    <3>7. Hands'
      BY <1>0, <3>1 DEF Hands, Alive
    <3>8. Counted'
      <4>1. Free' = Free \cup {i} /\ navail \in Nat
        BY <1>0, <2>2, <3>1 DEF Free, TypeOK
      <4>2. CASE i \in Free
        <5>1. Dead # {}
          BY <2>2, <3>3, <4>2 DEF Dead, Free
        <5>2. Free' = Free
          BY <4>1, <4>2
        <5> QED BY <1>0, <3>1, <3>5, <4>1, <5>1, <5>2 DEF Counted
      <4>3. CASE i \notin Free
        <5>1. Cardinality(Free') = Cardinality(Free) + 1
          BY <1>0, <2>2, <4>1, <4>3, FreeCount
        <5> QED BY <1>0, <3>1, <3>5, <4>1, <5>1 DEF Counted
      <4> QED BY <4>2, <4>3
    <3> QED BY <2>3, <3>6, <3>7, <3>8 DEF Inv
  <2> QED BY <2>4, <2>5
<1>6. CASE SigInt
  <2>1. /\ up' = FALSE /\ exitBy' = "sigint" /\ cpc' = [i \in Children |-> "dead"]
        /\ cconn' = [i \in Children |-> NoConn]
        /\ died' = died \cup ({cconn[i] : i \in Children} \ {NoConn})
        /\ UNCHANGED <<backlog, arrived, aborted, child_status, child_count, navail, mpc, lset,
                       rset, toChild, bytes, closed>>
    BY <1>6 DEF SigInt
  <2>2. TypeOK'
    <3>1. cpc' \in [Children -> {"read", "child", "close", "ready", "dead"}]
      BY <2>1
    <3>2. died' \subseteq Conns /\ cconn' \in [Children -> Conns \cup {NoConn}]
      BY <1>0, <2>1 DEF TypeOK
    <3> QED BY <1>0, <2>1, <3>1, <3>2 DEF TypeOK, ListenTypeOK, Reasons
  <2>3. BeliefTrue' /\ Hands'
    BY <2>1, <2>2 DEF BeliefTrue, Hands, Alive
  <2>4. Counted'
    BY <1>0, <2>1 DEF Counted, Free
  <2> QED BY <1>0, <2>1, <2>3, <2>4 DEF Inv, Distinct, Elements
<1> USE DEF ChildGoto
<1>7. /\ toChild \in [Children -> Seq(Conns)] /\ bytes \in [Children -> Nat]
      /\ cpc \in [Children -> {"read", "child", "close", "ready", "dead"}]
      /\ cconn \in [Children -> Conns \cup {NoConn}]
      /\ closed \subseteq Conns /\ died \subseteq Conns
  BY <1>0 DEF TypeOK
<1>8. ASSUME NEW i \in Children, ChildReadFd(i) PROVE Inv'
  <2>1. /\ cpc[i] = "read" /\ toChild[i] # <<>>
        /\ cconn' = [cconn EXCEPT ![i] = Head(toChild[i])]
        /\ toChild' = [toChild EXCEPT ![i] = Tail(@)] /\ cpc' = [cpc EXCEPT ![i] = "child"]
    BY <1>8 DEF ChildReadFd
  <2>2. UNCHANGED <<backlog, arrived, aborted, child_status, child_count, navail, mpc, lset, rset,
                    bytes, closed, died, up, exitBy>>
    BY <1>8 DEF ChildReadFd
  <2>3. Len(toChild[i]) = 1 /\ toChild[i] \in Seq(Conns)
    BY <1>0, <1>7, <2>1 DEF Hands, Alive
  <2>4. Head(toChild[i]) \in Conns /\ Tail(toChild[i]) = <<>> /\ <<>> \in Seq(Conns)
    BY <2>3, OneElement
  <2>5. /\ toChild' \in [Children -> Seq(Conns)] /\ toChild'[i] = <<>> /\ Len(toChild'[i]) = 0
        /\ cconn' \in [Children -> Conns \cup {NoConn}] /\ cconn'[i] \in Conns
        /\ cpc' \in [Children -> {"read", "child", "close", "ready", "dead"}] /\ cpc'[i] = "child"
        /\ \A j \in Children \ {i} : toChild'[j] = toChild[j] /\ cpc'[j] = cpc[j] /\ cconn'[j] = cconn[j]
    <3>1. /\ toChild' \in [Children -> Seq(Conns)] /\ toChild'[i] = <<>>
          /\ \A j \in Children \ {i} : toChild'[j] = toChild[j]
      BY <1>7, <2>1, <2>4
    <3>2. Len(toChild'[i]) = 0
      BY <3>1
    <3> QED BY <1>7, <2>1, <2>4, <3>1, <3>2
  <2>6. Outstanding(i)' = Outstanding(i)
    <3>1. bytes'[i] = bytes[i] /\ bytes[i] \in Nat
      BY <1>7, <2>2
    <3>2. Outstanding(i) = 1 + bytes[i] /\ Outstanding(i)' = 0 + bytes[i] + 1
      BY <2>1, <2>3, <2>5, <3>1 DEF Outstanding
    <3> QED BY <3>1, <3>2
  <2>7. ChildOnly(i)
    BY <1>7, <2>2, <2>5, <2>6 DEF ChildOnly
  <2> QED BY <2>1, <2>7, ChildKeeps DEF Alive
<1>9. ASSUME NEW i \in Children, ChildReadEOF(i) PROVE Inv'
  <2>1. /\ cpc[i] = "read" /\ cpc' = [cpc EXCEPT ![i] = "dead"]
        /\ UNCHANGED <<backlog, arrived, aborted, child_status, child_count, navail, mpc, lset, rset,
                       toChild, bytes, cconn, closed, died, up, exitBy>>
    BY <1>9 DEF ChildReadEOF
  <2>2. ChildOnly(i)
    BY <1>0, <1>7, <2>1 DEF ChildOnly, Hands
  <2> QED BY <2>1, <2>2, ChildKeeps DEF Alive
<1>10. ASSUME NEW i \in Children, WebChildReturns(i) PROVE Inv'
  <2>1. /\ cpc[i] = "child" /\ cpc' = [cpc EXCEPT ![i] = "close"]
        /\ UNCHANGED <<backlog, arrived, aborted, child_status, child_count, navail, mpc, lset, rset,
                       toChild, bytes, cconn, closed, died, up, exitBy>>
    BY <1>10 DEF WebChildReturns
  <2>2. /\ cpc' \in [Children -> {"read", "child", "close", "ready", "dead"}] /\ cpc'[i] = "close"
        /\ \A j \in Children \ {i} : cpc'[j] = cpc[j]
    BY <1>7, <2>1
  <2>3. Outstanding(i)' = Outstanding(i)
    BY <2>1, <2>2 DEF Outstanding
  <2>4. toChild[i] = <<>> /\ cconn[i] # NoConn
    BY <1>0, <2>1 DEF Hands, Alive
  <2>5. ChildOnly(i)
    BY <1>7, <2>1, <2>2, <2>3, <2>4 DEF ChildOnly
  <2> QED BY <2>1, <2>5, ChildKeeps DEF Alive
<1>11. ASSUME NEW i \in Children, WebChildQuits(i) PROVE Inv'
  <2>1. /\ cpc[i] = "child" /\ cpc' = [cpc EXCEPT ![i] = "dead"]
        /\ bytes' = [bytes EXCEPT ![i] = IF PeerOpen(i) THEN @ + MsgLen ELSE @]
        /\ died' = died \cup {cconn[i]} /\ cconn' = [cconn EXCEPT ![i] = NoConn]
    BY <1>11 DEF WebChildQuits
  <2>2. UNCHANGED <<backlog, arrived, aborted, child_status, child_count, navail, mpc, lset, rset,
                    toChild, closed, up, exitBy>>
    BY <1>11 DEF WebChildQuits
  <2>3. cconn[i] \in Conns
    BY <1>0, <1>7, <2>1 DEF Hands
  <2>4. bytes' \in [Children -> Nat] /\ \A j \in Children \ {i} : bytes'[j] = bytes[j]
    BY <1>7, <2>1
  <2>5. ChildOnly(i)
    BY <1>7, <2>1, <2>2, <2>3, <2>4 DEF ChildOnly
  <2> QED BY <2>1, <2>5, ChildKeeps DEF Alive
<1>12. ASSUME NEW i \in Children, ChildClose(i) PROVE Inv'
  <2>1. /\ cpc[i] = "close" /\ cpc' = [cpc EXCEPT ![i] = "ready"]
        /\ closed' = closed \cup {cconn[i]} /\ cconn' = [cconn EXCEPT ![i] = NoConn]
        /\ UNCHANGED <<backlog, arrived, aborted, child_status, child_count, navail, mpc, lset, rset,
                       toChild, bytes, died, up, exitBy>>
    BY <1>12 DEF ChildClose
  <2>2. /\ cpc' \in [Children -> {"read", "child", "close", "ready", "dead"}] /\ cpc'[i] = "ready"
        /\ \A j \in Children \ {i} : cpc'[j] = cpc[j]
    BY <1>7, <2>1
  <2>3. Outstanding(i)' = Outstanding(i)
    BY <2>1, <2>2 DEF Outstanding
  <2>4. toChild[i] = <<>> /\ cconn[i] \in Conns
    BY <1>0, <1>7, <2>1 DEF Hands, Alive
  <2>5. ChildOnly(i)
    BY <1>7, <2>1, <2>2, <2>3, <2>4 DEF ChildOnly
  <2> QED BY <2>1, <2>5, ChildKeeps DEF Alive
<1>13. ASSUME NEW i \in Children, ChildReady(i) PROVE Inv'
  <2>1. /\ cpc[i] = "ready" /\ toChild[i] = <<>> /\ cconn[i] = NoConn
        /\ UNCHANGED <<backlog, arrived, aborted, child_status, child_count, navail, mpc, lset, rset,
                       toChild, cconn, closed, died, up, exitBy>>
    BY <1>0, <1>13 DEF ChildReady, Hands, Alive
  <2>2. CASE PeerOpen(i)
    <3>1. bytes' = [bytes EXCEPT ![i] = @ + 1] /\ cpc' = [cpc EXCEPT ![i] = "read"]
      BY <1>13, <2>2 DEF ChildReady
    <3>2. /\ bytes' \in [Children -> Nat] /\ bytes'[i] = bytes[i] + 1 /\ bytes[i] \in Nat
          /\ cpc' \in [Children -> {"read", "child", "close", "ready", "dead"}] /\ cpc'[i] = "read"
          /\ \A j \in Children \ {i} : cpc'[j] = cpc[j] /\ bytes'[j] = bytes[j]
      BY <1>7, <3>1
    <3>3. Outstanding(i)' = Outstanding(i)
      <4>1. Len(toChild[i]) = 0 /\ toChild' = toChild
        BY <2>1
      <4> QED BY <2>1, <3>2, <4>1 DEF Outstanding
    <3>4. ChildOnly(i)
      BY <1>7, <2>1, <3>2, <3>3 DEF ChildOnly
    <3> QED BY <2>1, <3>4, ChildKeeps DEF Alive
  <2>3. CASE ~PeerOpen(i)
    <3>1. UNCHANGED bytes /\ cpc' = [cpc EXCEPT ![i] = "dead"]
      BY <1>13, <2>3 DEF ChildReady
    <3>2. ChildOnly(i)
      BY <1>7, <2>1, <3>1 DEF ChildOnly
    <3> QED BY <2>1, <3>2, ChildKeeps DEF Alive
  <2> QED BY <2>2, <2>3
<1>14. CASE UNCHANGED vars
  BY <1>0, <1>14 DEF vars, Inv, BeliefTrue, TypeOK, ListenTypeOK, Hands, Counted, Outstanding,
                     Alive, Dead, Free, Distinct, Elements
<1> QED BY <1>1, <1>2, <1>3, <1>4, <1>5, <1>6, <1>8, <1>9, <1>10, <1>11, <1>12, <1>13, <1>14
        DEF Next, ParentStep, ChildStep

\* What the parent of serv05 believes of its children is true, and "no available children"
\* is never its end unless a child died first.
THEOREM ParentBelievesTruth == Spec => []BeliefTrue
<1>1. Inv => BeliefTrue
  BY DEF Inv
<1> QED BY <1>1, InvInit, InvNext, PTL DEF Spec

-----------------------------------------------------------------------------
(* Refinement of ConnDispatch.                                              *)

\* The connection child i is to process: the one on its way, or the one it has.
Serving(i) == IF toChild[i] # <<>> /\ Alive(i) THEN Head(toChild[i]) ELSE cconn[i]
Served == [i \in Children |-> IF toChild[i] # <<>> /\ Alive(i) THEN Head(toChild[i])
                             ELSE cconn[i]]

\* Every step is a step of ConnDispatch or leaves its variables alone: a child has a
\* connection from the parent's Write_fd() on, and reading the descriptor, the byte that
\* says "ready" and the parent's counts are invisible.
LEMMA DispatchNext == Inv /\ [Next]_vars => [Dispatch!Next]_(Dispatch!dispatchVars)
<1> SUFFICES ASSUME Inv, [Next]_vars
             PROVE  Dispatch!Next \/ UNCHANGED Dispatch!dispatchVars
  OBVIOUS
<1> USE ConnAssumption DEF listenVars, parentVars, pipeVars, childVars, procVars, ChildGoto
<1>0. /\ Hands /\ toChild \in [Children -> Seq(Conns)]
      /\ cpc \in [Children -> {"read", "child", "close", "ready", "dead"}]
      /\ cconn \in [Children -> Conns \cup {NoConn}]
      /\ up => \A i \in Children : Alive(i) => child_status[i] = Outstanding(i)
  BY DEF Inv, BeliefTrue, TypeOK
<1>1. ASSUME UNCHANGED <<backlog, arrived, aborted, toChild, cpc, cconn, closed, up>>
      PROVE  UNCHANGED Dispatch!dispatchVars
  BY <1>1 DEF Dispatch!dispatchVars, Alive
\* A step that changes the connection of child i only.
<1>2. ASSUME NEW i \in Children, NEW c,
             \A j \in Children \ {i} : Serving(j)' = Serving(j), Serving(i)' = c
      PROVE  Served' = [Served EXCEPT ![i] = c]
  BY <1>2 DEF Served, Serving
<1>3. ASSUME \A j \in Children : Serving(j)' = Serving(j) PROVE Served' = Served
  BY <1>3 DEF Served, Serving
<1>4. \A i \in Children : Served[i] = Serving(i)
  BY DEF Served, Serving
<1>5. CASE Client
  <2>1. up /\ UNCHANGED <<toChild, cpc, cconn, closed, up>>
    BY <1>5 DEF Client
  <2>2. Served' = Served
    BY <2>1 DEF Served, Alive
  <2>3. ASSUME NEW c \in Conns, ConnArrives(c) PROVE Dispatch!Arrive(c)
    BY <2>1, <2>2, <2>3 DEF ConnArrives, Dispatch!Arrive, Served
  <2>4. ASSUME NEW k \in DOMAIN backlog, ConnAborted(k) PROVE Dispatch!Abort(k)
    <3>1. DropAt(backlog, k) = [j \in 1 .. Len(backlog) - 1 |-> backlog[IF j < k THEN j ELSE j + 1]]
      BY DEF DropAt
    <3> QED BY <2>1, <2>2, <2>4, <3>1 DEF ConnAborted, Dispatch!Abort, Served
  <2> QED BY <1>5, <2>1, <2>3, <2>4 DEF Client, Dispatch!Next
\* The parent's exit leaves the children what they have.
<1>6. ASSUME up, up' = FALSE, UNCHANGED <<arrived, aborted, closed, toChild, cpc, cconn>>
      PROVE  Dispatch!Exit
  <2>1. Served' = Served
    BY <1>6 DEF Served, Alive
  <2>2. Served' = [w \in Children |-> IF w \in {} THEN NoConn ELSE Served[w]]
    BY <2>1 DEF Served
  <2>3. \E W \in SUBSET Children : Served' = [w \in Children |-> IF w \in W THEN NoConn ELSE Served[w]]
    <3> WITNESS {} \in SUBSET Children
    <3> QED BY <2>2
  <2> QED BY <1>6, <2>3 DEF Dispatch!Exit, Served
<1>7. CASE ParentSelect \/ UNCHANGED vars
  BY <1>1, <1>7 DEF ParentSelect, vars
<1>8. CASE ParentAccept
  <2>1. PICK c \in Conns :
          /\ AcceptReturns(c)
          /\ \/ ParentExits("noavail")
             \/ \E i \in Free :
                  IF Alive(i)
                  THEN PassTo(i, c) /\ UNCHANGED <<childVars, procVars>>
                  ELSE ParentExits("sigpipe")
    BY <1>8 DEF ParentAccept, Free
  <2>2. /\ up /\ backlog # <<>> /\ c = Head(backlog) /\ backlog' = Tail(backlog)
        /\ UNCHANGED <<arrived, aborted>>
    BY <1>8, <2>1 DEF ParentAccept, AcceptReturns
  <2>3. ASSUME NEW why, ParentExits(why) PROVE Dispatch!Exit
    BY <1>6, <2>2, <2>3 DEF ParentExits
  <2>4. ASSUME NEW i \in Free, Alive(i), PassTo(i, c), UNCHANGED <<childVars, procVars>>
        PROVE  Dispatch!Take(i)
    <3>1. /\ i \in Children /\ toChild' = [toChild EXCEPT ![i] = Append(@, c)]
          /\ UNCHANGED <<cpc, cconn, closed, up>>
      BY <2>4 DEF Free, PassTo
    <3>2. toChild[i] = <<>> /\ cpc[i] = "read"
      <4>1. 0 = Len(toChild[i]) + bytes[i] + (IF cpc[i] = "read" THEN 0 ELSE 1)
        BY <1>0, <2>2, <2>4, <3>1 DEF Free, Outstanding
      <4>2. toChild[i] \in Seq(Conns) /\ bytes[i] \in Nat
        BY <1>0, <3>1 DEF Inv, BeliefTrue, TypeOK
      <4> QED BY <4>1, <4>2
    <3>3. cconn[i] = NoConn
      BY <1>0, <3>1, <3>2 DEF Hands
    <3>4. toChild'[i] # <<>> /\ Head(toChild'[i]) = c /\ \A j \in Children \ {i} : toChild'[j] = toChild[j]
      <4>1. toChild'[i] = Append(<<>>, c) /\ \A j \in Children \ {i} : toChild'[j] = toChild[j]
        BY <1>0, <3>1, <3>2
      <4> QED BY <4>1
    <3>5. Served' = [Served EXCEPT ![i] = c]
      <4>1. Serving(i)' = c
        BY <2>4, <3>1, <3>4 DEF Serving, Alive
      <4>2. \A j \in Children \ {i} : Serving(j)' = Serving(j)
        BY <3>1, <3>4 DEF Serving, Alive
      <4> QED BY <1>2, <3>1, <4>1, <4>2
    <3>6. Served[i] = NoConn
      BY <1>4, <3>1, <3>2, <3>3 DEF Serving
    <3> QED BY <2>2, <3>1, <3>5, <3>6 DEF Dispatch!Take, Served
  <2> QED BY <2>1, <2>3, <2>4 DEF Dispatch!Next, Free
<1>9. CASE ParentAcceptFails
  BY <1>6, <1>9 DEF ParentAcceptFails, ParentExits, Dispatch!Next
<1>10. CASE ParentRead
  <2>1. PICK i \in rset : \/ UNCHANGED <<toChild, childVars, procVars>>
                          \/ ParentExits("eof")
    BY <1>10 DEF ParentRead
  <2>2. up /\ UNCHANGED <<backlog, arrived, aborted>>
    BY <1>10 DEF ParentRead
  <2> QED BY <1>1, <1>6, <2>1, <2>2 DEF ParentExits, Dispatch!Next
<1>11. CASE SigInt
  <2>1. /\ up /\ up' = FALSE /\ cpc' = [i \in Children |-> "dead"] /\ cconn' = [i \in Children |-> NoConn]
        /\ UNCHANGED <<arrived, aborted, closed>>
    BY <1>11 DEF SigInt
  <2>2. Served' = [w \in Children |-> IF w \in Children THEN NoConn ELSE Served[w]]
    BY <2>1 DEF Served, Alive
  <2>3. \E W \in SUBSET Children : Served' = [w \in Children |-> IF w \in W THEN NoConn ELSE Served[w]]
    BY <2>2
  <2> QED BY <2>1, <2>3 DEF Dispatch!Exit, Dispatch!Next, Served
<1>12. ASSUME NEW i \in Children,
              ChildReadFd(i) \/ ChildReadEOF(i) \/ WebChildReturns(i) \/ ChildReady(i)
       PROVE  UNCHANGED Dispatch!dispatchVars
  <2>1. UNCHANGED <<backlog, arrived, aborted, closed, up>>
    BY <1>12 DEF ChildReadFd, ChildReadEOF, WebChildReturns, ChildReady
  <2>2. Served' = Served
    <3>1. ASSUME ChildReadFd(i) PROVE \A j \in Children : Serving(j)' = Serving(j)
      <4>1. /\ cpc[i] = "read" /\ toChild[i] # <<>>
            /\ cconn' = [cconn EXCEPT ![i] = Head(toChild[i])]
            /\ toChild' = [toChild EXCEPT ![i] = Tail(@)] /\ cpc' = [cpc EXCEPT ![i] = "child"]
        BY <3>1 DEF ChildReadFd
      <4>2. Len(toChild[i]) = 1 /\ toChild[i] \in Seq(Conns)
        BY <1>0, <4>1 DEF Hands, Alive
      <4>3. Tail(toChild[i]) = <<>>
        BY <4>2, OneElement
      <4>4. toChild'[i] = <<>> /\ cconn'[i] = Head(toChild[i])
        BY <1>0, <4>1, <4>3
      <4>5. \A j \in Children \ {i} : toChild'[j] = toChild[j] /\ cpc'[j] = cpc[j] /\ cconn'[j] = cconn[j]
        BY <1>0, <4>1
      <4> QED BY <4>1, <4>4, <4>5 DEF Serving, Alive
    <3>2. ASSUME ChildReadEOF(i) \/ WebChildReturns(i) \/ ChildReady(i)
          PROVE  \A j \in Children : Serving(j)' = Serving(j)
      <4>1. /\ UNCHANGED <<toChild, cconn>> /\ toChild[i] = <<>>
            /\ \A j \in Children \ {i} : cpc'[j] = cpc[j]
        BY <1>0, <3>2 DEF ChildReadEOF, WebChildReturns, ChildReady, Hands, Alive
      <4> QED BY <4>1 DEF Serving, Alive
    <3> QED BY <1>3, <1>12, <3>1, <3>2
  <2> QED BY <2>1, <2>2 DEF Dispatch!dispatchVars, Served
<1>13. ASSUME NEW i \in Children, WebChildQuits(i) \/ ChildClose(i)
       PROVE  Dispatch!Die(i) \/ Dispatch!Finish(i)
  <2>1. /\ cpc[i] \in {"child", "close"} /\ cconn' = [cconn EXCEPT ![i] = NoConn]
        /\ \A j \in Children \ {i} : cpc'[j] = cpc[j]
        /\ UNCHANGED <<backlog, arrived, aborted, toChild, up>>
        /\ closed' = closed \/ closed' = closed \cup {cconn[i]}
    BY <1>0, <1>13 DEF WebChildQuits, ChildClose
  <2>2. toChild[i] = <<>> /\ cconn[i] # NoConn
    BY <1>0, <2>1 DEF Hands, Alive
  <2>3. Serving(i) = cconn[i] /\ Serving(i)' = NoConn /\ \A j \in Children \ {i} : Serving(j)' = Serving(j)
    BY <1>0, <2>1, <2>2 DEF Serving, Alive
  <2>4. Served' = [Served EXCEPT ![i] = NoConn] /\ Served[i] = cconn[i]
    BY <1>2, <1>4, <2>3
  <2> QED BY <2>1, <2>2, <2>4 DEF Dispatch!Die, Dispatch!Finish, Served
<1> QED BY <1>5, <1>7, <1>8, <1>9, <1>10, <1>11, <1>12, <1>13
        DEF Next, ParentStep, ChildStep, Dispatch!Next

\* serv05 keeps the promise of ConnDispatch, for any numbers of children and connections:
\* no descriptor is passed to two children or lost on its way.
THEOREM PassingDispatches == Spec => ImplementsDispatch
<1>1. Init => Dispatch!Init
  BY DEF Init, ListenInit, Dispatch!Init
<1>2. Spec => []Inv
  BY InvInit, InvNext, PTL DEF Spec
<1> QED BY <1>1, <1>2, DispatchNext, PTL DEF Spec, ImplementsDispatch, Dispatch!Spec
=============================================================================
