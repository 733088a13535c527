------------------------ MODULE MultiplexServerProofs ------------------------
(***************************************************************************)
(* MultiplexServer for any number of slots, descriptors and clients: the    *)
(* tables of the select() and the poll() server agree, and neither of them  *)
(* reads from a client that has nothing to read.                            *)
(***************************************************************************)
EXTENDS MultiplexServer, ListenQueueProofs, FiniteSetTheorems

-----------------------------------------------------------------------------
(* The inductive invariant.                                                 *)

\* What TablesAgree says of a server that did not run out of slots.
InSlots == {client[s] : s \in Slots} \ {NoFd}
Agree ==
    /\ {f \in Fds : fdconn[f] # NoConn} = InSlots
    /\ \A s, t \in Slots : client[s] = client[t] /\ client[s] # NoFd => s = t
    /\ prog = "select" => allset = InSlots
    /\ \A s \in Slots : s > maxi => client[s] = NoFd

\* Every descriptor has its own connection, which the kernel has no longer.
OwnConns ==
    /\ \A f, g \in Fds : fdconn[f] = fdconn[g] /\ fdconn[f] # NoConn => f = g
    /\ \A f \in Fds : fdconn[f] # NoConn => fdconn[f] \in arrived \ Elements(backlog)

Buffers == \A c \in Conns : inbuf[c] <= sends[c]

\* There is something to read from the client in slot s, or its end to be seen.
HasNews(c) == inbuf[c] > 0 \/ peer[c] # "open"
Ready(s) == HasNews(fdconn[client[s]])

\* The slots from i on that the wait reported, except the one that was filled since.
Left(fresh) ==
    {s \in Slots : i <= s /\ s <= maxi /\ s # fresh /\ client[s] # NoFd /\ Reported(s)}

\* nready counts the slots that are still to be looked at.  The revents of a slot that
\* was filled after the wait, behind all others, is garbage; the count is down to zero
\* before the loop gets there.
Round ==
    /\ pc # "wait" => nready >= 1
    /\ pc = "accept" =>
          /\ i = 1 /\ nready = Cardinality(Left(0)) + 1 /\ \A s \in Left(0) : Ready(s)
          /\ prog = "select" => \A f \in rset : fdconn[f] # NoConn
          /\ prog = "poll" => \A s \in Slots : s <= maxi /\ revents[s] => client[s] # NoFd
    /\ pc \in {"scan", "write"} =>
          \E fresh \in {0, maxi} :
             /\ nready = Cardinality(Left(fresh))
             /\ \A s \in Left(fresh) : (pc = "write" => s # i) => Ready(s)
             /\ pc = "write" => i \in Left(fresh)

Inv == /\ TypeOK /\ Buffers
       /\ Distinct(backlog) /\ Elements(backlog) \subseteq arrived
       /\ exitBy # "too many clients" => Agree /\ OwnConns
       /\ Running => Round

-----------------------------------------------------------------------------
(* Counting slots.                                                          *)

\* There are at most NSlots slots to look at, and one less when one has been dealt with.
LEMMA SlotCount ==
    ASSUME NEW S \in SUBSET Slots
    PROVE  /\ IsFiniteSet(S) /\ Cardinality(S) \in 0 .. NSlots
           /\ \A s \in S : Cardinality(S \ {s}) = Cardinality(S) - 1
           /\ S # {} => Cardinality(S) >= 1
<1> USE MultiplexAssumption
<1>1. IsFiniteSet(Slots) /\ Cardinality(Slots) = NSlots
  BY FS_Interval DEF Slots
<1>2. IsFiniteSet(S) /\ Cardinality(S) <= NSlots
  BY <1>1, FS_Subset
<1>3. Cardinality(S) \in Nat
  BY <1>2, FS_CardinalityType
<1>4. \A s \in S : Cardinality(S \ {s}) = Cardinality(S) - 1
  BY <1>2, FS_RemoveElement
<1>5. S # {} => Cardinality(S) # 0
  BY <1>2, FS_EmptySet
<1> QED BY <1>2, <1>3, <1>4, <1>5

\* select() counts descriptors and the loop counts slots: these are the same number.
LEMMA SlotsOfFds ==
    ASSUME TypeOK, Agree, NEW R \in SUBSET InSlots
    PROVE  Cardinality({s \in Slots : client[s] \in R}) = Cardinality(R)
<1> DEFINE S == {s \in Slots : client[s] \in R}
           b == [s \in S |-> client[s]]
<1>1. b \in Bijection(S, R)
  <2>1. b \in [S -> R]
    OBVIOUS
  <2>2. \A s, t \in S : b[s] = b[t] => s = t
    BY DEF Agree, InSlots
  <2>3. \A f \in R : \E s \in S : b[s] = f
    BY DEF InSlots
  <2> HIDE DEF b, S
  <2> QED BY <2>1, <2>2, <2>3 DEF Bijection, Injection, Surjection, IsInjective
<1>2. ExistsBijection(S, R)
  BY <1>1 DEF ExistsBijection
<1>3. IsFiniteSet(S)
  BY SlotCount
<1> QED BY <1>2, <1>3, FS_Bijection

-----------------------------------------------------------------------------

\* At the start there is no client, and nothing to look at before the first wait.
LEMMA InvInit == Init => Inv
<1> SUFFICES ASSUME Init PROVE Inv
  OBVIOUS
<1> USE MultiplexAssumption, ConnAssumption DEF Init, MultiplexStart, ListenInit
<1>1. TypeOK
  <2>1. /\ sends \in [Conns -> 0 .. MaxSends] /\ inbuf \in [Conns -> 0 .. MaxSends]
        /\ peer \in [Conns -> {"open", "fin", "rst"}]
        /\ fdconn \in [Fds -> Conns \cup {NoConn}]
    OBVIOUS
  <2>2. client \in [Slots -> Fds \cup {NoFd}]
    OBVIOUS
  <2>3. lready \in BOOLEAN
    BY Zenon
  <2>4. revents \in [Slots -> BOOLEAN]
    <3>1. CASE prog = "poll"
      BY <3>1, Zenon
    <3>2. CASE prog # "poll"
      BY <3>2, Zenon
    <3> QED BY <3>1, <3>2
  <2>5. maxi \in 0 .. NSlots /\ maxfd \in 0 .. NFds /\ nready \in 0 .. NSlots + 1 /\ i \in 1 .. NSlots + 1
    OBVIOUS
  <2> QED BY <2>1, <2>2, <2>3, <2>4, <2>5 DEF TypeOK, ListenTypeOK
<1>2. Buffers
  BY DEF Buffers
<1>3. Agree /\ OwnConns
  BY DEF Agree, OwnConns, InSlots, NoFd
<1>4. Round
  BY DEF Round
<1>5. Distinct(backlog) /\ Elements(backlog) \subseteq arrived
  BY DEF Distinct, Elements
<1> QED BY <1>1, <1>2, <1>3, <1>4, <1>5 DEF Inv

\* What clients do leaves the server's tables alone, and no client takes back what it has
\* sent without its end being there to be seen instead.
LEMMA ClientsKeep ==
    ASSUME Inv, TypeOK', Buffers', Distinct(backlog'), Elements(backlog') \subseteq arrived',
           arrived \ Elements(backlog) \subseteq arrived' \ Elements(backlog'),
           UNCHANGED <<prog, fdconn, client, maxi, allset, maxfd, lready, rset, revents,
                       nready, pc, i, exitBy>>,
           \A c \in Conns : HasNews(c) => HasNews(c)'
    PROVE  Inv'
<1>1. exitBy' # "too many clients" => Agree' /\ OwnConns'
  <2> SUFFICES ASSUME exitBy # "too many clients" PROVE Agree' /\ OwnConns'
    OBVIOUS
  <2>1. Agree /\ OwnConns
    BY DEF Inv
  <2>2. InSlots' = InSlots
    BY DEF InSlots
  <2>3. Agree'
    BY <2>1, <2>2 DEF Agree
  <2>4. OwnConns'
    BY <2>1 DEF OwnConns, Elements
  <2> QED BY <2>3, <2>4
<1>2. ASSUME NEW fresh PROVE Left(fresh)' = Left(fresh)
  <2>1. \A s \in Slots : Reported(s)' <=> Reported(s)
    BY DEF Reported
  <2> QED BY <2>1 DEF Left
<1>3. Running => \A s \in Slots : client[s] # NoFd /\ Ready(s) => Ready(s)'
  <2> SUFFICES ASSUME Running, NEW s \in Slots, client[s] # NoFd, Ready(s) PROVE Ready(s)'
    OBVIOUS
  <2>1. client[s] \in InSlots
    BY DEF InSlots
  <2>2. fdconn[client[s]] \in Conns
    BY <2>1 DEF Inv, Running, Agree, TypeOK
  <2> QED BY <2>2 DEF Ready, HasNews
<1>4. Running' => Round'
  <2> SUFFICES ASSUME Running PROVE Round'
    BY DEF Running
  <2>1. Round
    BY DEF Inv
  <2>2. \A fresh : \A s \in Left(fresh) : Ready(s) => Ready(s)'
    BY <1>3 DEF Left
  <2>3. pc = "accept" => \A s \in Left(0)' : Ready(s)'
    BY <1>2, <2>1, <2>2 DEF Round
  <2>4. ASSUME pc \in {"scan", "write"}
        PROVE  \E fresh \in {0, maxi} :
                  /\ nready' = Cardinality(Left(fresh)')
                  /\ \A s \in Left(fresh)' : (pc' = "write" => s # i') => Ready(s)'
                  /\ pc' = "write" => i' \in Left(fresh)'
    <3>1. PICK fresh \in {0, maxi} :
             /\ nready = Cardinality(Left(fresh))
             /\ \A s \in Left(fresh) : (pc = "write" => s # i) => Ready(s)
             /\ pc = "write" => i \in Left(fresh)
      BY <2>1, <2>4 DEF Round
    <3>2. Left(fresh)' = Left(fresh) /\ \A s \in Left(fresh) : Ready(s) => Ready(s)'
      BY <1>2, <2>2
    <3> QED BY <3>1, <3>2
  <2>5. Cardinality(Left(0)') = Cardinality(Left(0))
    BY <1>2
  <2> QED BY <2>1, <2>3, <2>4, <2>5 DEF Round
<1> QED BY <1>1, <1>4 DEF Inv, Distinct, Elements

\* The loop never gets to a slot that was filled since the wait: the count stops it.
LEMMA NotFresh ==
    ASSUME Inv, AtReported
    PROVE  \E fresh \in {0, maxi} :
              /\ nready = Cardinality(Left(fresh)) /\ i \in Left(fresh)
              /\ \A s \in Left(fresh) : Ready(s)
<1> USE MultiplexAssumption
<1>1. /\ Running /\ pc = "scan" /\ i <= maxi /\ client[i] # NoFd /\ Reported(i) /\ Round
      /\ i \in Nat /\ i >= 1 /\ maxi \in Nat /\ maxi <= NSlots /\ i \in Slots
  <2>1. /\ Running /\ pc = "scan" /\ i <= maxi /\ client[i] # NoFd /\ Reported(i) /\ Round
    BY DEF AtReported, Inv
  <2>2. i \in 1 .. NSlots + 1 /\ maxi \in 0 .. NSlots
    BY DEF Inv, TypeOK
  <2> QED BY <2>1, <2>2 DEF Slots
<1>2. PICK fresh \in {0, maxi} : /\ nready = Cardinality(Left(fresh))
                                /\ \A s \in Left(fresh) : (pc = "write" => s # i) => Ready(s)
  BY <1>1 DEF Round
<1>3. i # fresh
  <2> SUFFICES ASSUME i = fresh PROVE FALSE
    OBVIOUS
  <2>1. i = maxi
    BY <1>1, <1>2
  <2>2. Left(fresh) = {}
    BY <1>1, <2>1 DEF Left, Slots
  <2> QED BY <1>1, <1>2, <2>2, FS_EmptySet DEF Round
<1>4. i \in Left(fresh)
  BY <1>1, <1>3 DEF Left
<1>5. pc # "write"
  BY <1>1
<1> QED BY <1>2, <1>4, <1>5

LEMMA ClientNext ==
    Inv /\ (ClientConnects \/ \E c \in Conns : ClientSends(c) \/ ClientReads(c) \/ ClientEnds(c)) => Inv'
<1> USE MultiplexAssumption DEF listenVars, connVars, tabVars, waitVars
<1>1. ASSUME Inv, ClientConnects PROVE Inv'
  <2>0. TypeOK /\ ListenTypeOK
    BY <1>1 DEF Inv, TypeOK
  <2>1. /\ \/ \E c \in Conns : ConnArrives(c)
           \/ \E k \in DOMAIN backlog : ConnAborted(k)
        /\ UNCHANGED <<prog, sends, inbuf, peer, full, fdconn, client, maxi, allset, maxfd, lready,
                       rset, revents, nready, pc, i, exitBy>>
    BY <1>1 DEF ClientConnects
  <2>2. ListenTypeOK' /\ Distinct(backlog') /\ Elements(backlog') \subseteq arrived'
    <3>1. ListenTypeOK' /\ Distinct(backlog)' /\ (Elements(backlog) \subseteq arrived)'
      BY <1>1, <2>0, <2>1, ListenStep DEF Inv
    <3> QED BY <3>1 DEF Distinct, Elements
  <2>3. arrived \ Elements(backlog) \subseteq arrived' \ Elements(backlog')
    <3>1. ASSUME NEW c \in Conns, ConnArrives(c)
          PROVE  arrived \ Elements(backlog) \subseteq arrived' \ Elements(backlog')
      <4>1. c \notin Elements(backlog)
        BY <1>1, <3>1 DEF Inv, ConnArrives
      <4>2. Elements(backlog') = Elements(backlog) \cup {c}
        BY <1>1, <2>0, <3>1, <4>1, AppendLemma DEF Inv, ListenTypeOK, ConnArrives
      <4> QED BY <3>1, <4>2 DEF ConnArrives
    <3>2. ASSUME NEW k \in DOMAIN backlog, ConnAborted(k)
          PROVE  arrived \ Elements(backlog) \subseteq arrived' \ Elements(backlog')
      <4>1. Elements(backlog) = Elements(DropAt(backlog, k)) \cup {backlog[k]}
        BY <1>1, <2>0, <3>2, DropLemma DEF Inv, ListenTypeOK
      <4> QED BY <3>2, <4>1 DEF ConnAborted
    <3> QED BY <2>1, <3>1, <3>2
  <2>4. TypeOK'
    BY <2>0, <2>1, <2>2 DEF TypeOK
  <2>5. Buffers' /\ \A c \in Conns : HasNews(c) => HasNews(c)'
    BY <1>1, <2>1 DEF Inv, Buffers, HasNews
  <2> QED BY <1>1, <2>1, <2>2, <2>3, <2>4, <2>5, ClientsKeep
<1>2. ASSUME Inv, NEW c \in Conns, ClientSends(c) \/ ClientReads(c) \/ ClientEnds(c) PROVE Inv'
  <2>0. /\ TypeOK /\ Buffers /\ sends \in [Conns -> 0 .. MaxSends] /\ inbuf \in [Conns -> 0 .. MaxSends]
        /\ peer \in [Conns -> {"open", "fin", "rst"}]
    BY <1>2 DEF Inv, TypeOK
  <2>1. UNCHANGED <<backlog, arrived, aborted, prog, fdconn, client, maxi, allset, maxfd, lready,
                    rset, revents, nready, pc, i, exitBy>>
    BY <1>2 DEF ClientSends, ClientReads, ClientEnds
  <2>2. Distinct(backlog') /\ Elements(backlog') \subseteq arrived'
        /\ arrived \ Elements(backlog) \subseteq arrived' \ Elements(backlog')
    BY <1>2, <2>1 DEF Inv, Distinct, Elements
  <2>3. CASE ClientSends(c)
    <3>1. /\ sends[c] < MaxSends /\ sends' = [sends EXCEPT ![c] = @ + 1]
          /\ inbuf' = [inbuf EXCEPT ![c] = @ + 1] /\ UNCHANGED <<peer, full>>
      BY <2>3 DEF ClientSends
    <3>2. inbuf[c] <= sends[c] /\ sends[c] \in Nat /\ inbuf[c] \in Nat
      BY <2>0 DEF Buffers
    <3>3. sends' \in [Conns -> 0 .. MaxSends] /\ inbuf' \in [Conns -> 0 .. MaxSends]
      BY <2>0, <3>1, <3>2
    <3>4. Buffers'
      BY <2>0, <3>1, <3>2 DEF Buffers
    <3>5. TypeOK'
      BY <2>0, <2>1, <3>1, <3>3 DEF TypeOK, ListenTypeOK
    <3>6. \A d \in Conns : HasNews(d) => HasNews(d)'
      BY <2>0, <3>1, <3>2 DEF HasNews
    <3> QED BY <1>2, <2>1, <2>2, <3>4, <3>5, <3>6, ClientsKeep
  <2>4. CASE ClientReads(c)
    <3>1. full' \subseteq Deaf /\ UNCHANGED <<sends, inbuf, peer>>
      BY <2>0, <2>4 DEF ClientReads, TypeOK
    <3>2. TypeOK'
      BY <2>0, <2>1, <3>1 DEF TypeOK, ListenTypeOK
    <3>3. Buffers' /\ \A d \in Conns : HasNews(d) => HasNews(d)'
      BY <2>0, <3>1 DEF Buffers, HasNews
    <3> QED BY <1>2, <2>1, <2>2, <3>2, <3>3, ClientsKeep
  <2>5. CASE ClientEnds(c)
    <3>1. /\ \/ peer' = [peer EXCEPT ![c] = "fin"] /\ inbuf' = inbuf
             \/ peer' = [peer EXCEPT ![c] = "rst"] /\ inbuf' = [inbuf EXCEPT ![c] = 0]
          /\ UNCHANGED <<sends, full>>
      BY <2>5 DEF ClientEnds
    <3>2. peer' \in [Conns -> {"open", "fin", "rst"}] /\ inbuf' \in [Conns -> 0 .. MaxSends]
      BY <2>0, <3>1
    <3>3. TypeOK'
      BY <2>0, <2>1, <3>1, <3>2 DEF TypeOK, ListenTypeOK
    <3>4. Buffers'
      BY <2>0, <3>1 DEF Buffers
    <3>5. \A d \in Conns : HasNews(d) => HasNews(d)'
      BY <2>0, <3>1 DEF HasNews
    <3> QED BY <1>2, <2>1, <2>2, <3>3, <3>4, <3>5, ClientsKeep
  <2> QED BY <1>2, <2>3, <2>4, <2>5
<1> QED BY <1>1, <1>2

\* select() and poll() report what there is to read, and count it.
LEMMA WaitNext == Inv /\ Wait => Inv'
<1> SUFFICES ASSUME Inv, Wait PROVE Inv'
  OBVIOUS
<1> USE MultiplexAssumption DEF listenVars, connVars, tabVars
<1>1. /\ Running /\ pc = "wait" /\ lready' = (backlog # <<>>) /\ nready' > 0
      /\ pc' = (IF lready' THEN "accept" ELSE "scan") /\ i' = 1
      /\ UNCHANGED <<backlog, arrived, aborted, prog, sends, inbuf, peer, full, fdconn, client, maxi,
                     allset, maxfd, exitBy>>
  BY DEF Wait
<1>2. TypeOK /\ Buffers /\ Agree /\ OwnConns
  BY <1>1 DEF Inv, Running
<1>3. /\ client \in [Slots -> Fds \cup {NoFd}] /\ maxi \in 0 .. NSlots /\ rset \subseteq Fds
      /\ allset \subseteq Fds /\ revents \in [Slots -> BOOLEAN]
      /\ nready \in 0 .. NSlots + 1
  BY <1>2 DEF TypeOK
<1>4. lready' \in BOOLEAN
  BY <1>1, Zenon
\* The facts about what was reported, for both programs
<1>5. /\ rset' \subseteq Fds /\ revents' \in [Slots -> BOOLEAN]
      /\ nready' = Cardinality(Left(0)') + (IF lready' THEN 1 ELSE 0)
      /\ \A s \in Left(0)' : Ready(s)
      /\ prog = "select" => \A f \in rset' : fdconn[f] # NoConn
      /\ prog = "poll" => \A s \in Slots : s <= maxi /\ revents'[s] => client[s] # NoFd
  <2>1. CASE WaitSelect
    <3>1. /\ prog = "select" /\ revents' = revents
          /\ rset' = {f \in allset : f <= maxfd /\ Readable(f)}
          /\ nready' = Cardinality(rset') + (IF lready' THEN 1 ELSE 0)
      BY <2>1 DEF WaitSelect
    <3>2. rset' \in SUBSET InSlots /\ \A f \in rset' : Readable(f)
      BY <1>2, <3>1 DEF Agree
    <3>3. Left(0)' = {s \in Slots : client[s] \in rset'}
      <4>1. ASSUME NEW s \in Slots, client[s] \in rset'
            PROVE  s >= 1 /\ s <= maxi /\ s # 0 /\ client[s] # NoFd
        BY <1>2, <1>3, <3>2, <4>1 DEF Agree, InSlots, Slots
      <4>2. \A s \in Slots : Reported(s)' <=> client[s] \in rset'
        BY <1>1, <3>1 DEF Reported
      <4> QED BY <1>1, <4>1, <4>2 DEF Left
    <3>4. Cardinality(Left(0)') = Cardinality(rset')
      BY <1>2, <3>2, <3>3, SlotsOfFds
    <3>5. \A s \in Left(0)' : Ready(s)
      BY <3>2, <3>3 DEF Ready, Readable, HasNews
    <3>6. \A f \in rset' : fdconn[f] # NoConn
      BY <3>2 DEF Readable
    <3> QED BY <1>3, <3>1, <3>4, <3>5, <3>6
  <2>2. CASE WaitPoll
    <3>1. /\ prog = "poll" /\ rset' = rset
          /\ revents' = [s \in Slots |-> IF s <= maxi THEN Readable(client[s]) ELSE revents[s]]
          /\ nready' = Cardinality({s \in 1 .. maxi : revents'[s]}) + (IF lready' THEN 1 ELSE 0)
      BY <2>2 DEF WaitPoll
    <3>2. \A s \in Slots : Readable(client[s]) \in BOOLEAN
      BY Zenon DEF Readable
    <3>3. revents' \in [Slots -> BOOLEAN]
      BY <1>3, <3>1, <3>2, Zenon
    <3>4. \A s \in Slots : s <= maxi => (revents'[s] <=> Readable(client[s]))
      BY <3>1, Zenon
    <3>5. \A s \in Slots : s <= maxi /\ revents'[s] => client[s] # NoFd /\ Ready(s)
      BY <3>4 DEF Readable, Ready, HasNews
    <3>6. \A s \in Slots : Reported(s)' <=> revents'[s]
      BY <1>1, <3>1 DEF Reported
    <3>7. Left(0)' = {s \in 1 .. maxi : revents'[s]}
      BY <1>1, <1>3, <3>5, <3>6 DEF Left, Slots
    <3>8. \A s \in Left(0)' : Ready(s)
      BY <1>3, <3>5, <3>7 DEF Slots
    <3> QED BY <1>3, <3>1, <3>3, <3>5, <3>7, <3>8
  <2> QED BY <2>1, <2>2 DEF Wait
<1>6. Cardinality(Left(0)') \in 0 .. NSlots
  BY SlotCount DEF Left
<1>7. TypeOK'
  <2>1. nready' \in 0 .. NSlots + 1
    BY <1>5, <1>6
  <2>2. pc' \in {"accept", "scan"} /\ i' \in 1 .. NSlots + 1
    BY <1>1
  <2> QED BY <1>1, <1>2, <1>4, <1>5, <2>1, <2>2 DEF TypeOK, ListenTypeOK
<1>8. Agree' /\ OwnConns'
  BY <1>1, <1>2 DEF Agree, OwnConns, InSlots, Elements
<1>9. Buffers'
  BY <1>1, <1>2 DEF Buffers
<1>10. \A s : Ready(s)' <=> Ready(s)
  BY <1>1 DEF Ready, HasNews
<1>11. Round'
  <2>1. CASE lready'
    <3>1. pc' = "accept" /\ nready' = Cardinality(Left(0)') + 1 /\ nready' >= 1
      BY <1>1, <1>5, <1>6, <2>1
    <3> QED BY <1>1, <1>5, <1>10, <3>1 DEF Round
  <2>2. CASE ~lready'
    <3>1. pc' = "scan" /\ nready' = Cardinality(Left(0)') /\ nready' >= 1
      BY <1>1, <1>5, <1>6, <2>2
    <3> QED BY <1>5, <1>10, <3>1 DEF Round
  <2> QED BY <2>1, <2>2
<1> QED BY <1>1, <1>7, <1>8, <1>9, <1>11 DEF Inv, Distinct, Elements

\* A new client gets a descriptor and a slot nobody has.  When the slot is behind all
\* others, it is the fresh one of this round.
LEMMA AcceptNext == Inv /\ AcceptClient => Inv'
<1> SUFFICES ASSUME Inv, AcceptClient PROVE Inv'
  OBVIOUS
<1> USE MultiplexAssumption, ConnAssumption DEF connVars, waitVars
<1>1. PICK c \in Conns, f \in Fds :
        /\ AcceptReturns(c)
        /\ fdconn[f] = NoConn
        /\ fdconn' = [fdconn EXCEPT ![f] = c]
        /\ \/ /\ exitBy' = "too many clients"
              /\ UNCHANGED <<client, maxi, allset, maxfd, nready, pc>>
           \/ \E s \in Slots :
                /\ client[s] = NoFd
                /\ client' = [client EXCEPT ![s] = f]
                /\ GrowMaxi(s)
                /\ \/ /\ prog = "select"
                      /\ allset' = allset \cup {f}
                      /\ GrowMaxfd(f)
                   \/ prog = "poll" /\ UNCHANGED <<allset, maxfd>>
                /\ nready' = nready - 1
                /\ pc' = IF NoneLeft(nready') THEN "wait" ELSE "scan"
                /\ UNCHANGED exitBy
  BY DEF AcceptClient
<1>2. /\ Running /\ pc = "accept"
      /\ UNCHANGED <<prog, sends, inbuf, peer, full, lready, rset, revents, i>>
  BY DEF AcceptClient
<1>3. TypeOK /\ Buffers /\ Agree /\ OwnConns /\ Round
  BY <1>2 DEF Inv, Running
<1>4. /\ ListenTypeOK' /\ Distinct(backlog') /\ Elements(backlog') \subseteq arrived'
      /\ arrived' = arrived /\ Elements(backlog) = Elements(backlog') \cup {c}
      /\ c \notin Elements(backlog')
  <2>1. ListenTypeOK /\ Distinct(backlog) /\ Elements(backlog) \subseteq arrived
    BY DEF Inv, TypeOK
  <2>2. backlog # <<>> /\ c = Head(backlog) /\ backlog' = Tail(backlog) /\ UNCHANGED <<arrived, aborted>>
    BY <1>1 DEF AcceptReturns
  <2> QED BY <2>1, <2>2, TailLemma DEF ListenTypeOK
<1>5. /\ fdconn \in [Fds -> Conns \cup {NoConn}]
      /\ fdconn' \in [Fds -> Conns \cup {NoConn}] /\ fdconn'[f] = c
      /\ \A g \in Fds \ {f} : fdconn'[g] = fdconn[g]
  BY <1>1, <1>3 DEF TypeOK
<1>6. Buffers'
  BY <1>2, <1>3 DEF Buffers
<1>7. CASE exitBy' = "too many clients" /\ UNCHANGED <<client, maxi, allset, maxfd, nready, pc>>
  <2>1. TypeOK'
    BY <1>2, <1>3, <1>4, <1>5, <1>7 DEF TypeOK
  <2> QED BY <1>4, <1>6, <1>7, <2>1 DEF Inv, Running, Distinct, Elements
<1>8. CASE exitBy' # "too many clients"
  <2>1. PICK s \in Slots :
          /\ client[s] = NoFd
          /\ client' = [client EXCEPT ![s] = f]
          /\ GrowMaxi(s)
          /\ \/ /\ prog = "select"
                /\ allset' = allset \cup {f}
                /\ GrowMaxfd(f)
             \/ prog = "poll" /\ UNCHANGED <<allset, maxfd>>
          /\ nready' = nready - 1
          /\ pc' = IF NoneLeft(nready') THEN "wait" ELSE "scan"
          /\ UNCHANGED exitBy
    BY <1>1, <1>8
  <2>2. /\ client \in [Slots -> Fds \cup {NoFd}] /\ maxi \in 0 .. NSlots /\ maxfd \in 0 .. NFds
        /\ allset \subseteq Fds /\ nready \in 0 .. NSlots + 1 /\ nready >= 1
    BY <1>2, <1>3 DEF TypeOK, Round
  <2>3. f # NoFd /\ f \in 1 .. NFds /\ s \in 1 .. NSlots
    BY DEF Fds, NoFd, Slots
  <2>4. /\ client' \in [Slots -> Fds \cup {NoFd}] /\ client'[s] = f
        /\ \A t \in Slots \ {s} : client'[t] = client[t]
    BY <2>1, <2>2
  <2>5. /\ maxi' \in 0 .. NSlots /\ maxi' = (IF s > maxi THEN s ELSE maxi)
        /\ maxfd' \in 0 .. NFds /\ allset' \subseteq Fds
        /\ prog = "select" => allset' = allset \cup {f}
    <3>1. maxi' = (IF s > maxi THEN s ELSE maxi) /\ maxi' \in 0 .. NSlots
      BY <2>1, <2>2, <2>3 DEF GrowMaxi
    <3>2. CASE prog = "select" /\ allset' = allset \cup {f} /\ GrowMaxfd(f)
      BY <2>2, <2>3, <3>1, <3>2 DEF GrowMaxfd
    <3>3. CASE prog = "poll" /\ UNCHANGED <<allset, maxfd>>
      BY <2>2, <3>1, <3>3
    <3> QED BY <2>1, <3>2, <3>3
  <2>6. TypeOK'
    <3>1. nready' \in 0 .. NSlots + 1
      BY <2>1, <2>2
    <3>2. pc' \in {"wait", "scan"}
      BY <2>1
    <3> QED BY <1>2, <1>3, <1>4, <1>5, <2>1, <2>4, <2>5, <3>1, <3>2 DEF TypeOK
  <2>7. f \notin InSlots /\ \A t \in Slots : client[t] # f
    BY <1>1, <1>3, <2>3 DEF Agree, InSlots
  <2>8. InSlots' = InSlots \cup {f}
    BY <2>1, <2>3, <2>4 DEF InSlots
  <2>9. Agree'
    <3>1. {g \in Fds : fdconn'[g] # NoConn} = InSlots'
      BY <1>3, <1>5, <2>8 DEF Agree
    <3>2. \A t, u \in Slots : client'[t] = client'[u] /\ client'[t] # NoFd => t = u
      BY <1>3, <2>4, <2>7 DEF Agree
    <3>3. prog' = "select" => allset' = InSlots'
      BY <1>2, <1>3, <2>5, <2>8 DEF Agree
    <3>4. \A t \in Slots : t > maxi' => client'[t] = NoFd
      BY <1>3, <2>2, <2>3, <2>4, <2>5 DEF Agree, Slots
    <3> QED BY <3>1, <3>2, <3>3, <3>4 DEF Agree
  <2>10. OwnConns'
    <3>1. c \in Elements(backlog) /\ c \in arrived
      BY <1>4 DEF Inv
    <3>2. \A g \in Fds : fdconn[g] # c
      BY <1>3, <3>1 DEF OwnConns
    <3>3. \A g, h \in Fds : fdconn'[g] = fdconn'[h] /\ fdconn'[g] # NoConn => g = h
      BY <1>3, <1>5, <3>2 DEF OwnConns
    <3>4. \A g \in Fds : fdconn'[g] # NoConn => fdconn'[g] \in arrived' \ Elements(backlog')
      BY <1>3, <1>4, <1>5, <3>1 DEF OwnConns
    <3> QED BY <3>3, <3>4 DEF OwnConns, Elements
  <2>11. Round'
    <3> DEFINE fresh == IF s > maxi THEN s ELSE 0
    <3>1. fresh \in {0, maxi'}
      BY <2>5
    <3>2. /\ nready = Cardinality(Left(0)) + 1 /\ i = 1 /\ \A t \in Left(0) : Ready(t)
          /\ prog = "select" => \A g \in rset : fdconn[g] # NoConn
          /\ prog = "poll" => \A t \in Slots : t <= maxi /\ revents[t] => client[t] # NoFd
      BY <1>2, <1>3 DEF Round
    <3>3. \A t \in Slots \ {s} : Reported(t)' <=> Reported(t)
      BY <1>2, <2>4 DEF Reported
    <3>4. s <= maxi => ~Reported(s)'
      <4> SUFFICES ASSUME s <= maxi PROVE ~Reported(s)'
        OBVIOUS
      <4>1. CASE prog = "select"
        BY <1>1, <1>2, <2>4, <3>2, <4>1 DEF Reported
      <4>2. CASE prog # "select"
        <5>1. prog = "poll"
          BY <2>1, <4>2
        <5>2. ~revents[s]
          BY <2>1, <3>2, <5>1
        <5> QED BY <1>2, <4>2, <5>2 DEF Reported
      <4> QED BY <4>1, <4>2
    <3>5. ASSUME NEW t \in Slots
          PROVE  (i' <= t /\ t <= maxi' /\ t # fresh /\ client'[t] # NoFd /\ Reported(t)')
                 <=> (i <= t /\ t <= maxi /\ t # 0 /\ client[t] # NoFd /\ Reported(t))
      <4>1. t \in Nat /\ t >= 1 /\ s \in Nat /\ maxi \in Nat
        BY <2>2 DEF Slots
      <4>2. CASE t = s
        BY <2>1, <3>4, <4>1, <4>2
      <4>3. CASE t # s
        <5>1. client'[t] = client[t] /\ (Reported(t)' <=> Reported(t)) /\ t # fresh /\ t # 0
          BY <2>4, <3>3, <4>1, <4>3
        <5>2. client[t] # NoFd => (t <= maxi' <=> t <= maxi)
          BY <1>3, <2>5, <4>1 DEF Agree
        <5> QED BY <1>2, <5>1, <5>2
      <4> QED BY <4>2, <4>3
    <3> HIDE DEF fresh
    <3>6. {t \in Slots : i' <= t /\ t <= maxi' /\ t # fresh /\ client'[t] # NoFd /\ Reported(t)'} = Left(0)
      BY <3>5 DEF Left
    <3>7. \A t \in Left(0) : Ready(t)'
      <4> SUFFICES ASSUME NEW t \in Left(0) PROVE Ready(t)'
        OBVIOUS
      <4>1. t \in Slots /\ client[t] # NoFd /\ client[t] \in Fds /\ client[t] # f /\ t # s
        BY <2>1, <2>2, <2>7 DEF Left
      <4>2. fdconn'[client'[t]] = fdconn[client[t]]
        BY <1>5, <2>4, <4>1
      <4> QED BY <1>2, <3>2, <4>2 DEF Ready, HasNews
    <3>8. CASE pc' = "wait"
      BY <3>8 DEF Round
    <3>9. CASE pc' = "scan"
      <4>1. nready' = Cardinality(Left(0)) /\ nready' >= 1
        <5>1. Cardinality(Left(0)) \in Nat
          BY SlotCount DEF Left
        <5>2. ~NoneLeft(nready')
          BY <2>1, <3>9
        <5> QED BY <2>1, <3>2, <5>1, <5>2 DEF NoneLeft
      <4>2. \E fr \in {0, maxi'} :
               /\ nready' = Cardinality({t \in Slots : i' <= t /\ t <= maxi' /\ t # fr
                                                      /\ client'[t] # NoFd /\ Reported(t)'})
               /\ \A t \in {u \in Slots : i' <= u /\ u <= maxi' /\ u # fr
                                          /\ client'[u] # NoFd /\ Reported(u)'} : Ready(t)'
        BY <3>1, <3>6, <3>7, <4>1
      <4> QED BY <3>9, <4>1, <4>2 DEF Round, Left
    <3> QED BY <2>1, <3>8, <3>9
  <2> QED BY <1>4, <1>6, <2>6, <2>9, <2>10, <2>11 DEF Inv, Distinct, Elements
<1>9. exitBy' = exitBy => exitBy' # "too many clients"
  BY <1>2 DEF Running
<1> QED BY <1>1, <1>7, <1>8, <1>9

\* The end of the loop's body: one slot less to look at.
LEMMA SlotDone ==
    ASSUME TypeOK, NEW fresh \in {0, maxi}, nready = Cardinality(Left(fresh)), i \in Left(fresh),
           NextSlot, UNCHANGED <<prog, maxi, rset, revents>>,
           \A s \in Slots \ {i} : client'[s] = client[s],
           \A s \in Left(fresh) \ {i} : Ready(s)'
    PROVE  /\ Round' /\ nready' \in 0 .. NSlots + 1 /\ i' \in 1 .. NSlots + 1
           /\ pc' \in {"wait", "scan"}
<1> USE MultiplexAssumption
<1>1. i \in Slots /\ i \in Nat /\ i >= 1 /\ i <= NSlots /\ maxi \in Nat
  <2>1. i \in Slots
    BY DEF Left
  <2>2. maxi \in 0 .. NSlots
    BY DEF TypeOK
  <2> QED BY <2>1, <2>2 DEF Slots
<1>2. Left(fresh) \in SUBSET Slots
  BY DEF Left
<1>3. /\ Cardinality(Left(fresh)) \in 0 .. NSlots
      /\ Cardinality(Left(fresh) \ {i}) = Cardinality(Left(fresh)) - 1
      /\ Cardinality(Left(fresh)) >= 1
  BY <1>2, SlotCount
<1>4. nready' = Cardinality(Left(fresh) \ {i}) /\ nready' \in 0 .. NSlots
  BY <1>3 DEF NextSlot
<1>5. CASE NoneLeft(nready') /\ pc' = "wait" /\ UNCHANGED i
  BY <1>1, <1>4, <1>5 DEF Round
<1>6. CASE ~NoneLeft(nready') /\ pc' = "scan" /\ i' = i + 1
  <2>1. nready' >= 1
    BY <1>4, <1>6 DEF NoneLeft
  <2>2. \A s \in Slots \ {i} : Reported(s)' <=> Reported(s)
    BY DEF Reported
  <2>3. Left(fresh)' = Left(fresh) \ {i}
    <3>1. ASSUME NEW s \in Slots
          PROVE  (i' <= s /\ s <= maxi' /\ s # fresh /\ client'[s] # NoFd /\ Reported(s)')
                 <=> (i <= s /\ s <= maxi /\ s # fresh /\ client[s] # NoFd /\ Reported(s) /\ s # i)
      <4>1. s \in Nat
        BY DEF Slots
      <4>2. CASE s = i
        BY <1>1, <1>6, <4>2
      <4>3. CASE s # i
        <5>1. client'[s] = client[s] /\ (Reported(s)' <=> Reported(s)) /\ (i' <= s <=> i <= s)
          BY <1>1, <1>6, <2>2, <4>1, <4>3
        <5> QED BY <4>3, <5>1
      <4> QED BY <4>2, <4>3
    <3> QED BY <3>1 DEF Left
  <2>4. Round'
    <3>1. /\ fresh \in {0, maxi'} /\ nready' = Cardinality(Left(fresh)')
          /\ pc' = "scan" /\ nready' >= 1 /\ \A s \in Left(fresh)' : Ready(s)'
      BY <1>4, <1>6, <2>1, <2>3
    <3> QED BY <3>1 DEF Round
  <2> QED BY <1>1, <1>4, <1>6, <2>4
<1> QED BY <1>5, <1>6 DEF NextSlot

\* The scan reads from every slot that was reported, and from no other.
LEMMA ScanNext ==
    Inv /\ (ScanSkip \/ ReadData \/ EchoData \/ ReadEnd \/ AcceptFails) => Inv'
<1> SUFFICES ASSUME Inv, ScanSkip \/ ReadData \/ EchoData \/ ReadEnd \/ AcceptFails PROVE Inv'
  OBVIOUS
<1> USE MultiplexAssumption, ConnAssumption DEF listenVars, connVars, tabVars, waitVars
<1>1. /\ Running /\ UNCHANGED <<backlog, arrived, aborted, prog, sends, peer, full, maxi, maxfd, lready,
                                rset, revents>>
  BY DEF ScanSkip, ReadData, EchoData, ReadEnd, AcceptFails, AtReported
<1>2. /\ TypeOK /\ Buffers /\ Agree /\ OwnConns /\ Round
      /\ client \in [Slots -> Fds \cup {NoFd}] /\ fdconn \in [Fds -> Conns \cup {NoConn}]
      /\ inbuf \in [Conns -> 0 .. MaxSends] /\ sends \in [Conns -> 0 .. MaxSends]
  BY <1>1 DEF Inv, Running, TypeOK
<1>3. Distinct(backlog') /\ Elements(backlog') \subseteq arrived'
  BY <1>1 DEF Inv, Distinct, Elements
\* Steps that leave the tables and the buffers alone
<1>4. ASSUME UNCHANGED <<inbuf, fdconn, client, allset>>
      PROVE  /\ Agree' /\ OwnConns' /\ Buffers' /\ \A s : Ready(s)' <=> Ready(s)
             /\ \A s \in Slots : Reported(s)' <=> Reported(s)
  <2>1. InSlots' = InSlots
    BY <1>4 DEF InSlots
  <2> QED BY <1>1, <1>2, <1>4, <2>1 DEF Agree, OwnConns, Buffers, Elements, Ready, HasNews, Reported
\* The server quits.
<1>5. ASSUME UNCHANGED <<inbuf, fdconn, client, allset, nready, pc, i>>,
             exitBy' \in {"read error", "write error", "accept error"}
      PROVE  Inv'
  <2>1. TypeOK'
    BY <1>1, <1>2, <1>5 DEF TypeOK, ListenTypeOK
  <2> QED BY <1>3, <1>4, <1>5, <2>1 DEF Inv, Running, Distinct, Elements
<1>6. CASE ScanSkip
  <2>1. /\ UNCHANGED <<inbuf, fdconn, client, allset, nready, exitBy>> /\ pc = "scan"
    BY <1>6 DEF ScanSkip
  <2>2. CASE i > maxi /\ pc' = "wait" /\ UNCHANGED i
    <3>1. TypeOK'
      BY <1>1, <1>2, <2>1, <2>2 DEF TypeOK, ListenTypeOK
    <3>2. Round'
      BY <2>2 DEF Round
    <3> QED BY <1>3, <1>4, <2>1, <3>1, <3>2 DEF Inv, Distinct, Elements
  <2>3. CASE i <= maxi /\ (client[i] = NoFd \/ ~Reported(i)) /\ i' = i + 1 /\ pc' = pc
    <3>1. i \in Nat /\ i >= 1 /\ maxi \in Nat /\ maxi <= NSlots /\ i' \in 1 .. NSlots + 1
      <4>1. i \in 1 .. NSlots + 1 /\ maxi \in 0 .. NSlots
        BY <1>2 DEF TypeOK
      <4> QED BY <2>3, <4>1
    <3>2. TypeOK'
      BY <1>1, <1>2, <2>1, <2>3, <3>1 DEF TypeOK, ListenTypeOK
    <3>3. PICK fresh \in {0, maxi} :
             /\ nready = Cardinality(Left(fresh))
             /\ \A s \in Left(fresh) : (pc = "write" => s # i) => Ready(s)
      BY <1>2, <2>1 DEF Round
    <3>4. ASSUME NEW s \in Slots
          PROVE  (i' <= s /\ s <= maxi' /\ s # fresh /\ client'[s] # NoFd /\ Reported(s)')
                 <=> (i <= s /\ s <= maxi /\ s # fresh /\ client[s] # NoFd /\ Reported(s))
      <4>1. s \in Nat /\ (Reported(s)' <=> Reported(s)) /\ client'[s] = client[s] /\ maxi' = maxi
        BY <1>1, <1>4, <2>1 DEF Slots
      <4>2. CASE s = i
        BY <2>3, <3>1, <4>2
      <4>3. CASE s # i
        <5>1. i' <= s <=> i <= s
          BY <2>3, <3>1, <4>1, <4>3
        <5> QED BY <4>1, <5>1
      <4> QED BY <4>2, <4>3
    <3>5. Left(fresh)' = Left(fresh)
      BY <3>4 DEF Left
    <3>6. Round'
      <4>1. /\ fresh \in {0, maxi'} /\ nready' = Cardinality(Left(fresh)')
            /\ pc' = "scan" /\ nready' >= 1 /\ \A s \in Left(fresh)' : Ready(s)'
        BY <1>1, <1>2, <1>4, <2>1, <2>3, <3>3, <3>5 DEF Round
      <4> QED BY <4>1 DEF Round
    <3> QED BY <1>3, <1>4, <2>1, <3>2, <3>6 DEF Inv, Distinct, Elements
  <2> QED BY <1>6, <2>2, <2>3 DEF ScanSkip
\* The descriptors of two slots have different connections.
<1>7. ASSUME NEW s \in Slots, NEW t \in Slots, client[s] # NoFd, client[t] # NoFd, s # t
      PROVE  /\ client[s] # client[t] /\ fdconn[client[s]] # fdconn[client[t]]
             /\ client[s] \in Fds /\ client[t] \in Fds
             /\ fdconn[client[s]] \in Conns /\ fdconn[client[t]] \in Conns
  <2>1. client[s] # client[t] /\ client[s] \in InSlots /\ client[t] \in InSlots
    BY <1>2, <1>7 DEF Agree, InSlots
  <2>2. /\ client[s] \in Fds /\ client[t] \in Fds
        /\ fdconn[client[s]] # NoConn /\ fdconn[client[t]] # NoConn
    BY <1>2, <2>1 DEF Agree
  <2>3. fdconn[client[s]] \in Conns /\ fdconn[client[t]] \in Conns
    BY <1>2, <2>2
  <2> QED BY <1>2, <2>1, <2>2, <2>3 DEF OwnConns
<1>8. ASSUME NEW s \in Slots, client[s] # NoFd PROVE client[s] \in Fds /\ fdconn[client[s]] \in Conns
  <2>1. client[s] \in InSlots
    BY <1>8 DEF InSlots
  <2> QED BY <1>2, <2>1 DEF Agree
<1>9. CASE ReadData
  <2>1. /\ AtReported /\ inbuf' = [inbuf EXCEPT ![Here] = 0] /\ pc' = "write"
        /\ UNCHANGED <<fdconn, client, allset, nready, i, exitBy>>
    BY <1>9 DEF ReadData
  <2>2. PICK fresh \in {0, maxi} :
           /\ nready = Cardinality(Left(fresh)) /\ i \in Left(fresh)
           /\ \A s \in Left(fresh) : Ready(s)
    BY <2>1, NotFresh
  <2>3. i \in Slots /\ client[i] # NoFd /\ Here \in Conns /\ inbuf' \in [Conns -> 0 .. MaxSends]
    <3>1. i \in Slots /\ client[i] # NoFd
      BY <2>2 DEF Left
    <3> QED BY <1>2, <1>8, <2>1, <3>1 DEF Here
  <2>4. TypeOK'
    BY <1>1, <1>2, <2>1, <2>3 DEF TypeOK, ListenTypeOK
  <2>5. Buffers'
    BY <1>1, <1>2, <2>1, <2>3 DEF Buffers
  <2>6. Agree' /\ OwnConns' /\ \A s \in Slots : Reported(s)' <=> Reported(s)
    <3>1. InSlots' = InSlots
      BY <2>1 DEF InSlots
    <3> QED BY <1>1, <1>2, <2>1, <3>1 DEF Agree, OwnConns, Elements, Reported
  <2>7. Left(fresh)' = Left(fresh)
    BY <1>1, <2>1, <2>6 DEF Left
  <2>8. \A s \in Left(fresh) : s # i => Ready(s)'
    <3> SUFFICES ASSUME NEW s \in Left(fresh), s # i PROVE Ready(s)'
      OBVIOUS
    <3>1. s \in Slots /\ client[s] # NoFd
      BY DEF Left
    <3>2. fdconn[client[s]] # Here /\ fdconn[client[s]] \in Conns
      BY <1>7, <2>3, <3>1 DEF Here
    <3> QED BY <1>1, <1>2, <2>1, <2>2, <3>2 DEF Ready, HasNews
  <2>9. Round'
    <3>1. /\ fresh \in {0, maxi'} /\ nready' = Cardinality(Left(fresh)') /\ i' \in Left(fresh)'
          /\ \A s \in Left(fresh)' : s # i' => Ready(s)'
      BY <1>1, <2>1, <2>2, <2>7, <2>8
    <3>2. nready' >= 1
      BY <1>2, <2>1 DEF Round, AtReported
    <3> QED BY <2>1, <3>1, <3>2 DEF Round
  <2> QED BY <1>3, <2>4, <2>5, <2>6, <2>9 DEF Inv, Distinct, Elements
<1>10. CASE EchoData
  <2>1. pc = "write" /\ UNCHANGED <<inbuf, fdconn, client, allset>>
    BY <1>10 DEF EchoData
  <2>2. CASE exitBy' = "write error" /\ UNCHANGED <<nready, pc, i>>
    BY <1>5, <2>1, <2>2
  <2>3. CASE NextSlot /\ UNCHANGED exitBy
    <3>1. PICK fresh \in {0, maxi} :
             /\ nready = Cardinality(Left(fresh)) /\ i \in Left(fresh)
             /\ \A s \in Left(fresh) : s # i => Ready(s)
      BY <1>2, <2>1 DEF Round
    <3>2. \A s \in Left(fresh) \ {i} : Ready(s)'
      BY <1>4, <2>1, <3>1
    <3>3. /\ Round' /\ nready' \in 0 .. NSlots + 1 /\ i' \in 1 .. NSlots + 1
          /\ pc' \in {"wait", "scan"}
      BY <1>1, <1>2, <2>1, <2>3, <3>1, <3>2, SlotDone
    <3>4. TypeOK'
      BY <1>1, <1>2, <2>1, <2>3, <3>3 DEF TypeOK, ListenTypeOK
    <3> QED BY <1>3, <1>4, <2>1, <3>3, <3>4 DEF Inv, Distinct, Elements
  <2> QED BY <1>10, <2>2, <2>3 DEF EchoData
<1>11. CASE ReadEnd
  <2>1. AtReported /\ inbuf' = inbuf
    BY <1>11 DEF ReadEnd
  <2>2. CASE exitBy' = "read error" /\ UNCHANGED <<tabVars, nready, pc, i>>
    BY <1>5, <2>1, <2>2
  <2>3. CASE /\ fdconn' = [fdconn EXCEPT ![client[i]] = NoConn]
             /\ allset' = allset \ {client[i]}
             /\ ClearSlot /\ NextSlot /\ UNCHANGED exitBy
    <3>1. PICK fresh \in {0, maxi} :
             /\ nready = Cardinality(Left(fresh)) /\ i \in Left(fresh)
             /\ \A s \in Left(fresh) : Ready(s)
      BY <2>1, NotFresh
    <3>2. i \in Slots /\ client[i] # NoFd /\ client[i] \in Fds
      BY <1>8, <3>1 DEF Left
    <3>3. /\ client' \in [Slots -> Fds \cup {NoFd}] /\ client'[i] = NoFd
          /\ \A s \in Slots \ {i} : client'[s] = client[s]
      BY <1>2, <2>3, <3>2 DEF ClearSlot
    <3>4. /\ fdconn' \in [Fds -> Conns \cup {NoConn}] /\ fdconn'[client[i]] = NoConn
          /\ \A f \in Fds \ {client[i]} : fdconn'[f] = fdconn[f]
      BY <1>2, <2>3, <3>2
    <3>5. \A s \in Left(fresh) \ {i} : Ready(s)'
      <4> SUFFICES ASSUME NEW s \in Left(fresh) \ {i} PROVE Ready(s)'
        OBVIOUS
      <4>1. s \in Slots /\ client[s] # NoFd /\ Ready(s)
        BY <3>1 DEF Left
      <4>2. client[s] # client[i] /\ client[s] \in Fds
        BY <1>7, <3>2, <4>1
      <4>3. fdconn'[client'[s]] = fdconn[client[s]]
        BY <3>3, <3>4, <4>1, <4>2
      <4> QED BY <1>1, <2>1, <4>1, <4>3 DEF Ready, HasNews
    <3>6. /\ Round' /\ nready' \in 0 .. NSlots + 1 /\ i' \in 1 .. NSlots + 1
          /\ pc' \in {"wait", "scan"}
      BY <1>1, <1>2, <2>3, <3>1, <3>3, <3>5, SlotDone
    <3>7. TypeOK'
      <4>1. allset' \subseteq Fds
        BY <1>2, <2>3 DEF TypeOK
      <4> QED BY <1>1, <1>2, <2>1, <2>3, <3>3, <3>4, <3>6, <4>1 DEF TypeOK, ListenTypeOK
    <3>8. InSlots' = InSlots \ {client[i]}
      <4>1. \A s \in Slots \ {i} : client'[s] # client[i]
        BY <1>2, <3>2, <3>3 DEF Agree
      <4> QED BY <3>2, <3>3, <4>1 DEF InSlots
    <3>9. Agree'
      <4>1. {f \in Fds : fdconn'[f] # NoConn} = InSlots'
        BY <1>2, <3>4, <3>8 DEF Agree
      <4>2. \A s, t \in Slots : client'[s] = client'[t] /\ client'[s] # NoFd => s = t
        BY <1>2, <3>3 DEF Agree
      <4>3. prog' = "select" => allset' = InSlots'
        BY <1>1, <1>2, <2>3, <3>8 DEF Agree
      <4>4. \A s \in Slots : s > maxi' => client'[s] = NoFd
        BY <1>1, <1>2, <3>3 DEF Agree
      <4> QED BY <4>1, <4>2, <4>3, <4>4 DEF Agree
    <3>10. OwnConns'
      BY <1>1, <1>2, <3>4 DEF OwnConns, Elements
    <3>11. Buffers'
      BY <1>1, <1>2, <2>1 DEF Buffers
    <3> QED BY <1>3, <3>6, <3>7, <3>9, <3>10, <3>11 DEF Inv, Distinct, Elements
  <2> QED BY <1>11, <2>2, <2>3 DEF ReadEnd
<1>12. CASE AcceptFails
  BY <1>5, <1>12 DEF AcceptFails
<1> QED BY <1>6, <1>9, <1>10, <1>11, <1>12

LEMMA InvNext == Inv /\ [Next]_vars => Inv'
<1> SUFFICES ASSUME Inv, [Next]_vars PROVE Inv'
  OBVIOUS
<1>1. CASE UNCHANGED vars
  <2>1. /\ TypeOK' /\ Buffers' /\ Distinct(backlog') /\ Elements(backlog') \subseteq arrived'
        /\ arrived \ Elements(backlog) \subseteq arrived' \ Elements(backlog')
        /\ UNCHANGED <<prog, fdconn, client, maxi, allset, maxfd, lready, rset, revents,
                       nready, pc, i, exitBy>>
        /\ \A c \in Conns : HasNews(c) => HasNews(c)'
    BY <1>1 DEF vars, Inv, TypeOK, ListenTypeOK, Buffers, Distinct, Elements, HasNews
  <2> QED BY <2>1, ClientsKeep
<1> QED BY <1>1, ClientNext, WaitNext, AcceptNext, ScanNext DEF Next, ServerStep

\* Both servers never block in a read(): a slot poll() has not looked at is not reached and
\* a reused descriptor is not taken for the old one (tcpservpoll01.c:57-64,
\* tcpservselect01.c:62-69); and slots, descriptors and allset agree
\* (tcpservselect01.c:48-60,72-74, tcpservpoll01.c:45-55,71-81).
THEOREM TablesStayTrue == Spec => []TablesTrue
<1>1. Inv => TablesTrue
  <2> SUFFICES ASSUME Inv PROVE TablesTrue
    OBVIOUS
  <2>1. TablesAgree
    BY DEF Inv, TablesAgree, Agree, InSlots
  <2>2. AtReported => Ready(i)
    BY NotFresh
  <2>3. ReadNeverBlocks
    BY <2>2 DEF ReadNeverBlocks, Ready, HasNews, Here
  <2> QED BY <2>1, <2>3 DEF TablesTrue
<1> QED BY <1>1, InvInit, InvNext, PTL DEF Spec
=============================================================================
