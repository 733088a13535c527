------------------------- MODULE ListenQueueProofs -------------------------
(***************************************************************************)
(* What the operations on the listening queue do to the set of connections *)
(* in it, and to its having no duplicates.                                  *)
(***************************************************************************)
EXTENDS ListenQueue, SequenceTheorems, TLAPS

\* A completed connection is added to the backlog at its end (what the kernel does
\* below accept() in lib/wrapsock.c).
LEMMA AppendLemma ==
    ASSUME NEW S, NEW s \in Seq(S), NEW c \in S, Distinct(s), c \notin Elements(s)
    PROVE  /\ Append(s, c) \in Seq(S)
           /\ Elements(Append(s, c)) = Elements(s) \cup {c}
           /\ Distinct(Append(s, c))
<1>1. Append(s, c) \in Seq(S)
  OBVIOUS
<1>2. /\ Len(Append(s, c)) = Len(s) + 1
      /\ \A j \in 1 .. Len(s) : Append(s, c)[j] = s[j]
      /\ Append(s, c)[Len(s) + 1] = c
  OBVIOUS
<1>3. DOMAIN s = 1 .. Len(s) /\ DOMAIN Append(s, c) = 1 .. Len(s) + 1 /\ Len(s) \in Nat
  OBVIOUS
<1>4. Elements(Append(s, c)) = Elements(s) \cup {c}
  BY <1>2, <1>3 DEF Elements
<1>5. Distinct(Append(s, c))
  <2> SUFFICES ASSUME NEW i \in 1 .. Len(s) + 1, NEW j \in 1 .. Len(s) + 1,
                      Append(s, c)[i] = Append(s, c)[j]
               PROVE  i = j
    BY <1>3 DEF Distinct
  <2>1. \A k \in 1 .. Len(s) : s[k] # c
    BY <1>3 DEF Elements
  <2>2. CASE i \in 1 .. Len(s) /\ j \in 1 .. Len(s)
    BY <2>2, <1>2, <1>3 DEF Distinct
  <2>3. CASE i = Len(s) + 1 \/ j = Len(s) + 1
    BY <2>1, <2>3, <1>2, <1>3
  <2> QED BY <2>2, <2>3, <1>3
<1> QED BY <1>1, <1>4, <1>5

\* accept() takes the oldest connection off the backlog.
LEMMA TailLemma ==
    ASSUME NEW S, NEW s \in Seq(S), Distinct(s), s # <<>>
    PROVE  /\ Head(s) \in S
           /\ Tail(s) \in Seq(S)
           /\ Elements(s) = Elements(Tail(s)) \cup {Head(s)}
           /\ Head(s) \notin Elements(Tail(s))
           /\ Distinct(Tail(s))
<1>1. Tail(s) \in Seq(S) /\ Head(s) \in S /\ Len(s) \in Nat /\ Len(s) >= 1
  OBVIOUS
<1>2. /\ Len(Tail(s)) = Len(s) - 1
      /\ \A j \in 1 .. Len(s) - 1 : Tail(s)[j] = s[j + 1]
      /\ Head(s) = s[1]
  OBVIOUS
<1>3. DOMAIN s = 1 .. Len(s) /\ DOMAIN Tail(s) = 1 .. Len(s) - 1
  BY <1>1, <1>2
<1>4. Elements(s) = Elements(Tail(s)) \cup {Head(s)}
  <2>1. Elements(s) \subseteq Elements(Tail(s)) \cup {Head(s)}
    <3> SUFFICES ASSUME NEW k \in 1 .. Len(s), k # 1
                 PROVE  s[k] \in Elements(Tail(s))
      BY <1>2, <1>3 DEF Elements
    <3>1. k - 1 \in 1 .. Len(s) - 1 /\ Tail(s)[k - 1] = s[k]
      BY <1>1, <1>2
    <3> QED BY <3>1, <1>3 DEF Elements
  <2>2. Elements(Tail(s)) \cup {Head(s)} \subseteq Elements(s)
    BY <1>1, <1>2, <1>3 DEF Elements
  <2> QED BY <2>1, <2>2
<1>5. Head(s) \notin Elements(Tail(s))
  BY <1>1, <1>2, <1>3 DEF Elements, Distinct
<1>6. Distinct(Tail(s))
  <2> SUFFICES ASSUME NEW i \in 1 .. Len(s) - 1, NEW j \in 1 .. Len(s) - 1,
                      Tail(s)[i] = Tail(s)[j]
               PROVE  i = j
    BY <1>3 DEF Distinct
  <2>1. s[i + 1] = s[j + 1] /\ i + 1 \in 1 .. Len(s) /\ j + 1 \in 1 .. Len(s)
    BY <1>1, <1>2
  <2> QED BY <2>1, <1>3 DEF Distinct
<1> QED BY <1>1, <1>4, <1>5, <1>6

\* A client's reset removes its connection from the backlog, wherever it is.
LEMMA DropLemma ==
    ASSUME NEW S, NEW s \in Seq(S), Distinct(s), NEW k \in DOMAIN s
    PROVE  /\ s[k] \in S
           /\ DropAt(s, k) \in Seq(S)
           /\ Elements(s) = Elements(DropAt(s, k)) \cup {s[k]}
           /\ s[k] \notin Elements(DropAt(s, k))
           /\ Distinct(DropAt(s, k))
<1> DEFINE d == DropAt(s, k)
<1>1. Len(s) \in Nat /\ k \in 1 .. Len(s) /\ DOMAIN s = 1 .. Len(s)
      /\ \A j \in 1 .. Len(s) : s[j] \in S
  OBVIOUS
<1>2. /\ DOMAIN d = 1 .. Len(s) - 1
      /\ \A j \in 1 .. Len(s) - 1 : d[j] = IF j < k THEN s[j] ELSE s[j + 1]
  BY DEF DropAt
<1>3. d \in Seq(S)
  <2>1. Len(s) - 1 \in Nat
    BY <1>1
  <2>2. d \in [1 .. Len(s) - 1 -> S]
    BY <1>1 DEF DropAt
  <2> QED BY <2>1, <2>2
<1>4. Elements(s) = Elements(d) \cup {s[k]}
  <2>1. Elements(s) \subseteq Elements(d) \cup {s[k]}
    <3> SUFFICES ASSUME NEW j \in 1 .. Len(s), j # k
                 PROVE  s[j] \in Elements(d)
      BY <1>1 DEF Elements
    <3>1. CASE j < k
      <4>1. j \in 1 .. Len(s) - 1 /\ d[j] = s[j]
        BY <1>1, <1>2, <3>1
      <4> QED BY <4>1, <1>2 DEF Elements
    <3>2. CASE j > k
      <4>1. j - 1 \in 1 .. Len(s) - 1 /\ d[j - 1] = s[j]
        BY <1>1, <1>2, <3>2
      <4> QED BY <4>1, <1>2 DEF Elements
    <3> QED BY <3>1, <3>2, <1>1
  <2>2. Elements(d) \cup {s[k]} \subseteq Elements(s)
    BY <1>1, <1>2 DEF Elements
  <2> QED BY <2>1, <2>2
<1>5. s[k] \notin Elements(d)
  <2> SUFFICES ASSUME NEW j \in 1 .. Len(s) - 1, d[j] = s[k]
               PROVE  FALSE
    BY <1>2 DEF Elements
  <2>1. CASE j < k
    BY <2>1, <1>1, <1>2 DEF Distinct
  <2>2. CASE j >= k
    BY <2>2, <1>1, <1>2 DEF Distinct
  <2> QED BY <2>1, <2>2, <1>1
<1>6. Distinct(d)
  <2> SUFFICES ASSUME NEW i \in 1 .. Len(s) - 1, NEW j \in 1 .. Len(s) - 1, d[i] = d[j]
               PROVE  i = j
    BY <1>2 DEF Distinct
  <2> DEFINE f(m) == IF m < k THEN m ELSE m + 1
  <2>1. f(i) \in 1 .. Len(s) /\ f(j) \in 1 .. Len(s) /\ s[f(i)] = s[f(j)]
    BY <1>1, <1>2
  <2>2. f(i) = f(j)
    BY <2>1, <1>1 DEF Distinct
  <2> QED BY <2>2, <1>1
<1> QED BY <1>1, <1>3, <1>4, <1>5, <1>6

\* Whatever clients and accept() do, the backlog holds connections that arrived, none
\* of them twice.
LEMMA ListenStep ==
    ASSUME ListenTypeOK, Distinct(backlog), Elements(backlog) \subseteq arrived,
           \/ \E c \in Conns : ConnArrives(c)
           \/ \E k \in DOMAIN backlog : ConnAborted(k)
           \/ \E c \in Conns : AcceptReturns(c)
    PROVE  ListenTypeOK' /\ Distinct(backlog)' /\ (Elements(backlog) \subseteq arrived)'
<1>1. ASSUME NEW c \in Conns, ConnArrives(c)
      PROVE  ListenTypeOK' /\ Distinct(backlog') /\ Elements(backlog') \subseteq arrived'
  <2>1. c \notin Elements(backlog)
    BY <1>1 DEF ConnArrives
  <2> QED BY <1>1, <2>1, AppendLemma DEF ConnArrives, ListenTypeOK
<1>2. ASSUME NEW k \in DOMAIN backlog, ConnAborted(k)
      PROVE  ListenTypeOK' /\ Distinct(backlog') /\ Elements(backlog') \subseteq arrived'
  BY <1>2, DropLemma DEF ConnAborted, ListenTypeOK
<1>3. ASSUME NEW c \in Conns, AcceptReturns(c)
      PROVE  ListenTypeOK' /\ Distinct(backlog') /\ Elements(backlog') \subseteq arrived'
  BY <1>3, TailLemma DEF AcceptReturns, ListenTypeOK
<1> QED BY <1>1, <1>2, <1>3 DEF Distinct, Elements

-----------------------------------------------------------------------------
(* Connections on their way through a server, as one line.                  *)

\* The waiting line without its k-th place, as Abort of ConnDispatch leaves it.
Without(s, k) == [j \in 1 .. Len(s) - 1 |-> s[IF j < k THEN j ELSE j + 1]]

\* A line of connections of which the server has the first ones, p, and the kernel the
\* others, b: clients add at its end and may leave it anywhere in the kernel's part.
LEMMA LineClient ==
    ASSUME NEW S, NEW p \in Seq(S), NEW b \in Seq(S)
    PROVE  /\ \A c \in S : p \o Append(b, c) = Append(p \o b, c)
           /\ \A k \in DOMAIN b :
                /\ Len(p) + k \in DOMAIN (p \o b) /\ (p \o b)[Len(p) + k] = b[k]
                /\ p \o DropAt(b, k) = Without(p \o b, Len(p) + k)
<1>1. \A c \in S : p \o Append(b, c) = Append(p \o b, c)
  OBVIOUS
<1>2. ASSUME NEW k \in DOMAIN b
      PROVE  /\ Len(p) + k \in DOMAIN (p \o b) /\ (p \o b)[Len(p) + k] = b[k]
             /\ p \o DropAt(b, k) = Without(p \o b, Len(p) + k)
  <2>1. /\ Len(p) \in Nat /\ Len(b) \in Nat /\ k \in 1 .. Len(b) /\ Len(p \o b) = Len(p) + Len(b)
        /\ p \o b \in Seq(S) /\ DOMAIN (p \o b) = 1 .. Len(p) + Len(b)
        /\ \A j \in 1 .. Len(p) : (p \o b)[j] = p[j]
        /\ \A j \in 1 .. Len(b) : (p \o b)[Len(p) + j] = b[j]
    OBVIOUS
  <2> DEFINE d == DropAt(b, k)
             e == Without(p \o b, Len(p) + k)
  <2>2. d \in Seq(S) /\ Len(d) = Len(b) - 1
        /\ \A j \in 1 .. Len(b) - 1 : d[j] = IF j < k THEN b[j] ELSE b[j + 1]
    <3>1. d \in [1 .. Len(b) - 1 -> S] /\ Len(b) - 1 \in Nat
      BY <2>1 DEF DropAt
    <3> QED BY <3>1 DEF DropAt
  <2>3. e \in [1 .. Len(p) + Len(b) - 1 -> S] /\ Len(p) + Len(b) - 1 \in Nat
    BY <2>1 DEF Without
  <2>4. /\ e \in Seq(S) /\ Len(e) = Len(p) + Len(b) - 1
        /\ \A j \in 1 .. Len(p) + Len(b) - 1 :
              e[j] = (p \o b)[IF j < Len(p) + k THEN j ELSE j + 1]
    BY <2>1, <2>3 DEF Without
  <2> HIDE DEF d, e
  <2>5. /\ p \o d \in Seq(S) /\ Len(p \o d) = Len(p) + Len(b) - 1
        /\ \A j \in 1 .. Len(p) : (p \o d)[j] = p[j]
        /\ \A j \in 1 .. Len(b) - 1 : (p \o d)[Len(p) + j] = d[j]
    <3>1. d \in Seq(S) /\ Len(d) = Len(b) - 1 /\ Len(p) \in Nat /\ Len(b) \in Nat
      BY <2>1, <2>2
    <3>2. /\ p \o d \in Seq(S) /\ Len(p \o d) = Len(p) + Len(d)
          /\ \A j \in 1 .. Len(p) : (p \o d)[j] = p[j]
          /\ \A j \in 1 .. Len(d) : (p \o d)[Len(p) + j] = d[j]
      BY <3>1
    <3> QED BY <3>1, <3>2
  <2>6. ASSUME NEW j \in 1 .. Len(p) + Len(b) - 1 PROVE (p \o d)[j] = e[j]
    <3>1. e[j] = (p \o b)[IF j < Len(p) + k THEN j ELSE j + 1]
      BY <2>4
    <3>2. CASE j <= Len(p)
      BY <2>1, <2>5, <3>1, <3>2
    <3>3. CASE j > Len(p)
      <4>1. PICK m \in 1 .. Len(b) - 1 : j = Len(p) + m
        <5>1. j - Len(p) \in 1 .. Len(b) - 1 /\ j = Len(p) + (j - Len(p))
          BY <2>1, <3>3
        <5> QED BY <5>1
      <4>2. (p \o d)[j] = IF m < k THEN b[m] ELSE b[m + 1]
        BY <2>2, <2>5, <4>1
      <4>3. e[j] = (p \o b)[IF m < k THEN Len(p) + m ELSE Len(p) + (m + 1)]
        BY <2>1, <3>1, <4>1
      <4>4. CASE m < k
        BY <2>1, <4>2, <4>3, <4>4
      <4>5. CASE m >= k
        <5>1. m + 1 \in 1 .. Len(b) /\ ~(m < k)
          BY <2>1, <4>5
        <5>2. e[j] = (p \o b)[Len(p) + (m + 1)] /\ (p \o d)[j] = b[m + 1]
          BY <4>2, <4>3, <5>1
        <5> QED BY <2>1, <5>1, <5>2
      <4>6. m < k \/ m >= k
        BY <2>1
      <4> QED BY <4>4, <4>5, <4>6, Zenon
    <3>4. j <= Len(p) \/ j > Len(p)
      BY <2>1
    <3> QED BY <3>2, <3>3, <3>4, Zenon
  <2>7. p \o d = e
    BY <2>4, <2>5, <2>6, SeqEqual
  <2> QED BY <2>1, <2>7 DEF d, e
<1> QED BY <1>1, <1>2


\* The server moves the connection at the head of the kernel's part of the line into its
\* own hand, and from there to the end of what it has queued; the line does not change.
LEMMA LineMain ==
    ASSUME NEW S, NEW p \in Seq(S), NEW b \in Seq(S)
    PROVE  /\ b # <<>> => (p \o <<Head(b)>>) \o Tail(b) = (p \o <<>>) \o b
           /\ \A c \in S : (Append(p, c) \o <<>>) \o b = (p \o <<c>>) \o b
<1>1. b # <<>> => (p \o <<Head(b)>>) \o Tail(b) = (p \o <<>>) \o b
  OBVIOUS
<1>2. ASSUME NEW c \in S PROVE (Append(p, c) \o <<>>) \o b = (p \o <<c>>) \o b
  OBVIOUS
<1> QED BY <1>1, <1>2
=============================================================================
