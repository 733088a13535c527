---------------------------- MODULE ListenQueue ----------------------------
(***************************************************************************)
(* A listening socket as the servers see it: the kernel's queue of          *)
(* completed connections, what clients do to it, and Accept().  Every       *)
(* server module EXTENDS this one.                                          *)
(***************************************************************************)
EXTENDS Naturals, Sequences, FiniteSets

CONSTANTS Conns,    \* the connections clients may open, one name each
          NoConn    \* no descriptor

ASSUME ConnAssumption == NoConn \notin Conns

VARIABLES backlog,  \* completed connections no accept() has returned, oldest first
          arrived,  \* connections the kernel ever completed
          aborted   \* connections their client reset while in the backlog

listenVars == <<backlog, arrived, aborted>>

Elements(s) == {s[k] : k \in DOMAIN s}

\* s without its k-th element
DropAt(s, k) == [j \in 1 .. Len(s) - 1 |-> IF j < k THEN s[j] ELSE s[j + 1]]

ListenTypeOK ==
    /\ backlog \in Seq(Conns)
    /\ arrived \subseteq Conns
    /\ aborted \subseteq Conns

\* No connection is in the backlog twice.
Distinct(s) == \A i, j \in DOMAIN s : s[i] = s[j] => i = j

ListenInit == backlog = <<>> /\ arrived = {} /\ aborted = {}

\* The kernel completes the handshake with a client.
ConnArrives(c) ==
    /\ c \notin arrived
    /\ arrived' = arrived \cup {c}
    /\ backlog' = Append(backlog, c)
    /\ UNCHANGED aborted

\* A client resets a connection nobody has accepted yet (clientrst.c does): the
\* kernel drops it and accept() never returns it.
ConnAborted(k) ==
    /\ k \in DOMAIN backlog
    /\ backlog' = DropAt(backlog, k)
    /\ aborted' = aborted \cup {backlog[k]}
    /\ UNCHANGED arrived

\* Accept() returns the oldest connection; it blocks while there is none, and retries
\* on ECONNABORTED and EPROTO, so an aborted connection is never seen.
AcceptReturns(c) ==
    /\ backlog # <<>>
    /\ c = Head(backlog)
    /\ backlog' = Tail(backlog)
    /\ UNCHANGED <<arrived, aborted>>
=============================================================================
