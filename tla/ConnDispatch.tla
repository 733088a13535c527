---------------------------- MODULE ConnDispatch ----------------------------
(***************************************************************************)
(* What every server of server/ promises its clients, whatever its process *)
(* or thread structure: connections are handed to workers in the order in   *)
(* which the kernel completed them, each to exactly one worker, and none    *)
(* disappears unless its own client aborts it, the worker serving it dies,  *)
(* or the whole server exits.                                               *)
(***************************************************************************)
EXTENDS Naturals, Sequences

CONSTANTS Workers,  \* the children or threads that process requests
          Conns,    \* the connections the clients may open
          NoConn    \* "no connection"

VARIABLES queue,    \* completed connections no worker has yet, oldest first
          serving,  \* serving[w]: the connection worker w is processing
          arrived,  \* connections the kernel completed
          aborted,  \* connections reset by their client before a worker got them
          done,     \* connections processed and closed
          up        \* the server is running

dispatchVars == <<queue, serving, arrived, aborted, done, up>>

Init == /\ queue = <<>>
        /\ serving = [w \in Workers |-> NoConn]
        /\ arrived = {} /\ aborted = {} /\ done = {}
        /\ up = TRUE

Arrive(c) == /\ up /\ c \notin arrived
             /\ arrived' = arrived \cup {c}
             /\ queue' = Append(queue, c)
             /\ UNCHANGED <<serving, aborted, done, up>>

Abort(k) == /\ up /\ k \in DOMAIN queue
            /\ queue' = [j \in 1 .. Len(queue) - 1 |-> queue[IF j < k THEN j ELSE j + 1]]
            /\ aborted' = aborted \cup {queue[k]}
            /\ UNCHANGED <<serving, arrived, done, up>>

Take(w) == /\ up /\ queue # <<>> /\ serving[w] = NoConn
           /\ serving' = [serving EXCEPT ![w] = Head(queue)]
           /\ queue' = Tail(queue)
           /\ UNCHANGED <<arrived, aborted, done, up>>

Finish(w) == /\ serving[w] # NoConn
             /\ done' = done \cup {serving[w]}
             /\ serving' = [serving EXCEPT ![w] = NoConn]
             /\ UNCHANGED <<queue, arrived, aborted, up>>

\* A worker process dies and takes the one connection it serves with it.
Die(w) == /\ serving[w] # NoConn
          /\ serving' = [serving EXCEPT ![w] = NoConn]
          /\ UNCHANGED <<queue, arrived, aborted, done, up>>

\* The server stops accepting: the kernel resets what is queued, and some workers
\* (all of them, if they are threads of one process) end with it.
Exit == /\ up /\ up' = FALSE
        /\ queue' = <<>>
        /\ \E W \in SUBSET Workers :
              serving' = [w \in Workers |-> IF w \in W THEN NoConn ELSE serving[w]]
        /\ UNCHANGED <<arrived, aborted, done>>

Next == \/ \E c \in Conns : Arrive(c)
        \/ \E k \in DOMAIN queue : Abort(k)
        \/ \E w \in Workers : Take(w) \/ Finish(w) \/ Die(w)
        \/ Exit

Spec == Init /\ [][Next]_dispatchVars
=============================================================================
