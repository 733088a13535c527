---------------------------- MODULE FdPassServer ----------------------------
(***************************************************************************)
(* serv05: a preforked TCP server whose parent accepts and passes each      *)
(* connected descriptor to an idle child over a stream pipe                 *)
(* (server/serv05.c, child05.c, child.h, lib/read_fd.c, lib/write_fd.c).    *)
(* A child says that it is ready again by writing one byte on its standard  *)
(* error, which child_make() made its end of the pipe.                      *)
(***************************************************************************)
EXTENDS ListenQueue

CONSTANTS NChildren,  \* the number of children
          MsgLen      \* the bytes of a message of err_quit() or err_sys()

ASSUME FdPassAssumption == NChildren \in Nat \ {0} /\ MsgLen \in Nat \ {0}

Children == 0 .. NChildren - 1

VARIABLES
    child_status, \* cptr[].child_status: 0 if the parent thinks the child is ready
    child_count,  \* cptr[].child_count
    navail,
    mpc,          \* where main() is
    lset, rset,   \* the result of select(): listenfd's bit, the children's bits left
    toChild,      \* toChild[i]: descriptors on their way to child i
    bytes,        \* bytes[i]: bytes child i wrote that the parent has not read
    cpc, cconn,   \* child_main(): where each child is, its connfd
    closed,       \* connections processed and closed
    died,         \* connections that a child's error exit cut off
    up, exitBy    \* the parent is running; why it stopped

parentVars == <<child_status, child_count, navail, mpc, lset, rset>>
childVars  == <<cpc, cconn, closed, died>>
pipeVars   == <<toChild, bytes>>
procVars   == <<up, exitBy>>
vars == <<backlog, arrived, aborted, child_status, child_count, navail, mpc, lset, rset,
          toChild, bytes, cpc, cconn, closed, died, up, exitBy>>

Reasons == {"running", "noavail", "eof", "sigpipe", "accept", "sigint"}

TypeOK ==
    /\ ListenTypeOK
    /\ child_status \in [Children -> {0, 1}]
    /\ child_count \in [Children -> Nat]
    /\ navail \in Nat
    /\ mpc \in {"select", "accept", "scan"}
    /\ lset \in BOOLEAN /\ rset \subseteq Children
    /\ toChild \in [Children -> Seq(Conns)]
    /\ bytes \in [Children -> Nat]
    /\ cpc \in [Children -> {"read", "child", "close", "ready", "dead"}]
    /\ cconn \in [Children -> Conns \cup {NoConn}]
    /\ closed \subseteq Conns /\ died \subseteq Conns
    /\ up \in BOOLEAN /\ exitBy \in Reasons

\* Every child has been forked and the parent enters its loop.
Init ==
    /\ ListenInit
    /\ child_status = [i \in Children |-> 0]
    /\ child_count = [i \in Children |-> 0]
    /\ navail = NChildren
    /\ mpc = "select" /\ lset = FALSE /\ rset = {}
    /\ toChild = [i \in Children |-> <<>>]
    /\ bytes = [i \in Children |-> 0]
    /\ cpc = [i \in Children |-> "read"]
    /\ cconn = [i \in Children |-> NoConn]
    /\ closed = {} /\ died = {}
    /\ up = TRUE /\ exitBy = "running"

Alive(i) == cpc[i] # "dead"

Client == /\ up
          /\ \/ \E c \in Conns : ConnArrives(c)
             \/ \E k \in DOMAIN backlog : ConnAborted(k)
          /\ UNCHANGED <<parentVars, pipeVars, childVars, procVars>>

ParentExits(why) ==
    /\ up' = FALSE /\ exitBy' = why
    /\ UNCHANGED <<parentVars, pipeVars, childVars>>

-----------------------------------------------------------------------------
(* The parent.                                                              *)

\* listenfd is left out of the set when no child is available.
ParentSelect ==
    /\ up /\ mpc = "select"
    /\ lset' = (navail > 0 /\ backlog # <<>>)
    /\ rset' = {i \in Children : bytes[i] > 0 \/ ~Alive(i)}
    /\ lset' \/ rset' # {}
    /\ mpc' = IF lset' THEN "accept" ELSE "scan"
    /\ UNCHANGED <<listenVars, child_status, child_count, navail, pipeVars, childVars, procVars>>

MarkBusy(i) == child_status' = [child_status EXCEPT ![i] = 1]

\* The two counts of available children.
TakeOne_Forgotten == UNCHANGED navail
TakeOne == navail' = navail - 1
GiveOne == navail' = navail + 1

\* Write_fd() to child i
PassTo_AllFree(i, c) ==
    toChild' = [j \in Children |-> IF child_status[j] = 0 THEN Append(toChild[j], c) ELSE toChild[j]]
PassTo(i, c) == toChild' = [toChild EXCEPT ![i] = Append(@, c)]

\* The first child whose status is 0 gets the connection; a child that has exited
\* makes Write_fd() raise SIGPIPE.  The rest of the loop is skipped when select()
\* reported nothing else.
ParentAccept ==
    /\ up /\ mpc = "accept"
    /\ \E c \in Conns :
        /\ AcceptReturns(c)
        /\ LET Free == {i \in Children : child_status[i] = 0} IN
           \/ Free = {} /\ ParentExits("noavail")
           \/ \E i \in Free :
                /\ \A j \in Free : i <= j
                /\ IF Alive(i)
                   THEN /\ MarkBusy(i)
                        /\ child_count' = [child_count EXCEPT ![i] = @ + 1]
                        /\ TakeOne
                        /\ PassTo(i, c)
                        /\ mpc' = IF rset = {} THEN "select" ELSE "scan"
                        /\ UNCHANGED <<lset, rset, bytes, childVars, procVars>>
                   ELSE ParentExits("sigpipe")

ParentAcceptFails ==
    up /\ mpc = "accept" /\ ParentExits("accept") /\ UNCHANGED listenVars

\* One byte of the next child that select() reported; end-of-file is fatal.
ParentRead ==
    /\ up /\ mpc = "scan"
    /\ \E i \in rset :
        /\ \A j \in rset : i <= j
        /\ IF bytes[i] > 0
           THEN /\ bytes' = [bytes EXCEPT ![i] = @ - 1]
                /\ child_status' = [child_status EXCEPT ![i] = 0]
                /\ GiveOne
                /\ rset' = rset \ {i}
                /\ mpc' = IF rset' = {} THEN "select" ELSE "scan"
                /\ UNCHANGED <<child_count, lset, toChild, childVars, procVars>>
           ELSE ParentExits("eof")
    /\ UNCHANGED listenVars

\* sig_int() terminates all the children and waits for them.
SigInt ==
    /\ up
    /\ up' = FALSE /\ exitBy' = "sigint"
    /\ cpc' = [i \in Children |-> "dead"]
    /\ cconn' = [i \in Children |-> NoConn]
    /\ died' = died \cup ({cconn[i] : i \in Children} \ {NoConn})
    /\ UNCHANGED <<listenVars, parentVars, pipeVars, closed>>

-----------------------------------------------------------------------------
(* The children.                                                            *)

\* The parent's end of child i's pipe is also open in every child forked after i,
\* which inherited it; child i closed its own copy.
PeerOpen_OwnCopyKept(i) == up \/ \E j \in Children : j >= i /\ Alive(j)
PeerOpen(i) == up \/ \E j \in Children : j > i /\ Alive(j)

ChildGoto(i, pc) == cpc' = [cpc EXCEPT ![i] = pc]

ChildReadFd(i) ==
    /\ cpc[i] = "read" /\ toChild[i] # <<>>
    /\ cconn' = [cconn EXCEPT ![i] = Head(toChild[i])]
    /\ toChild' = [toChild EXCEPT ![i] = Tail(@)]
    /\ ChildGoto(i, "child")
    /\ UNCHANGED <<listenVars, parentVars, bytes, closed, died, procVars>>

\* "read_fd returned 0": nobody holds the other end any more.
ChildReadEOF(i) ==
    /\ cpc[i] = "read" /\ toChild[i] = <<>> /\ ~PeerOpen(i)
    /\ ChildGoto(i, "dead")
    /\ UNCHANGED <<listenVars, parentVars, pipeVars, cconn, closed, died, procVars>>

WebChildReturns(i) ==
    /\ cpc[i] = "child"
    /\ ChildGoto(i, "close")
    /\ UNCHANGED <<listenVars, parentVars, pipeVars, cconn, closed, died, procVars>>

\* err_quit() or err_sys() in web_child(): the message goes to standard error, which
\* is the pipe to the parent.
WebChildQuits(i) ==
    /\ cpc[i] = "child"
    /\ bytes' = [bytes EXCEPT ![i] = IF PeerOpen(i) THEN @ + MsgLen ELSE @]
    /\ died' = died \cup {cconn[i]}
    /\ cconn' = [cconn EXCEPT ![i] = NoConn]
    /\ ChildGoto(i, "dead")
    /\ UNCHANGED <<listenVars, parentVars, toChild, closed, procVars>>

ChildClose(i) ==
    /\ cpc[i] = "close"
    /\ closed' = closed \cup {cconn[i]}
    /\ cconn' = [cconn EXCEPT ![i] = NoConn]
    /\ ChildGoto(i, "ready")
    /\ UNCHANGED <<listenVars, parentVars, pipeVars, died, procVars>>

\* One byte to the parent, or SIGPIPE when nobody can read it.
ChildReady(i) ==
    /\ cpc[i] = "ready"
    /\ \/ /\ PeerOpen(i)
          /\ bytes' = [bytes EXCEPT ![i] = @ + 1]
          /\ ChildGoto(i, "read")
       \/ /\ ~PeerOpen(i)
          /\ ChildGoto(i, "dead")
          /\ UNCHANGED bytes
    /\ UNCHANGED <<listenVars, parentVars, toChild, cconn, closed, died, procVars>>

ParentStep == ParentSelect \/ ParentAccept \/ ParentRead
ChildStep(i) == ChildReadFd(i) \/ ChildReadEOF(i) \/ ChildClose(i) \/ ChildReady(i)

Next ==
    \/ Client
    \/ ParentStep \/ ParentAcceptFails
    \/ SigInt
    \/ \E i \in Children : ChildStep(i) \/ WebChildReturns(i) \/ WebChildQuits(i)

Spec == Init /\ [][Next]_vars

\* Every process that can run is scheduled; nothing is assumed of the clients, so
\* web_child() need not return.
FairSpec == Spec /\ WF_vars(ParentStep) /\ \A i \in Children : WF_vars(ChildStep(i))

-----------------------------------------------------------------------------
(* Properties.                                                              *)

Dead == {i \in Children : ~Alive(i)}

\* Types are kept, and what the parent believes of a child that is alive is true of it:
\* status 0 means that it waits in read_fd() with nothing under way in either
\* direction, status 1 that it has exactly one thing to do or to say (serv05.c:60,75;
\* child05.c:41-49).
Outstanding(i) == Len(toChild[i]) + bytes[i] + (IF cpc[i] = "read" THEN 0 ELSE 1)
\* "no available children" is never the reason for the parent's exit, unless a child
\* has died: navail agrees with the statuses it summarises (serv05.c:45,58,62,76).
BeliefTrue ==
    /\ TypeOK
    /\ up => \A i \in Children : Alive(i) => child_status[i] = Outstanding(i)
    /\ exitBy = "noavail" => Dead # {}

\* A connection in the listening queue is accepted unless the server stops or every
\* child is held up by its client (serv05.c:44-47).
AllBusy == \A i \in Children : cpc[i] = "child"
\* When the parent has gone, every child ends too, although later children hold copies
\* of its pipe, unless its own client or that of a later child holds it up
\* (child05.c:22-25,41).
AcceptsThenEnds ==
    /\ \A c \in Conns : (up /\ c \in Elements(backlog))
                         ~> (c \notin Elements(backlog) \/ AllBusy \/ ~up)
    /\ \A i \in Children :
          ~up ~> (cpc[i] = "dead" \/ \E j \in Children : j >= i /\ cpc[j] = "child")

\* serv05 implements ConnDispatch: no descriptor is passed to two children or lost on the
\* way (serv05.c:54-65).  A child has a connection as soon as the parent has chosen it.
Dispatch == INSTANCE ConnDispatch WITH
    Workers <- Children,
    queue   <- IF up THEN backlog ELSE <<>>,
    serving <- [i \in Children |-> IF toChild[i] # <<>> /\ Alive(i) THEN Head(toChild[i])
                                   ELSE cconn[i]],
    done    <- closed
ImplementsDispatch == Dispatch!Spec

\* "child_status; 0 = ready" (child.h:4): a child the parent counts as ready can take
\* a connection.  A dying child's message breaks this.
ZeroMeansReady == up => \A i \in Children : child_status[i] = 0 => Alive(i)
=============================================================================
