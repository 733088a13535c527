-------------------------------- MODULE Sctp --------------------------------
(***************************************************************************)
(* sctp/: the echo servers and clients.  A server reads all associations    *)
(* from one socket and answers on the next stream; sctpserv05 puts a long   *)
(* message together from the pieces the partial delivery API returns, and   *)
(* sctpserv_fork peels an association off and leaves it to a child.  No     *)
(* program depends on the order of messages, so the network keeps none.     *)
(***************************************************************************)
EXTENDS Integers, FiniteSets, Functions

CONSTANTS SctpServers,    \* which servers to look at
          SctpClients,    \* the clients
          SctpStreams,    \* SERV_MAX_SCTP_STRM, and a client's outgoing streams
          SctpLines,      \* bound: lines all clients send
          PdapiIncr, PdapiThreshold,   \* SCTP_PDAPI_INCR_SZ, SCTP_PDAPI_NEED_MORE_THRESHOLD
          SctpBig,        \* length of the message that only comes in pieces
          SctpInterleave  \* the stack interleaves the pieces of different associations

ASSUME SctpAssumption ==
    /\ SctpStreams \in Nat \ {0} /\ SctpLines \in Nat /\ SctpBig \in Nat \ {0}
    /\ PdapiThreshold \in Nat \ {0} /\ PdapiIncr \in Nat /\ PdapiIncr >= PdapiThreshold
    /\ SctpInterleave \in BOOLEAN

VARIABLES xSrv, xOut,  \* the server and the outgoing streams its associations have
          xMode,       \* what each client runs
          xUp,         \* each association: "none", "up", "closing" (the server has sent MSG_EOF)
          xPeeled,     \* clients whose association is on a socket of its own
          xIn, xBack,  \* messages for the server, replies for the clients
          xPc,         \* the server
          xCur,        \* the message it works on; got is what the buffer holds of it
          xBuf,        \* sctp_pdapi_rdbuf_sz
          xCli,        \* the clients: "idle", "wait" or "gone"
          xLine,       \* lines each client has sent
          xShown,      \* the replies it has read to the last of them
          xEchoes,     \* how often each message has been echoed, and how
          xMixed       \* a reply was put together from two messages

sctpVars == <<xSrv, xOut, xMode, xUp, xPeeled, xIn, xBack, xPc, xCur, xBuf, xCli, xLine, xShown,
              xEchoes, xMixed>>

\* The servers.  All but two take an argument that turns stream_increment off.
Server(incr, eof, autoclose, events) ==
    [incr |-> incr, eof |-> eof, auto |-> autoclose, events |-> events, pdapi |-> FALSE, fork |-> FALSE]
sctpserv01(i) == Server(i, FALSE, FALSE, FALSE)
sctpserv02(i) == Server(i, FALSE, FALSE, FALSE)     \* asks for more streams
sctpserv03(i) == Server(i, TRUE, FALSE, FALSE)      \* sends with MSG_EOF
sctpserv04(i) == Server(i, FALSE, TRUE, FALSE)      \* sets SCTP_AUTOCLOSE
sctpserv05(i) == [Server(i, FALSE, FALSE, FALSE) EXCEPT !.pdapi = TRUE]
sctpserv06(i) == Server(i, FALSE, FALSE, TRUE)      \* subscribes to every event
sctpserv07(i) == Server(FALSE, FALSE, FALSE, TRUE)
sctpserv_fork(i) == [Server(FALSE, FALSE, FALSE, FALSE) EXCEPT !.fork = TRUE]

ServerOf(name, i) ==
    CASE name = "sctpserv01" -> sctpserv01(i) [] name = "sctpserv02" -> sctpserv02(i)
      [] name = "sctpserv03" -> sctpserv03(i) [] name = "sctpserv04" -> sctpserv04(i)
      [] name = "sctpserv05" -> sctpserv05(i) [] name = "sctpserv06" -> sctpserv06(i)
      [] name = "sctpserv07" -> sctpserv07(i) [] OTHER -> sctpserv_fork(i)

\* The clients: the streams a line is sent to, and whether association events are read.
sctpstr_cli == {{s} : s \in 0 .. SctpStreams - 1}
sctpstr_cli_un == {{s} : s \in 0 .. SctpStreams - 1}
sctpstr_cli_echoall == {0 .. SctpStreams - 1}
StreamsOf(mode) == CASE mode = "echoall" -> sctpstr_cli_echoall [] mode = "unordered" -> sctpstr_cli_un [] OTHER -> sctpstr_cli
Modes == {"strcli", "unordered", "strcli1", "echoall"}

\* A message: its client, the line and the stream it was sent on (of), the stream it is on.
NoMsg == [c |-> 0, line |-> 0, of |-> 0, s |-> 0, len |-> 0, note |-> FALSE]

SctpStart(srv, out, mode, where) ==
    /\ xSrv = srv /\ xOut = out /\ xMode = mode
    /\ xUp = [c \in SctpClients |-> "none"] /\ xPeeled = {} /\ xIn = {} /\ xBack = {}
    /\ xPc = where /\ xCur = NoMsg /\ xBuf = 0
    /\ xCli = [c \in SctpClients |-> "idle"] /\ xLine = [c \in SctpClients |-> 0]
    /\ xShown = [c \in SctpClients |-> {}] /\ xEchoes = {} /\ xMixed = FALSE

\* A client of another kind, "big", sends what sctpserv05 alone can put together.  Bound:
\* one client runs one of the four functions, the others run sctpstr_cli(), and
\* only sctpserv01 is also run with the argument 0.
SctpInit ==
    \E name \in SctpServers, i \in BOOLEAN, out \in 1 .. SctpStreams, mode \in [SctpClients -> Modes \cup {"big"}] :
       /\ (\E c \in SctpClients : mode[c] = "big") => name = "sctpserv05"
       /\ name # "sctpserv01" => i
       /\ Cardinality({c \in SctpClients : mode[c] # "strcli"}) <= 1
       /\ SctpStart(ServerOf(name, i), out, mode, "recv")

-----------------------------------------------------------------------------
(* The clients                                                              *)

Msg(c, line, s) == [c |-> c, line |-> line, of |-> s, s |-> s, note |-> FALSE, len |-> IF xMode[c] = "big" THEN SctpBig ELSE 1]
Note(c) == [NoMsg EXCEPT !.c = c, !.note = TRUE]

\* A line: a message on one stream or on all.  The first one starts an association, which
\* both ends may be told of.  An association that is being shut down takes no more messages.
SctpSendLine(c) ==
    /\ xCli[c] = "idle" /\ FoldFunction(+, 0, xLine) < SctpLines
    /\ \/ /\ xUp[c] # "closing"
          /\ \E streams \in StreamsOf(xMode[c]) :
                xIn' = xIn \cup {Msg(c, xLine[c] + 1, s) : s \in streams}
                           \cup (IF xUp[c] = "none" /\ xSrv.events THEN {Note(c)} ELSE {})
          /\ xBack' = xBack \cup (IF xUp[c] = "none" /\ xMode[c] = "strcli1" THEN {Note(c)} ELSE {})
          /\ xUp' = [xUp EXCEPT ![c] = "up"] /\ xCli' = [xCli EXCEPT ![c] = "wait"]
          /\ xLine' = [xLine EXCEPT ![c] = @ + 1] /\ xShown' = [xShown EXCEPT ![c] = {}]
       \/ /\ xUp[c] = "closing" /\ xCli' = [xCli EXCEPT ![c] = "gone"]
          /\ UNCHANGED <<xIn, xBack, xUp, xLine, xShown>>
    /\ UNCHANGED <<xSrv, xOut, xMode, xPeeled, xPc, xCur, xBuf, xEchoes, xMixed>>

\* The replies a line waits for: one, or one per stream.
Awaited(c) == IF xMode[c] = "echoall" THEN SctpStreams ELSE 1

ReadReply(c, r) ==
    /\ xCli[c] = "wait" /\ r \in xBack /\ r.c = c /\ ~r.note
    /\ xBack' = xBack \ {r} /\ xShown' = [xShown EXCEPT ![c] = @ \cup {r}]
    /\ xCli' = [xCli EXCEPT ![c] = IF Cardinality(xShown[c]) + 1 = Awaited(c) THEN "idle" ELSE "wait"]
    /\ UNCHANGED <<xSrv, xOut, xMode, xUp, xPeeled, xIn, xPc, xCur, xBuf, xLine, xEchoes, xMixed>>

\* sctp_strcli1.c reads on after a notification.
check_notification(c) ==
    /\ xCli[c] = "wait" /\ Note(c) \in xBack
    /\ xBack' = xBack \ {Note(c)}
    /\ UNCHANGED <<xSrv, xOut, xMode, xUp, xPeeled, xIn, xPc, xCur, xBuf, xCli, xLine, xShown, xEchoes, xMixed>>

\* The end of a client, also in the middle: MSG_ABORT, close() or a signal.  What was still
\* under way is discarded with the association.
Leave(c) ==
    /\ xCli[c] # "gone" /\ xCli' = [xCli EXCEPT ![c] = "gone"]
    /\ xUp' = [xUp EXCEPT ![c] = "none"] /\ xPeeled' = xPeeled \ {c}
    /\ xIn' = {m \in xIn : m.c # c} /\ xBack' = {m \in xBack : m.c # c}
    /\ UNCHANGED <<xSrv, xOut, xMode, xPc, xCur, xBuf, xLine, xShown, xEchoes, xMixed>>

\* An association ends: after MSG_EOF, or by SCTP_AUTOCLOSE when nothing is under way.
AssocEnds(c) ==
    /\ \/ xUp[c] = "closing"
       \/ xUp[c] = "up" /\ xSrv.auto /\ ~(xPc # "recv" /\ xCur.c = c) /\ xCli[c] = "idle"
    /\ \A m \in xIn \cup xBack : m.c # c
    /\ xUp' = [xUp EXCEPT ![c] = "none"]
    /\ UNCHANGED <<xSrv, xOut, xMode, xPeeled, xIn, xBack, xPc, xCur, xBuf, xCli, xLine, xShown, xEchoes, xMixed>>

-----------------------------------------------------------------------------
(* The server                                                               *)

\* Sctp_recvmsg(): a message, or with pdapi_recvmsg() perhaps only its first piece.
Receive1(m) ==
    /\ xPc = "recv" /\ m \in xIn /\ m.c \notin xPeeled /\ ~m.note
    /\ IF xSrv.pdapi
       THEN /\ xBuf' = IF xBuf = 0 THEN PdapiIncr ELSE xBuf
            /\ \E n \in 1 .. m.len :
                  /\ n <= xBuf' /\ xCur' = [m EXCEPT !.len = n]
                  /\ xIn' = (xIn \ {m}) \cup (IF n < m.len THEN {[m EXCEPT !.len = @ - n]} ELSE {})
                  /\ xPc' = IF n < m.len THEN "more" ELSE "stream"
       ELSE xCur' = m /\ xIn' = xIn \ {m} /\ xPc' = "stream" /\ UNCHANGED xBuf
    /\ UNCHANGED <<xSrv, xOut, xMode, xUp, xPeeled, xBack, xCli, xLine, xShown, xEchoes, xMixed>>

\* print_notification(), and back to Sctp_recvmsg().
print_notification_Returns(m) ==
    /\ xPc = "recv" /\ m \in xIn /\ m.note
    /\ xPc' = "returned" /\ xIn' = xIn \ {m}
    /\ UNCHANGED <<xSrv, xOut, xMode, xUp, xPeeled, xBack, xCur, xBuf, xCli, xLine, xShown, xEchoes, xMixed>>
print_notification(m) ==
    /\ xPc = "recv" /\ m \in xIn /\ m.note
    /\ xIn' = xIn \ {m}
    /\ UNCHANGED <<xSrv, xOut, xMode, xUp, xPeeled, xBack, xPc, xCur, xBuf, xCli, xLine, xShown, xEchoes, xMixed>>

\* The size of the buffer for the next piece
Grown == IF xBuf - xCur.len < PdapiThreshold THEN xBuf + PdapiIncr ELSE xBuf

\* pdapi_recvmsg() while MSG_EOR is not set: the next piece is appended, whose it is is not
\* asked.  When the association has gone the next one is of another message.
pdapi_recvmsg(m) ==
    /\ xPc = "more" /\ m \in xIn /\ ~m.note
    /\ IF m.c = xCur.c THEN m.line = xCur.line ELSE SctpInterleave \/ xCli[xCur.c] = "gone"
    /\ xBuf' = Grown
    /\ \E n \in 1 .. m.len :
          /\ n <= xBuf' - xCur.len
          /\ xCur' = [xCur EXCEPT !.len = @ + n]
          /\ xIn' = (xIn \ {m}) \cup (IF n < m.len THEN {[m EXCEPT !.len = @ - n]} ELSE {})
          /\ xPc' = IF n < m.len THEN "more" ELSE "stream"
    /\ xMixed' = (xMixed \/ m.c # xCur.c)
    /\ UNCHANGED <<xSrv, xOut, xMode, xUp, xPeeled, xBack, xCli, xLine, xShown, xEchoes>>

\* Or Sctp_recvmsg() ends the message with nothing, and the pieces that came are returned.
PieceLost ==
    /\ xPc = "more" /\ xCli[xCur.c] = "gone" /\ xPc' = "stream" /\ xBuf' = Grown
    /\ UNCHANGED <<xSrv, xOut, xMode, xUp, xPeeled, xIn, xBack, xCur, xCli, xLine, xShown, xEchoes, xMixed>>

\* sctp_get_no_strms() asks for the association of the address: none, and SCTP_STATUS fails.
NextStream_OffByOne(s) == IF s + 1 > xOut THEN 0 ELSE s + 1
NextStream(s) == IF s + 1 >= xOut THEN 0 ELSE s + 1

ChooseStream ==
    /\ xPc = "stream"
    /\ IF ~xSrv.incr THEN xPc' = "send" /\ UNCHANGED xCur
       ELSE IF xUp[xCur.c] = "none" THEN xPc' = "died" /\ UNCHANGED xCur
       ELSE xPc' = "send" /\ xCur' = [xCur EXCEPT !.s = NextStream(@)]
    /\ UNCHANGED <<xSrv, xOut, xMode, xUp, xPeeled, xIn, xBack, xBuf, xCli, xLine, xShown, xEchoes, xMixed>>

\* Sctp_sendmsg(): an error if there is no such stream or the association is being shut
\* down; an association that has gone is started again, and nobody answers.
Sctp_sendmsg ==
    /\ xPc = "send"
    /\ CASE xUp[xCur.c] = "none" -> xPc' = "recv" /\ UNCHANGED <<xBack, xEchoes, xUp>>
         [] xUp[xCur.c] = "closing" -> xPc' = "died" /\ UNCHANGED <<xBack, xEchoes, xUp>>
         [] xUp[xCur.c] = "up" /\ xCur.s >= xOut -> xPc' = "died_stream" /\ UNCHANGED <<xBack, xEchoes, xUp>>
         [] OTHER -> /\ xBack' = xBack \cup {xCur} /\ xEchoes' = xEchoes \cup {xCur}
                     /\ xUp' = IF xSrv.eof THEN [xUp EXCEPT ![xCur.c] = "closing"] ELSE xUp
                     /\ xPc' = IF xSrv.fork THEN "peel" ELSE "recv"
    /\ xCur' = IF xPc' = "peel" THEN xCur ELSE NoMsg
    /\ UNCHANGED <<xSrv, xOut, xMode, xPeeled, xIn, xBuf, xCli, xLine, xShown, xMixed>>

\* sctpserv_fork: sctp_peeloff(), unless the association has gone or the call fails, and fork().
Peeloff ==
    /\ xPc = "peel" /\ xPc' = "recv"
    /\ \/ UNCHANGED xPeeled
       \/ xUp[xCur.c] = "up" /\ xPeeled' = xPeeled \cup {xCur.c}
    /\ xCur' = NoMsg
    /\ UNCHANGED <<xSrv, xOut, xMode, xUp, xIn, xBack, xBuf, xCli, xLine, xShown, xEchoes, xMixed>>

\* When fork() fails the Close(connfd) of the parent ends the association.  What has not been
\* read is lost, and then the replies under way may be too.
ForkFails ==
    /\ xPc = "peel" /\ xPc' = "recv" /\ xUp[xCur.c] = "up"
    /\ xUp' = [xUp EXCEPT ![xCur.c] = "closing"]
    /\ xIn' = {m \in xIn : m.c # xCur.c}
    /\ xBack' = xBack \/ (xIn' # xIn /\ xBack' = {m \in xBack : m.c # xCur.c})
    /\ xCur' = NoMsg
    /\ UNCHANGED <<xSrv, xOut, xMode, xPeeled, xBuf, xCli, xLine, xShown, xEchoes, xMixed>>

\* str_echo() in the child: what comes on the peeled-off socket goes back on stream 0.
ChildEcho(m) ==
    /\ m \in xIn /\ m.c \in xPeeled
    /\ xIn' = xIn \ {m} /\ xBack' = xBack \cup {[m EXCEPT !.s = 0]} /\ xEchoes' = xEchoes \cup {[m EXCEPT !.s = 0]}
    /\ UNCHANGED <<xSrv, xOut, xMode, xUp, xPeeled, xPc, xCur, xBuf, xCli, xLine, xShown, xMixed>>

SctpServer ==
    \/ ChooseStream \/ Sctp_sendmsg \/ Peeloff \/ ForkFails \/ PieceLost
    \/ \E m \in xIn : Receive1(m) \/ print_notification(m) \/ pdapi_recvmsg(m) \/ ChildEcho(m)
SctpReads == \E c \in SctpClients : check_notification(c) \/ \E r \in xBack : ReadReply(c, r)

SctpNext == SctpServer \/ SctpReads \/ \E c \in SctpClients : SctpSendLine(c) \/ Leave(c) \/ AssocEnds(c)

\* The server, its children and the clients run on and read what has come for them.
SctpFair == WF_sctpVars(SctpServer) /\ WF_sctpVars(SctpReads)

SctpSpec == SctpInit /\ [][SctpNext]_sctpVars /\ SctpFair

-----------------------------------------------------------------------------
(* Properties.                                                              *)

\* The streams on which a message of stream s may be answered
AnswerOn(s) == IF xSrv.incr THEN {IF s + 1 < xOut THEN s + 1 ELSE 0} ELSE IF xSrv.fork THEN {s, 0} ELSE {s}

\* A message is echoed whole, once and to its sender, and a client takes for the answer to a
\* line only what answers it (sctpserv01.c:31-47, sctp_pdapircv.c:29-44), unless pieces of
\* two messages were put together: pdapi_recvmsg() does not look at the sender of the
\* second piece (sctp_pdapircv.c:39), which may come interleaved or after the sender of the
\* first has gone.  The echo is on the next stream, or the same one, or the child's 0.  The
\* buffer always has room for another piece, and no stream_increment server dies for a
\* stream that is not there.
SctpEchoes ==
    /\ ~xMixed =>
          /\ \A e \in xEchoes : e.len = IF xMode[e.c] = "big" THEN SctpBig ELSE 1
          /\ \A e, f \in xEchoes : e.c = f.c /\ e.line = f.line /\ e.of = f.of => e = f
          /\ \A c \in SctpClients : \A r \in xShown[c] : r.line = xLine[c]
    /\ \A e \in xEchoes : e.s \in AnswerOn(e.of)
    /\ xPc = "more" => Grown > xCur.len
    /\ xPc = "died_stream" => ~xSrv.incr

\* Every line is answered (sctp_strcli.c:26-34, sctp_strcliecho.c:31-40), unless the server has
\* died: of an association that vanished between Sctp_recvmsg() and SCTP_STATUS
\* (sctp_getnostrm.c:11-13), of MSG_EOF, or of a stream its side does not have.  The MSG_EOF of
\* sctpserv03 also loses the messages a client has sent on several streams at once, and
\* sctpserv_fork closes the association of a client for which fork() fails
\* (sctpserv_fork.c:51-57).
SctpAnswered ==
    \A c \in SctpClients :
       xCli[c] = "wait" ~> \/ xCli[c] # "wait" \/ xPc \in {"died", "died_stream"} \/ xMixed
                           \/ xSrv.eof /\ xMode[c] = "echoall"
                           \/ xSrv.fork /\ xUp[c] # "up"
=============================================================================
