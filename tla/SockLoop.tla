------------------------------ MODULE SockLoop ------------------------------
(***************************************************************************)
(* sock/: what the program does with its open socket.  loop_tcp() and       *)
(* loop_udp() copy standard input to the socket and the socket to standard  *)
(* output, the source functions write a pattern and the sinks read and      *)
(* discard.  loop() and sink() are the versions they have replaced.         *)
(* Bytes are "a" (any), "n" (newline) and "r" (return).                     *)
(***************************************************************************)
EXTENDS Naturals, Sequences, SequencesExt

CONSTANTS ReadLen,    \* readlen
          MaxIov,     \* UIO_MAXIOV
          LoopBytes,  \* bound: bytes typed on standard input
          LoopMsgs    \* bound: messages of the peer

ASSUME LoopAssumption ==
    /\ ReadLen \in Nat \ {0} /\ MaxIov \in Nat \ {0} /\ LoopBytes \in Nat /\ LoopMsgs \in Nat

VARIABLES lProg,    \* the function, its socket and the options
          lPc,
          lIn, lEof,     \* typed and not yet read; standard input is at its end
          lSaw,          \* stdineof
          lSet,          \* the descriptors select() has returned
          lNet, lFin,    \* what waits in the socket; the peer has closed
          lMsgs,         \* messages the peer has sent
          lFlags,        \* flags: MSG_PEEK
          lDest,         \* the servaddr of loop_udp() has been filled in by recvfrom()
          lRead, lSent,  \* read from standard input; written to the socket
          lGot, lStd,    \* taken from the socket; what each writen() put on standard output
          lStray         \* sent to the address loop_udp() happened to find in servaddr

loopVars == <<lProg, lPc, lIn, lEof, lSaw, lSet, lNet, lFin, lMsgs, lFlags, lDest, lRead, lSent, lGot,
              lStd, lStray>>

\* A socket: TCP, a connected UDP client, a UDP client with -o, a UDP server, one with -o, and
\* one that -f has connected.
Combos ==
    {<<"loop", "tcp">>, <<"loop", "cli">>, <<"loop", "serv">>, <<"loop", "conn">>, <<"loop_tcp", "tcp">>,
     <<"loop_udp", "cli">>, <<"loop_udp", "unc">>, <<"loop_udp", "serv">>, <<"loop_udp", "servo">>, <<"loop_udp", "conn">>,
     <<"sink", "tcp">>, <<"sink_tcp", "tcp">>, <<"sink_udp", "serv">>,
     <<"source", "tcp">>, <<"source_tcp", "tcp">>, <<"source_udp", "cli">>, <<"source_udp", "unc">>}

IsLoop(f) == f \in {"loop", "loop_tcp", "loop_udp"}
IsSink(f) == f \in {"sink", "sink_tcp", "sink_udp"}
IsSource(f) == f \in {"source", "source_tcp", "source_udp"}

\* Options: -c, -h, -Z, -k or -V, -W, and writelen.
LoopProgs ==
    {p \in [fn : {c[1] : c \in Combos}, sock : {c[2] : c \in Combos}, crlf : BOOLEAN, half : BOOLEAN,
            peek : BOOLEAN, chunk : BOOLEAN, ignore : BOOLEAN, wlen : {2, 4}] :
        /\ <<p.fn, p.sock>> \in Combos
        /\ p.half => p.sock = "tcp" /\ IsLoop(p.fn)
        /\ p.crlf => IsLoop(p.fn)
        /\ p.peek => p.fn \in {"loop_tcp", "loop_udp", "sink_tcp", "sink_udp"}
        /\ p.chunk => p.fn = "loop_tcp"
        /\ p.ignore => p.fn \in {"source_tcp", "source_udp"}
        /\ p.wlen = 2 => p.crlf /\ ~p.chunk}

LoopStart(prog, where) ==
    /\ lProg = prog /\ lPc = where
    /\ lIn = <<>> /\ lEof = FALSE /\ lSaw = FALSE /\ lSet = {}
    /\ lNet = <<>> /\ lFin = FALSE /\ lMsgs = 0
    /\ lFlags = FALSE /\ lDest = FALSE /\ lRead = <<>> /\ lSent = <<>> /\ lGot = <<>> /\ lStd = <<>>
    /\ lStray = FALSE

LoopInit ==
    \E prog \in LoopProgs :
       LoopStart(prog, IF IsLoop(prog.fn) THEN "select" ELSE IF IsSink(prog.fn) THEN "sock" ELSE "source")

Tcp == lProg.sock = "tcp"

\* The process has not ended.
LoopRuns == lPc \notin {"closed", "died", "iov_full"}

-----------------------------------------------------------------------------
(* The user and the peer                                                    *)

\* Newlines and returns are bytes like others without -c.
Typed == IF lProg.crlf THEN {"a", "n"} ELSE {"a"}
Messages ==
    {<<"a", "a">>} \cup (IF lProg.crlf THEN {<<"r", "n">>} ELSE {}) \cup (IF Tcp THEN {} ELSE {<<>>})

Type ==
    /\ LoopRuns /\ IsLoop(lProg.fn) /\ ~lEof
    /\ \/ \E b \in Typed : Len(lRead) + Len(lIn) < LoopBytes /\ lIn' = Append(lIn, b) /\ UNCHANGED lEof
       \/ lEof' = TRUE /\ UNCHANGED lIn
    /\ UNCHANGED <<lProg, lPc, lSaw, lSet, lNet, lFin, lMsgs, lFlags, lDest, lRead, lSent, lGot, lStd, lStray>>

\* TCP carries the bytes, UDP the datagrams, and a datagram may be empty.
PeerSends ==
    /\ LoopRuns /\ ~IsSource(lProg.fn) /\ ~lFin /\ lMsgs < LoopMsgs /\ lMsgs' = lMsgs + 1
    /\ \E msg \in Messages : lNet' = IF Tcp THEN lNet \o msg ELSE Append(lNet, msg)
    /\ UNCHANGED <<lProg, lPc, lIn, lEof, lSaw, lSet, lFin, lFlags, lDest, lRead, lSent, lGot, lStd, lStray>>

PeerCloses ==
    /\ LoopRuns /\ Tcp /\ ~lFin /\ lFin' = TRUE
    /\ UNCHANGED <<lProg, lPc, lIn, lEof, lSaw, lSet, lNet, lMsgs, lFlags, lDest, lRead, lSent, lGot, lStd, lStray>>

-----------------------------------------------------------------------------
(* crlf.c and write.c                                                       *)

\* crlf_add(): a return before every newline.  What does not fit is refused, and so is a
\* result with a return in it that fills the buffer.
crlf_add(src) == FlattenSeq([i \in DOMAIN src |-> IF src[i] = "n" THEN <<"r", "n">> ELSE <<src[i]>>])
AddFits(src) ==
    /\ Len(src) <= lProg.wlen
    /\ (\E i \in 1 .. Len(src) : src[i] = "n") => Len(crlf_add(src)) < lProg.wlen

\* crlf_strip(): every return is dropped.
crlf_strip(src) == FlattenSeq([i \in DOMAIN src |-> IF src[i] = "r" THEN <<>> ELSE <<src[i]>>])
StripFits(src) == Len(crlf_strip(src)) < lProg.wlen

\* dowrite(): the size of the chunks; the last one may be shorter.
chunksize_NoRoundUp(n) == IF n \div MaxIov = 0 THEN 1 ELSE n \div MaxIov
chunksize(n) == IF n \div MaxIov = 0 THEN 1 ELSE IF n % MaxIov # 0 THEN n \div MaxIov + 1 ELSE n \div MaxIov

\* The bytes that iov[0], ..., iov[i] hold; with more the function quits.
dowrite(bytes) ==
    IF ~lProg.chunk THEN bytes ELSE SubSeq(bytes, 1, LET n == MaxIov * chunksize(Len(bytes)) IN IF n < Len(bytes) THEN n ELSE Len(bytes))

-----------------------------------------------------------------------------
(* Standard input to the socket                                             *)

\* select(): at least one of the descriptors is ready.
Ready == (IF ~lSaw /\ (lIn # <<>> \/ lEof) THEN {"stdin"} ELSE {}) \cup (IF lNet # <<>> \/ lFin THEN {"sock"} ELSE {})

Select ==
    /\ lPc = "select" /\ Ready # {}
    /\ lSet' = Ready /\ lPc' = "stdin"
    /\ UNCHANGED <<lProg, lIn, lEof, lSaw, lNet, lFin, lMsgs, lFlags, lDest, lRead, lSent, lGot, lStd, lStray>>

\* The end of standard input: the half close, or the end of the loop.
StdinEof == IF lProg.half THEN lSaw' = TRUE /\ lPc' = "select" ELSE lPc' = "closed" /\ UNCHANGED lSaw

Fails == lPc' = "died" /\ UNCHANGED <<lSent, lStray>>
Writes(bytes) == lPc' = "sock" /\ lSent' = lSent \o bytes /\ UNCHANGED lStray

\* loop_tcp() hands the bytes to dowrite(), loop() to write().
send_tcp(bytes) ==
    Fails \/ IF dowrite(bytes) = bytes THEN Writes(bytes) ELSE lPc' = "iov_full" /\ UNCHANGED <<lSent, lStray>>
send_loop(bytes) == Fails \/ (lProg.sock # "serv" /\ Writes(bytes))

\* In loop_udp() a server can write() only if -f has connected it.  The servaddr to which
\* sendto() sends with -o is a variable of this function, which nothing fills in but the
\* recvfrom() of a client: before that the bytes go to whatever address is found there.
send_udp(bytes) ==
    \/ Fails
    \/ lProg.sock \in {"cli", "conn"} /\ Writes(bytes)
    \/ lProg.sock \in {"unc", "servo"} /\ IF lDest THEN Writes(bytes) ELSE lPc' = "sock" /\ lStray' = TRUE /\ UNCHANGED lSent

SendBytes(bytes) ==
    CASE lProg.fn = "loop_tcp" -> send_tcp(bytes)
      [] lProg.fn = "loop_udp" -> send_udp(bytes)
      [] OTHER -> send_loop(bytes)

ReadStdin ==
    /\ lPc = "stdin" /\ "stdin" \in lSet
    /\ LET n == IF Len(lIn) < ReadLen THEN Len(lIn) ELSE ReadLen
           bytes == SubSeq(lIn, 1, n)
       IN /\ lIn' = SubSeq(lIn, n + 1, Len(lIn)) /\ lRead' = lRead \o bytes
          /\ CASE n = 0 -> StdinEof /\ UNCHANGED <<lSent, lStray>>
               [] n > 0 /\ lProg.crlf /\ ~AddFits(bytes) -> lPc' = "died" /\ UNCHANGED <<lSaw, lSent, lStray>>
               [] OTHER -> SendBytes(IF lProg.crlf THEN crlf_add(bytes) ELSE bytes) /\ UNCHANGED lSaw
    /\ UNCHANGED <<lProg, lEof, lSet, lNet, lFin, lMsgs, lFlags, lDest, lGot, lStd>>

SkipStdin ==
    /\ lPc = "stdin" /\ "stdin" \notin lSet /\ lPc' = "sock"
    /\ UNCHANGED <<lProg, lIn, lEof, lSaw, lSet, lNet, lFin, lMsgs, lFlags, lDest, lRead, lSent, lGot, lStd, lStray>>

-----------------------------------------------------------------------------
(* The socket to standard output                                            *)

SkipSocket ==
    /\ lPc = "sock" /\ IsLoop(lProg.fn) /\ "sock" \notin lSet /\ lPc' = "select"
    /\ UNCHANGED <<lProg, lIn, lEof, lSaw, lSet, lNet, lFin, lMsgs, lFlags, lDest, lRead, lSent, lGot, lStd, lStray>>

\* What recv() returns, a datagram cut to readlen; and what it leaves.
Taken == IF lNet = <<>> THEN <<>> ELSE IF Tcp THEN SubSeq(lNet, 1, IF Len(lNet) < ReadLen THEN Len(lNet) ELSE ReadLen)
         ELSE SubSeq(Head(lNet), 1, IF Len(Head(lNet)) < ReadLen THEN Len(Head(lNet)) ELSE ReadLen)
Left == IF lNet = <<>> THEN <<>> ELSE IF Tcp THEN SubSeq(lNet, Len(Taken) + 1, Len(lNet)) ELSE Tail(lNet)

\* What each function makes of it: whether the call peeks, and whether reading nothing is
\* the end, which recvfrom() and recvmsg() do not ask, and which an empty datagram is for a
\* connected client and for sink_udp().
Recv(peek, eof) == [peek |-> peek, eof |-> eof /\ Taken = <<>>]

loop_tcp == Recv(lProg.peek, TRUE)
loop_udp == IF lProg.sock = "cli" THEN Recv(lProg.peek, TRUE) ELSE Recv(FALSE, FALSE)
loop == Recv(FALSE, lProg.sock \notin {"serv", "conn"})
sink_tcp == Recv(lProg.peek, TRUE)
sink_udp == Recv(lProg.peek, TRUE)
sink == Recv(FALSE, TRUE)

RecvCall ==
    CASE lProg.fn = "loop_tcp" -> loop_tcp [] lProg.fn = "loop_udp" -> loop_udp [] lProg.fn = "loop" -> loop
      [] lProg.fn = "sink_tcp" -> sink_tcp [] lProg.fn = "sink_udp" -> sink_udp [] OTHER -> sink

\* "no infinite loop": flags = 0 before recv() is called again.
oncemore_Always(peek) == peek
oncemore(peek) == peek /\ ~lFlags

\* Standard output gets what recv() has returned, converted, whether or not it was a peek.
Shown(bytes) == IF lProg.crlf THEN crlf_strip(bytes) ELSE bytes

ToStdout(bytes) ==
    IF lProg.crlf /\ ~StripFits(bytes) THEN lPc' = "died" /\ UNCHANGED lStd
    ELSE lPc' = (IF lFlags' THEN "sock" ELSE "select") /\ lStd' = Append(lStd, Shown(bytes))

\* The old sink() insists on full buffers.
Discard(bytes) == lPc' = (IF lProg.fn = "sink" /\ Len(bytes) # ReadLen THEN "died" ELSE "sock") /\ UNCHANGED lStd

\* One call of recv(); with -Z the first one peeks and the bytes are read again, with any that
\* have come since.
ReadSocket ==
    /\ lPc = "sock" /\ (IsLoop(lProg.fn) => "sock" \in lSet) /\ (lNet # <<>> \/ lFin)
    /\ IF RecvCall.eof THEN lPc' = "closed" /\ UNCHANGED <<lFlags, lNet, lGot, lStd, lDest>>
       ELSE /\ lFlags' = oncemore(RecvCall.peek)
            /\ IF lFlags' THEN UNCHANGED <<lNet, lGot>> ELSE lNet' = Left /\ lGot' = lGot \o Taken
            /\ lDest' = (lDest \/ lProg.sock = "unc")
            /\ IF IsLoop(lProg.fn) THEN ToStdout(Taken) ELSE Discard(Taken)
    /\ UNCHANGED <<lProg, lIn, lEof, lSaw, lSet, lFin, lMsgs, lRead, lSent, lStray>>

-----------------------------------------------------------------------------
(* The sources                                                              *)

\* nbuf and urgwrite: two buffers, and an urgent byte before the second with -U 2.
Buffers == <<"w", "u", "w">>

\* The next one, or the end.
NextBuffer == IF Len(lRead) = Len(Buffers) THEN "none" ELSE Buffers[Len(lRead) + 1]

\* source_tcp(): with -W an error of write() is reported, cleared with SO_ERROR and passed over;
\* a failed send of the urgent byte always ends the program.
source_tcp(b) ==
    \/ lSent' = Append(lSent, b) /\ UNCHANGED lPc
    \/ lPc' = (IF lProg.ignore /\ b = "w" THEN "source" ELSE "died") /\ UNCHANGED lSent

\* source_udp() has no urgent byte and knows the server's address.
source_udp(b) ==
    \/ lSent' = (IF b = "u" THEN lSent ELSE Append(lSent, b)) /\ UNCHANGED lPc
    \/ b = "w" /\ lPc' = (IF lProg.ignore THEN "source" ELSE "died") /\ UNCHANGED lSent

\* The client half of the old sink() knows no -W.
source(b) == (lSent' = Append(lSent, b) /\ UNCHANGED lPc) \/ (lPc' = "died" /\ UNCHANGED lSent)

WriteBuffer ==
    /\ lPc = "source"
    /\ IF NextBuffer = "none" THEN lPc' = "closed" /\ UNCHANGED <<lRead, lSent>>
       ELSE /\ lRead' = Append(lRead, NextBuffer)
            /\ CASE lProg.fn = "source_tcp" -> source_tcp(NextBuffer)
                 [] lProg.fn = "source_udp" -> source_udp(NextBuffer)
                 [] OTHER -> source(NextBuffer)
    /\ UNCHANGED <<lProg, lIn, lEof, lSaw, lSet, lNet, lFin, lMsgs, lFlags, lDest, lGot, lStd, lStray>>

\* An error of select(), read(), recv() or of writen() to standard output.
IoFails ==
    /\ lPc \in {"select", "stdin", "sock"} /\ lPc' = "died"
    /\ UNCHANGED <<lProg, lIn, lEof, lSaw, lSet, lNet, lFin, lMsgs, lFlags, lDest, lRead, lSent, lGot, lStd, lStray>>

LoopMain == Select \/ ReadStdin \/ SkipStdin \/ SkipSocket \/ ReadSocket \/ WriteBuffer

LoopNext == LoopMain \/ IoFails \/ Type \/ PeerSends \/ PeerCloses

LoopFair == WF_loopVars(LoopMain)

LoopSpec == LoopInit /\ [][LoopNext]_loopVars /\ LoopFair

-----------------------------------------------------------------------------
(* Properties.                                                              *)

Converted == IF lProg.crlf THEN crlf_add(lRead) ELSE lRead

\* The options under which recv() is called with MSG_PEEK first.
Peeks == lProg.peek /\ lProg.sock \in {"tcp", "cli"}

\* Every second writen() to standard output.
Rereads == [k \in 1 .. Len(lStd) \div 2 |-> lStd[2 * k]]

\* What was printed is what was taken from the socket, once.  With -Z everything is
\* printed twice: the output of every peek is the beginning of the output that follows it.
PrintedRight ==
    IF Peeks THEN /\ FlattenSeq(Rereads) = Shown(lGot)
                  /\ \A k \in 1 .. Len(lStd) \div 2 : IsPrefix(lStd[2 * k - 1], lStd[2 * k])
    ELSE FlattenSeq(lStd) = Shown(lGot)

\* Nothing is lost or reordered by the copy, and nothing doubled but by -Z
\* (looptcp.c:29-88, loopudp.c:48-200): what went to the socket is what was typed, what was
\* printed is what came, however it is converted or cut into chunks, and dowrite()
\* never runs out of chunks (write.c:51-52).  The exception is a UDP socket with -o: loop_udp()
\* sends to an address nobody has filled in (lStray, loopudp.c:22,77-79,87-89).
\* A -h program ends only after the peer has closed and everything it sent has been
\* printed; a source that ends has written every buffer unless -W forgave an error.
SockCopies ==
    /\ lPc # "iov_full"
    /\ IsLoop(lProg.fn) /\ lPc # "died" =>
          /\ lSent = Converted \/ lStray
          /\ PrintedRight
          /\ lPc = "closed" /\ lProg.half => lFin /\ lNet = <<>>
          /\ lPc = "closed" /\ ~lProg.half => lFin \/ lEof \/ (lProg.sock = "cli" /\ lNet # <<>> /\ Head(lNet) = <<>>)
    /\ lStray => lProg.sock \in {"unc", "servo"}
    /\ IsSource(lProg.fn) /\ lPc = "closed" /\ ~lProg.ignore =>
          lSent = IF Tcp THEN Buffers ELSE <<"w", "w">>
    /\ IsSink(lProg.fn) /\ lPc = "closed" /\ Tcp => lNet = <<>>

\* When the peer of a TCP socket closes, the program reads on to the end and stops
\* (looptcp.c:65-86, sinktcp.c:20-50): the second recv() after MSG_PEEK takes what the first has
\* shown.  A program without -h also stops when its standard input ends.
SockEnds ==
    /\ (lFin /\ ~IsSource(lProg.fn)) ~> lPc \in {"closed", "died"}
    /\ (lEof /\ ~lProg.half /\ lPc = "select") ~> lPc \in {"closed", "died"}
=============================================================================
