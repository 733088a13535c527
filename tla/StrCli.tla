------------------------------- MODULE StrCli -------------------------------
(***************************************************************************)
(* The TCP echo client str_cli() in all its versions, with the server's     *)
(* str_echo(): stop-and-wait, select(), /dev/poll, kqueue, nonblocking I/O, *)
(* two processes and two threads.  The unit of data is the line; the lines  *)
(* a user types are 1, 2, 3, ...                                            *)
(***************************************************************************)
EXTENDS Naturals, Sequences, SequencesExt

CONSTANTS Clients,   \* which versions of str_cli() to look at
          Lines,     \* bound: how many lines the user types at most
          Cap,       \* lines that one direction of the connection can hold
          MaxRead    \* lines one read() can return, and to[] or fr[] can hold

ASSUME StrCliAssumption == Lines \in Nat /\ Cap \in Nat \ {0} /\ MaxRead \in Nat \ {0}

VARIABLES client,    \* the version that is running
          isfile,    \* kqueue04: stdin is a regular file
          typed,     \* lines typed so far
          ineof,     \* stdin has been closed by the user
          inq,       \* lines in stdin nobody has read
          ibuf,      \* lines in the stdio buffer of fgets()
          obuf,      \* lines read from stdin and still to be written: sendline, buf or to[]
          oused,     \* strclinonb: toiptr - to
          c2s,       \* lines on their way to the server
          cfin,      \* the client has shut down its half
          server,    \* "up", "done" after an orderly exit, or "died"
          sbuf,      \* lines str_echo() has read and not yet written back
          s2c,       \* lines on their way to the client
          rst,       \* the connection was reset
          rbuf,      \* lines in read_buf[] of readline()
          fr,        \* strclinonb: lines in fr[]
          fused,     \* strclinonb: friptr - fr
          out,       \* lines printed
          spc,       \* step of the process or thread that sends (the only one in most)
          rpc,       \* step of the child or thread that receives
          rset,      \* what select() reported and has not been handled
          stdineof,  \* the variable of that name, and done of strclithread2
          ended      \* how str_cli() ended

inVars == <<typed, ineof, inq>>
servVars == <<server, sbuf>>
nonbVars == <<oused, fr, fused>>
vars == <<client, isfile, typed, ineof, inq, ibuf, obuf, oused, c2s, cfin, server, sbuf, s2c,
          rst, rbuf, fr, fused, out, spc, rpc, rset, stdineof, ended>>

\* kind: how the two directions are multiplexed; stdio: Fgets() and Readline() are used
\* rather than read(); anyorder: ready descriptors are handled in no fixed order.
stopAndWait == [kind |-> "lockstep", stdio |-> TRUE, anyorder |-> FALSE]
str_cli == stopAndWait
str_cli08 == stopAndWait
str_cli11 == stopAndWait
strcliselect01 == [kind |-> "select", stdio |-> TRUE, anyorder |-> FALSE]
strcliselect02 == [kind |-> "select", stdio |-> FALSE, anyorder |-> FALSE]
str_cli_select02 == [kind |-> "select", stdio |-> TRUE, anyorder |-> FALSE]
str_cli_poll03 == [kind |-> "select", stdio |-> FALSE, anyorder |-> TRUE]
str_cli_kqueue04 == [kind |-> "select", stdio |-> FALSE, anyorder |-> TRUE]
strclinonb == [kind |-> "nonb", stdio |-> FALSE, anyorder |-> FALSE]
strclifork == [kind |-> "two", stdio |-> TRUE, anyorder |-> FALSE]
strclithread == [kind |-> "two", stdio |-> TRUE, anyorder |-> FALSE]
strclithread2 == [kind |-> "two", stdio |-> TRUE, anyorder |-> FALSE]

Traits == [str_cli |-> str_cli, str_cli08 |-> str_cli08, str_cli11 |-> str_cli11,
           strcliselect01 |-> strcliselect01, strcliselect02 |-> strcliselect02,
           str_cli_select02 |-> str_cli_select02, str_cli_poll03 |-> str_cli_poll03,
           str_cli_kqueue04 |-> str_cli_kqueue04, strclinonb |-> strclinonb,
           strclifork |-> strclifork, strclithread |-> strclithread,
           strclithread2 |-> strclithread2]

ASSUME ClientsAssumption == Clients \subseteq DOMAIN Traits

Trait == Traits[client]
Top == CASE Trait.kind \in {"lockstep", "two"} -> "in"
         [] OTHER -> "select"

Upto(n) == [i \in 1 .. n |-> i]
First(s, n) == SubSeq(s, 1, IF n < Len(s) THEN n ELSE Len(s))
Rest(s, n) == SubSeq(s, n + 1, Len(s))
LineSeq == Seq(1 .. Lines)

TypeOK ==
    /\ client \in Clients /\ isfile \in BOOLEAN
    /\ typed \in 0 .. Lines /\ ineof \in BOOLEAN
    /\ \A s \in {inq, ibuf, obuf, c2s, sbuf, s2c, rbuf, fr, out} : s \in LineSeq
    /\ oused \in 0 .. MaxRead /\ fused \in 0 .. MaxRead
    /\ Len(c2s) <= Cap /\ Len(s2c) <= Cap
    /\ cfin \in BOOLEAN /\ rst \in BOOLEAN /\ stdineof \in BOOLEAN
    /\ server \in {"up", "done", "died"}
    /\ spc \in {"in", "write", "sock", "select", "handle", "nin", "nsock", "nout", "nnet",
                "shut", "mark", "pause", "gone"}
    /\ rpc \in {"off", "read", "check", "gone"}
    /\ rset \subseteq {"in", "sock", "out", "net"}
    /\ ended \in {"no", "normal", "premature", "error"}

Init ==
    /\ client \in Clients
    /\ isfile \in (IF client = "str_cli_kqueue04" THEN BOOLEAN ELSE {FALSE})
    /\ IF isfile THEN typed = Lines /\ ineof = TRUE /\ inq = Upto(Lines)
                 ELSE typed = 0 /\ ineof = FALSE /\ inq = <<>>
    /\ ibuf = <<>> /\ obuf = <<>> /\ oused = 0
    /\ c2s = <<>> /\ cfin = FALSE
    /\ server = "up" /\ sbuf = <<>> /\ s2c = <<>> /\ rst = FALSE
    /\ rbuf = <<>> /\ fr = <<>> /\ fused = 0 /\ out = <<>>
    /\ spc = Top
    /\ rpc = IF Trait.kind = "two" THEN "read" ELSE "off"
    /\ rset = {} /\ stdineof = FALSE /\ ended = "no"

-----------------------------------------------------------------------------
(* The user, the server and the network.                                    *)

User ==
    /\ ended = "no" /\ ~ineof
    /\ \/ typed < Lines /\ typed' = typed + 1 /\ inq' = Append(inq, typed + 1)
          /\ UNCHANGED ineof
       \/ ineof' = TRUE /\ UNCHANGED <<typed, inq>>
    /\ UNCHANGED <<client, isfile, ibuf, obuf, nonbVars, c2s, cfin, servVars, s2c, rst, rbuf,
                   out, spc, rpc, rset, stdineof, ended>>

\* str_echo(): read() what there is, write it all back, end when the client has.
ServerReads ==
    /\ server = "up" /\ sbuf = <<>> /\ c2s # <<>>
    /\ sbuf' = First(c2s, MaxRead) /\ c2s' = Rest(c2s, MaxRead)
    /\ UNCHANGED <<s2c, server>>

ServerWrites ==
    /\ server = "up" /\ sbuf # <<>> /\ Len(s2c) < Cap
    /\ s2c' = Append(s2c, Head(sbuf)) /\ sbuf' = Tail(sbuf)
    /\ UNCHANGED <<c2s, server>>

ServerEof ==
    /\ server = "up" /\ sbuf = <<>> /\ c2s = <<>> /\ cfin
    /\ server' = "done"
    /\ UNCHANGED <<c2s, sbuf, s2c>>

ServerStep ==
    /\ ended = "no"
    /\ ServerReads \/ ServerWrites \/ ServerEof
    /\ UNCHANGED <<client, isfile, inVars, ibuf, obuf, nonbVars, cfin, rst, rbuf, out, spc,
                   rpc, rset, stdineof, ended>>

\* The server process is killed: its kernel sends a FIN, or an RST if there was data it
\* had not read.
EchoServerDies ==
    /\ ended = "no" /\ server = "up"
    /\ server' = "died" /\ sbuf' = <<>> /\ c2s' = <<>>
    /\ rst' = (c2s # <<>>)
    /\ UNCHANGED <<client, isfile, inVars, ibuf, obuf, nonbVars, cfin, s2c, rbuf, out, spc,
                   rpc, rset, stdineof, ended>>

-----------------------------------------------------------------------------
(* Reading stdin, writing to the socket, and reading from it.               *)

\* Fgets() returns a line from its buffer, which it refills with all that stdin has;
\* Read() returns what stdin has.
TakeInput ==
    IF Trait.stdio
    THEN LET src == IF ibuf # <<>> THEN ibuf ELSE inq IN
         /\ src # <<>>
         /\ obuf' = <<Head(src)>> /\ ibuf' = Tail(src)
         /\ inq' = IF ibuf # <<>> THEN inq ELSE <<>>
    ELSE /\ inq # <<>>
         /\ obuf' = First(inq, MaxRead) /\ inq' = Rest(inq, MaxRead)
         /\ UNCHANGED ibuf

InputAtEof == ibuf = <<>> /\ inq = <<>> /\ ineof

\* my_read() refills read_buf[] only when it is empty.
ReplySource_Refill == IF s2c # <<>> THEN s2c ELSE rbuf
ReplySource == IF rbuf # <<>> THEN rbuf ELSE s2c

\* Readline() or Read() on the socket returns data, which is printed.
TakeReply ==
    IF Trait.stdio
    THEN /\ ReplySource # <<>>
         /\ out' = Append(out, Head(ReplySource)) /\ rbuf' = Tail(ReplySource)
         /\ s2c' = IF rbuf # <<>> THEN s2c ELSE <<>>
    ELSE /\ s2c # <<>>
         /\ out' = out \o First(s2c, MaxRead) /\ s2c' = Rest(s2c, MaxRead)
         /\ UNCHANGED rbuf

ReplyAtEof == rbuf = <<>> /\ s2c = <<>> /\ server # "up" /\ ~rst

\* write() on the socket takes one more line.  A server that has gone answers with RST.
PutLine ==
    /\ ~rst
    /\ obuf' = Tail(obuf)
    /\ IF server = "up"
       THEN Len(c2s) < Cap /\ c2s' = Append(c2s, Head(obuf)) /\ UNCHANGED rst
       ELSE rst' = TRUE /\ UNCHANGED c2s

-----------------------------------------------------------------------------
(* The sending side, which in the single-process versions is everything.    *)

AtS(step) == ended = "no" /\ spc = step

\* Fgets() or Read() on stdin, then Writen()
GetsLine ==
    /\ AtS("in") \/ (AtS("handle") /\ "in" \in rset /\ (Trait.anyorder \/ "sock" \notin rset))
    /\ TakeInput
    /\ rset' = rset \ {"in"}
    /\ spc' = "write"
    \* kqueue04: the whole of a regular file has been read, so no EOF will follow
    /\ stdineof' = (stdineof \/ (isfile /\ inq' = <<>>))
    /\ UNCHANGED <<client, isfile, typed, ineof, nonbVars, c2s, cfin, servVars, s2c, rst,
                   rbuf, out, rpc, ended>>

\* Writen() returns after the last line; kqueue04 may then shut down.
AfterWrite == CASE Trait.kind = "lockstep" -> "sock"
                [] Trait.kind = "two" -> "in"
                [] OTHER -> "handle"

WritesLine ==
    /\ AtS("write") /\ PutLine
    /\ spc' = IF Len(obuf) = 1 THEN AfterWrite ELSE "write"
    /\ cfin' = (cfin \/ (isfile /\ stdineof /\ Len(obuf) = 1))
    /\ UNCHANGED <<client, isfile, inVars, ibuf, nonbVars, servVars, s2c, rbuf, out, rpc,
                   rset, stdineof, ended>>

\* SIGPIPE, or err_sys() in Writen().  It ends the parent of strclifork alone.
WriteFails ==
    /\ AtS("write") \/ (AtS("nnet") /\ obuf # <<>>)
    /\ rst
    /\ IF client = "strclifork" /\ rpc = "read"
       THEN spc' = "gone" /\ UNCHANGED ended
       ELSE ended' = "error" /\ UNCHANGED spc
    /\ UNCHANGED <<client, isfile, inVars, ibuf, obuf, nonbVars, c2s, cfin, servVars, s2c,
                   rst, rbuf, out, rpc, rset, stdineof>>

\* End of file on stdin: the stop-and-wait versions and strcliselect01 return, the others
\* note it and shut down the sending half.
ReturnsAtEof_Selects == Trait.kind \in {"lockstep", "select"}
ReturnsAtEof == Trait.kind = "lockstep" \/ client = "strcliselect01"

InputEof ==
    /\ AtS("in") \/ (AtS("handle") /\ "in" \in rset /\ (Trait.anyorder \/ "sock" \notin rset))
    /\ InputAtEof
    /\ rset' = rset \ {"in"}
    /\ IF ReturnsAtEof
       THEN ended' = "normal" /\ UNCHANGED <<spc, stdineof, cfin>>
       ELSE /\ UNCHANGED ended
            /\ IF Trait.kind = "two"
               THEN spc' = "shut" /\ UNCHANGED <<stdineof, cfin>>
               ELSE spc' = "handle" /\ stdineof' = TRUE /\ cfin' = TRUE
    /\ UNCHANGED <<client, isfile, inVars, ibuf, obuf, nonbVars, c2s, servVars, s2c, rst,
                   rbuf, out, rpc>>

\* The second process or thread: Shutdown(), then done = 1 in strclithread2 and pause()
\* in strclifork.
CopytoShuts ==
    /\ AtS("shut")
    /\ cfin' = TRUE
    /\ spc' = "mark"
    /\ UNCHANGED <<client, isfile, inVars, ibuf, obuf, nonbVars, c2s, servVars, s2c, rst,
                   rbuf, out, rpc, rset, stdineof, ended>>

CopytoDone ==
    /\ AtS("mark")
    /\ stdineof' = TRUE
    /\ spc' = IF client = "strclifork" THEN "pause" ELSE "gone"
    /\ UNCHANGED <<client, isfile, inVars, ibuf, obuf, nonbVars, c2s, cfin, servVars, s2c,
                   rst, rbuf, out, rpc, rset, ended>>

\* stdin is readable and the socket is.  Once stdineof is set stdin is no longer looked
\* at, except by str_cli_poll03, which never removes it.
StdinReady == (inq # <<>> \/ ineof) /\ (~stdineof \/ client = "str_cli_poll03")
SockReady == s2c # <<>> \/ server # "up" \/ rst

Selects ==
    /\ AtS("select") /\ Trait.kind = "select"
    /\ rset' = (IF StdinReady THEN {"in"} ELSE {}) \cup (IF SockReady THEN {"sock"} ELSE {})
    /\ rset' # {}
    /\ spc' = "handle"
    /\ UNCHANGED <<client, isfile, inVars, ibuf, obuf, nonbVars, c2s, cfin, servVars, s2c,
                   rst, rbuf, out, rpc, stdineof, ended>>

LoopsBack ==
    /\ AtS("handle") /\ rset = {}
    /\ spc' = "select"
    /\ UNCHANGED <<client, isfile, inVars, ibuf, obuf, nonbVars, c2s, cfin, servVars, s2c,
                   rst, rbuf, out, rpc, rset, stdineof, ended>>

\* The socket branch of the loops.
HandlesReply ==
    /\ AtS("sock") \/ (AtS("handle") /\ "sock" \in rset)
    /\ TakeReply
    /\ rset' = rset \ {"sock"}
    /\ spc' = IF spc = "sock" THEN "in" ELSE "handle"
    /\ UNCHANGED <<client, isfile, inVars, ibuf, obuf, nonbVars, c2s, cfin, servVars, rst,
                   rpc, stdineof, ended>>

\* Zero bytes on the socket: normal if stdin has ended
EofVerdict == IF stdineof THEN "normal" ELSE "premature"

HandlesEof ==
    /\ AtS("sock") \/ (AtS("handle") /\ "sock" \in rset) \/ (AtS("nsock") /\ "sock" \in rset)
    /\ ReplyAtEof
    /\ ended' = EofVerdict
    /\ UNCHANGED <<client, isfile, inVars, ibuf, obuf, nonbVars, c2s, cfin, servVars, s2c,
                   rst, rbuf, out, spc, rpc, rset, stdineof>>

ReadFails ==
    /\ AtS("sock") \/ (AtS("handle") /\ "sock" \in rset) \/ (AtS("nsock") /\ "sock" \in rset)
    /\ rst
    /\ ended' = "error"
    /\ UNCHANGED <<client, isfile, inVars, ibuf, obuf, nonbVars, c2s, cfin, servVars, s2c,
                   rst, rbuf, out, spc, rpc, rset, stdineof>>

-----------------------------------------------------------------------------
(* The receiving child or thread.                                           *)

AtR(step) == ended = "no" /\ rpc = step

ReceiverPrints ==
    /\ AtR("read") /\ TakeReply
    /\ UNCHANGED <<client, isfile, inVars, ibuf, obuf, nonbVars, c2s, cfin, servVars, rst,
                   spc, rpc, rset, stdineof, ended>>

\* Readline() returns 0: strclithread returns, strclithread2 tests done, and the child of
\* strclifork kills its parent and exits.
ReceiverEof ==
    /\ AtR("read") /\ ReplyAtEof
    /\ IF client = "strclithread2"
       THEN rpc' = "check" /\ UNCHANGED ended
       ELSE ended' = "normal" /\ UNCHANGED rpc
    /\ UNCHANGED <<client, isfile, inVars, ibuf, obuf, nonbVars, c2s, cfin, servVars, s2c,
                   rst, rbuf, out, spc, rset, stdineof>>

ReceiverChecks ==
    /\ AtR("check")
    /\ ended' = EofVerdict
    /\ UNCHANGED <<client, isfile, inVars, ibuf, obuf, nonbVars, c2s, cfin, servVars, s2c,
                   rst, rbuf, out, spc, rpc, rset, stdineof>>

\* Readline() calls err_sys(), which in strclifork ends the child without a kill().
ReceiverFails ==
    /\ AtR("read") /\ rst
    /\ IF client = "strclifork" /\ spc # "gone"
       THEN rpc' = "gone" /\ UNCHANGED ended
       ELSE ended' = "error" /\ UNCHANGED rpc
    /\ UNCHANGED <<client, isfile, inVars, ibuf, obuf, nonbVars, c2s, cfin, servVars, s2c,
                   rst, rbuf, out, spc, rset, stdineof>>

-----------------------------------------------------------------------------
(* strclinonb: to[] and fr[] are refilled behind what they hold, and start  *)
(* over only when they are empty.                                           *)

NonbSelects ==
    /\ AtS("select") /\ Trait.kind = "nonb"
    /\ rset' = {d \in {"in", "sock", "out", "net"} :
                  \/ d = "in" /\ StdinReady /\ oused < MaxRead
                  \/ d = "sock" /\ SockReady /\ fused < MaxRead
                  \/ d = "net" /\ obuf # <<>> /\ (Len(c2s) < Cap \/ server # "up" \/ rst)
                  \/ d = "out" /\ fr # <<>>}
    /\ rset' # {}
    /\ spc' = "nin"
    /\ UNCHANGED <<client, isfile, inVars, ibuf, obuf, nonbVars, c2s, cfin, servVars, s2c,
                   rst, rbuf, out, rpc, stdineof, ended>>

NonbIn ==
    /\ AtS("nin")
    /\ IF "in" \in rset /\ inq # <<>>
       THEN LET n == Len(First(inq, MaxRead - oused)) IN
            /\ obuf' = obuf \o First(inq, n) /\ inq' = Rest(inq, n)
            /\ oused' = oused + n
            /\ rset' = rset \cup {"net"}
            /\ UNCHANGED <<stdineof, cfin>>
       ELSE /\ stdineof' = (stdineof \/ "in" \in rset)
            /\ cfin' = (cfin \/ ("in" \in rset /\ obuf = <<>>))
            /\ UNCHANGED <<obuf, inq, oused, rset>>
    /\ spc' = "nsock"
    /\ UNCHANGED <<client, isfile, typed, ineof, ibuf, fr, fused, c2s, servVars, s2c, rst,
                   rbuf, out, rpc, ended>>

NonbSock ==
    /\ AtS("nsock")
    /\ IF "sock" \in rset
       THEN LET n == Len(First(s2c, MaxRead - fused)) IN
            /\ s2c # <<>>
            /\ fr' = fr \o First(s2c, n) /\ s2c' = Rest(s2c, n)
            /\ fused' = fused + n
       ELSE UNCHANGED <<fr, s2c, fused>>
    /\ spc' = "nout"
    /\ UNCHANGED <<client, isfile, inVars, ibuf, obuf, oused, c2s, cfin, servVars, rst,
                   rbuf, out, rpc, rset, stdineof, ended>>

\* write() to stdout may take less than it is given, and nothing if select() did not say
\* that stdout was writable.
FrReset(n) == IF n = Len(fr) THEN 0 ELSE fused

NonbOut ==
    /\ AtS("nout")
    /\ \E n \in 0 .. Len(fr) :
          /\ "out" \in rset => n > 0
          /\ "out" \notin rset /\ "sock" \notin rset => n = 0
          /\ out' = out \o First(fr, n) /\ fr' = Rest(fr, n)
          /\ fused' = FrReset(n)
    /\ spc' = "nnet"
    /\ UNCHANGED <<client, isfile, inVars, ibuf, obuf, oused, c2s, cfin, servVars, s2c, rst,
                   rbuf, rpc, rset, stdineof, ended>>

\* write() to the socket takes what fits; when to[] is empty after the end of stdin, FIN.
NonbFin_InReadOnly == FALSE
NonbFin == stdineof

NonbNet ==
    /\ AtS("nnet") /\ ~(rst /\ "net" \in rset /\ obuf # <<>>)
    /\ IF "net" \in rset /\ obuf # <<>>
       THEN LET n == IF server = "up" THEN Len(First(obuf, Cap - Len(c2s))) ELSE Len(obuf) IN
            /\ obuf' = Rest(obuf, n)
            /\ c2s' = IF server = "up" THEN c2s \o First(obuf, n) ELSE c2s
            /\ rst' = (server # "up")
            /\ oused' = IF n = Len(obuf) THEN 0 ELSE oused
            /\ cfin' = (cfin \/ (n = Len(obuf) /\ NonbFin))
       ELSE UNCHANGED <<obuf, c2s, rst, oused, cfin>>
    /\ spc' = "select" /\ rset' = {}
    /\ UNCHANGED <<client, isfile, inVars, ibuf, fr, fused, servVars, s2c, rbuf, out, rpc,
                   stdineof, ended>>

-----------------------------------------------------------------------------
SenderStep == \/ GetsLine \/ WritesLine \/ WriteFails \/ InputEof \/ CopytoShuts \/ CopytoDone
              \/ Selects \/ LoopsBack \/ HandlesReply \/ HandlesEof \/ ReadFails
              \/ NonbSelects \/ NonbIn \/ NonbSock \/ NonbOut \/ NonbNet
ReceiverStep == ReceiverPrints \/ ReceiverEof \/ ReceiverChecks \/ ReceiverFails

Next == User \/ ServerStep \/ EchoServerDies \/ SenderStep \/ ReceiverStep

Spec == Init /\ [][Next]_vars

\* The client's processes and the server are scheduled; the user need not type, and the
\* server need not die.
FairSpec == Spec /\ WF_vars(SenderStep) /\ WF_vars(ReceiverStep) /\ WF_vars(ServerStep)

-----------------------------------------------------------------------------
(* Properties.                                                              *)

\* Types are kept, and no line is lost, repeated or reordered on its way through the
\* buffers of both programs: what is printed, followed by what each buffer on the way back
\* and on the way out holds, is what the user typed.  Once the server has died this holds
\* of what had come back (readline.c:8-26, strclinonb.c:42-122, str_echo.c:10-11).
FlowIntact ==
    /\ TypeOK
    /\ LET back == out \o fr \o rbuf \o s2c IN
       IF server = "died"
       THEN IsPrefix(back, Upto(typed))
       ELSE back \o sbuf \o c2s \o obuf \o ibuf \o inq = Upto(typed)

\* A client that ends normally, with a server that did not die, has printed the echo of
\* every line.  Two versions break it and are named: strcliselect01 returns at the end of
\* stdin with echoes still on their way (strcliselect01.c:24-25), and strclinonb returns
\* with lines in fr[] it has not written yet (strclinonb.c:69-74).
NormalMeansAll ==
    ended = "normal" /\ server # "died" /\ client # "strcliselect01"
        => out \o fr = Upto(typed) /\ (fr # <<>> => client = "strclinonb")

\* "server terminated prematurely" is only said of a server that died.  strclithread2
\* sets done after Shutdown() and can lose the race with the server's FIN: it is named
\* (strclithread2.c:23-24, 35-37).
PrematureMeansDied ==
    ended = "premature" /\ server # "died" => client = "strclithread2" /\ spc = "mark"

\* The client tells the truth about how the session ended (the returns of the twelve
\* versions, strclinonb.c:69-74 and strclithread2.c:35-37 among them).
EndsTruthful == NormalMeansAll /\ PrematureMeansDied

\* Everyone waits on everyone: the client is in Writen() with the way out full while
\* str_echo() is in Writen() with the way back full.
MutualBlock == /\ Trait.kind = "select" /\ spc = "write" /\ Len(c2s) = Cap
               /\ sbuf # <<>> /\ Len(s2c) = Cap

\* Versions that mix select() with the buffers of stdio and readline(), where a line can
\* wait for the next event (strcliselect01.c:18,24, str_cli_select02.c:19,30).
Mixed == Trait.kind = "select" /\ Trait.stdio

\* The parent of strclifork is in pause() or in fgets() and its child has ended without
\* the kill() that would wake it (strclifork.c:10-13).
ParentLeft == client = "strclifork" /\ rpc = "gone"

\* Every line typed is echoed and printed while the session goes on, and after the end of
\* stdin the client ends; the only exceptions are the three just named.
SessionProgresses ==
    /\ \A i \in 1 .. Lines :
          typed >= i ~> (Len(out) >= i \/ ended # "no" \/ MutualBlock \/ Mixed \/ ParentLeft)
    /\ ineof ~> (ended # "no" \/ MutualBlock \/ ParentLeft)
=============================================================================
