---------------------------- MODULE BcastTimeout ----------------------------
(***************************************************************************)
(* The broadcast clients of bcast/: each line is sent, and replies are      *)
(* printed until alarm(5) ends the wait.  The programs differ in how        *)
(* SIGALRM gets them out of the loop: it interrupts recvfrom()              *)
(* (dgclibcast1.c), the same with SIGALRM blocked elsewhere                 *)
(* (dgclibcast3.c), it interrupts pselect() (dgclibcast4.c, with the        *)
(* kernel's or with lib/pselect.c), it jumps (dgclibcast5.c), or it writes  *)
(* to a pipe (dgclibcast6.c).                                               *)
(***************************************************************************)
EXTENDS Naturals

CONSTANTS Progs,      \* which of the programs to look at
          NLines,     \* bound: lines to send
          MaxReplies  \* bound: replies that arrive

ASSUME BcastAssumption ==
    /\ Progs \subseteq {"bcast1", "bcast3", "bcast4", "bcast4lib", "bcast5", "bcast6"}
    /\ NLines \in Nat /\ MaxReplies \in Nat

VARIABLES prog,     \* the program that is running
          bpc,       \* "fgets", "top" of the inner loop, "call" about to wait, "sleep" waiting, "eof"
          lines,    \* lines sent
          alarm,    \* "off", "set", or "pending": SIGALRM generated and not delivered
          masked,   \* SIGALRM is blocked
          pipe,     \* bytes in the pipe of dgclibcast6
          rbuf,     \* replies in the socket's receive buffer
          replies   \* replies that have arrived

bcastVars == <<prog, bpc, lines, alarm, masked, pipe, rbuf, replies>>

BcastTypes ==
    /\ prog \in Progs
    /\ bpc \in {"fgets", "top", "call", "sleep", "eof"}
    /\ lines \in 0 .. NLines
    /\ alarm \in {"off", "set", "pending"}
    /\ masked \in BOOLEAN
    /\ pipe \in 0 .. 1
    /\ rbuf \in 0 .. MaxReplies /\ replies \in 0 .. MaxReplies

BcastStart(p, where) ==
    /\ prog = p
    /\ bpc = where /\ lines = 0
    /\ alarm = "off" /\ masked = FALSE
    /\ pipe = 0 /\ rbuf = 0 /\ replies = 0

BcastInit == \E p \in Progs : BcastStart(p, "fgets")

Reply ==
    /\ replies < MaxReplies
    /\ replies' = replies + 1 /\ rbuf' = rbuf + 1
    /\ UNCHANGED <<prog, bpc, lines, alarm, masked, pipe>>

-----------------------------------------------------------------------------
(* dg_cli()                                                                 *)

\* Fgets(), Sendto(), alarm(5); dgclibcast4 blocks SIGALRM first.
SendLine ==
    /\ bpc = "fgets" /\ lines < NLines
    /\ lines' = lines + 1
    /\ alarm' = "set"
    /\ masked' = (masked \/ prog \in {"bcast4", "bcast4lib"})
    /\ bpc' = "top"
    /\ UNCHANGED <<prog, pipe, rbuf, replies>>

BcastEof ==
    /\ bpc = "fgets"
    /\ bpc' = "eof"
    /\ UNCHANGED <<prog, lines, alarm, masked, pipe, rbuf, replies>>

\* dgclibcast3 and lib/pselect.c unblock SIGALRM in one call and wait in another; the
\* kernel's pselect() does both at once, the others never block it.
TwoCalls == prog \in {"bcast3", "bcast4lib"}

Unblock ==
    /\ bpc = "top" /\ TwoCalls
    /\ masked' = FALSE /\ bpc' = "call"
    /\ UNCHANGED <<prog, lines, alarm, pipe, rbuf, replies>>

EnterWait ==
    /\ bpc = IF TwoCalls THEN "call" ELSE "top"
    /\ bpc' = "sleep"
    /\ UNCHANGED <<prog, lines, alarm, masked, pipe, rbuf, replies>>

\* A reply ends the wait, is read and printed.
GotReply ==
    /\ bpc = "sleep" /\ prog # "bcast6" /\ rbuf > 0
    /\ rbuf' = rbuf - 1
    /\ masked' = (masked \/ TwoCalls)
    /\ bpc' = "top"
    /\ UNCHANGED <<prog, lines, alarm, pipe, replies>>

\* dgclibcast6: Read() the byte that says that the timer has expired.
ReadPipe == pipe' = pipe - 1

\* dgclibcast6: select() reports the socket, the pipe, or both.
SelectReturns ==
    /\ bpc = "sleep" /\ prog = "bcast6" /\ rbuf + pipe > 0
    /\ rbuf' = IF rbuf > 0 THEN rbuf - 1 ELSE rbuf
    /\ \/ pipe > 0 /\ ReadPipe /\ bpc' = "fgets"
       \/ pipe = 0 /\ UNCHANGED pipe /\ bpc' = "top"
    /\ UNCHANGED <<prog, lines, alarm, masked, replies>>

-----------------------------------------------------------------------------
(* SIGALRM                                                                  *)

Expire ==
    /\ alarm = "set"
    /\ alarm' = "pending"
    /\ UNCHANGED <<prog, bpc, lines, masked, pipe, rbuf, replies>>

\* A signal is delivered unless it is blocked; inside the kernel's pselect() it is not.
Deliverable == alarm = "pending" /\ (~masked \/ (prog = "bcast4" /\ bpc = "sleep"))

\* The handler returns: a process asleep gets EINTR and leaves the loop; elsewhere
\* nothing happens.  With a reply at hand recvfrom() or select() may return that, except
\* that the kernel's pselect() then leaves the signal pending.
JustReturn ==
    /\ prog \in {"bcast1", "bcast3", "bcast4", "bcast4lib"}
    /\ \/ /\ bpc = "sleep"
          /\ bpc' = "fgets"
          /\ masked' = (masked \/ TwoCalls)
          /\ UNCHANGED rbuf
       \/ /\ bpc = "sleep" /\ rbuf > 0 /\ prog # "bcast4"
          /\ rbuf' = rbuf - 1
          /\ masked' = (masked \/ TwoCalls)
          /\ bpc' = "top"
       \/ bpc # "sleep" /\ UNCHANGED <<bpc, masked, rbuf>>
    /\ UNCHANGED pipe

\* siglongjmp() out of wherever the process is in the loop
Jump_OnlyWhenAsleep == prog = "bcast5" /\ bpc' = (IF bpc = "sleep" THEN "fgets" ELSE bpc)
                       /\ UNCHANGED <<masked, pipe, rbuf>>
Jump == prog = "bcast5" /\ bpc' = "fgets" /\ UNCHANGED <<masked, pipe, rbuf>>

\* The byte in the pipe stays until the loop looks; select() itself gets EINTR and is
\* called again.
WriteByte ==
    /\ prog = "bcast6"
    /\ pipe' = pipe + 1
    /\ bpc' = IF bpc = "sleep" THEN "top" ELSE bpc
    /\ UNCHANGED <<masked, rbuf>>

DeliverAlrm ==
    /\ Deliverable
    /\ alarm' = "off"
    /\ JustReturn \/ Jump \/ WriteByte
    /\ UNCHANGED <<prog, lines, replies>>

BcastStep == SendLine \/ BcastEof \/ Unblock \/ EnterWait \/ GotReply \/ SelectReturns

BcastNext == Reply \/ Expire \/ DeliverAlrm \/ BcastStep

\* The timer expires, a signal that is not blocked (or not for ever) is delivered, and
\* the process is scheduled.
BcastFair == WF_bcastVars(Expire) /\ SF_bcastVars(DeliverAlrm) /\ WF_bcastVars(BcastStep)

BcastSpec == BcastInit /\ [][BcastNext]_bcastVars /\ BcastFair

-----------------------------------------------------------------------------
(* Properties.                                                              *)

\* Types are kept, and a wait is never cut short: when the next line is read, the timer
\* of the last one has expired and left nothing behind that could end the next wait at
\* once (dgclibcast5.c:26-29, dgclibcast6.c:30-52).
NoStaleTimeout == BcastTypes /\ (bpc = "fgets" => alarm = "off" /\ pipe = 0)

\* SIGALRM came while these programs were not in recvfrom() or select(), which now wait
\* for ever: the race of dgclibcast1.c:27, dgclibcast3.c:31-32 and lib/pselect.c:25-26.
SignalLost == alarm = "off" /\ prog \in {"bcast1", "bcast3", "bcast4lib"}

\* No wait ends early, and the wait for replies ends, with the kernel's pselect(), with the jump and with the pipe
\* whenever SIGALRM comes; in the other programs unless the signal was lost.
WaitEnds ==
    /\ []NoStaleTimeout
    /\ bpc \in {"top", "call", "sleep"} ~> (bpc \in {"fgets", "eof"} \/ SignalLost)
=============================================================================
