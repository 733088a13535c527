# TLA+ models of the programs of *UNIX Network Programming*

This directory holds TLA+ specifications of the client and server programs in
`src_code/unpv13e/` (paths below are relative to it) and of the examples in
`examples/`, the TLC configurations that check them, and TLAPS proofs of their
safety properties for instances of any size. The repository is a collection of small programs on a common
library. What is hard in them is not their size but their concurrency: processes and
threads that share a listening socket, signal handlers that share data with the main
loop, timers that race answers, descriptors passed between processes, and
buffers that fill up on both sides of a connection. That is what the models keep.
Byte layouts of addresses and packets, formatting and HTTP are left out.

## 1. Inventory

| Component | State it keeps | Operations | Hard behaviour | What makes it correct |
|---|---|---|---|---|
| `server/serv08.c`, `pthread08.c`: main thread accepts, pool of threads | ring `clifd[]`, `iget`, `iput`, mutex, condition variable, per-thread counts | accept, put, signal; lock, wait, get, serve, close; SIGINT | interleaving, lost wakeups, a full ring, exit in the middle | mutual exclusion; every connection in one place; no thread sleeps while a descriptor waits; in-order dispatch |
| `server/serv05.c`, `child05.c`: parent accepts and passes descriptors | `Child` table, `navail`, a stream pipe per child | select, accept, `write_fd`, readiness bytes; `read_fd`, serve, report | children that die, messages in flight, inherited pipe ends | the table agrees with the children; each descriptor reaches one child; children end with the parent |
| `server/serv00,02,02m,03,03m,04,07,09`: every worker accepts | lock (none, `fcntl`, mutex in shared memory, thread mutex), counters | lock, accept, unlock, serve, close | several processes in `accept()`, death of the lock's owner | one accepter at a time where there is a lock; no connection lost or served twice |
| fork or thread per connection: `tcpcliserv/tcpserv01-04,08,09`, `server/serv01,06`, `threads/tcpserv01,02`, `udpcliserv/udpservselect01`, `unixdomain/unixstrserv01,02`, `advio`, `oob`, `ipopts`, `intro` servers, `examples/tcp_serve` | `connfd`, descriptor tables, children, SIGCHLD | accept, fork, close; child serve, exit; `sig_chld` | coalesced SIGCHLD, EINTR, argument passing to threads, `accept()` after `select()` | no zombies, descriptors closed on both sides, the server stays responsive |
| `tcpcliserv/tcpservselect01.c`, `tcpservpoll01.c`: one process, many clients | `client[]`, `allset`, `maxi`, `maxfd`, pollfd array | select or poll, accept, read and echo, close | stale readiness, descriptor reuse, full tables, aborted connections | never blocks in `read()`; tables agree; data is read |
| `str_cli()` in twelve versions with `str_echo()` (`lib`, `tcpcliserv`, `select`, `advio`, `nonblock`, `threads`) | stdin, stdio and `readline()` buffers, `to[]`/`fr[]`, both directions of the connection, `stdineof`, `done` | read stdin, write, shutdown, read socket, print | both sides blocked in `writen()`, data hidden in buffers, end of file on one side, two threads that end at different times | nothing lost or reordered; a normal end means everything was printed; progress |
| `threads/web01-03.c`: parallel HTTP clients | `file[]` flags, `nconn`, `nlefttoconn`, `nlefttoread`, `ndone`, mutex, condition | start threads, finish, join | counters against flags, join under a mutex | at most `maxnconn` connections; counters exact; the program ends |
| `sigio/dgecho01.c`: UDP echo with SIGIO | ring `dg[]`, `iget`, `iput`, `nqueue`, signal mask | handler reads, main loop echoes | handler against main loop, signals that are not queued | in order, once, and once the server has started nothing forgotten |
| `rtt/`, `lib/rtt.c`: reliable UDP client | sequence number, timestamps, RTT estimator, SIGALRM and `sigsetjmp` | send, time out, resend, match, give up | lost, late and duplicate replies, backoff, timestamp wrap | the reply is the right one; samples are right; calls end |
| `bcast/dgclibcast1,3-6.c`, `lib/pselect.c`: waiting for many replies with a timeout | alarm, signal mask, pipe, jump buffer | send, wait, SIGALRM | the classic race between a signal and a blocking call | no timeout outlives its wait; every wait ends |
| `libgai/`, `libfree/getaddrinfo.c`, `libgai/old/savecopy.c`: `getaddrinfo()`, `freeaddrinfo()` | the list being built, blocks on the heap, the resolver's `RES_USE_INET6` | check the arguments, look up, one `addrinfo{}` per address, ports, canonical name, free | any allocation fails; state of the resolver that outlives a call | the list is the one the arguments ask for; every path frees what it allocated |
| `lib/tcp_connect.c`, `tcp_listen.c`, `udp_*.c` and the daytime programs of `names/` | address list, sockets tried, the server's queue | try an address, close, free the list; accept, answer, close | one address of several fails; a server dies of another client's reset; a lost datagram | the first address that works is used, no socket leaks; the client ends |
| `sock/`: the test client and server | options, descriptors, `sigflag`, buffers, flags | parse options, open, fork; copy loops, sources, sinks | options that must be set before `bind()` or `connect()`; signals between parent and child; `MSG_PEEK`, CR/LF, `writev()` in chunks | options in force in time; the server returns to `accept()`; the copy is exact and ends |
| `sctp/`: echo servers and clients | associations, streams, the partial-delivery buffer | receive, assemble, echo, peel off; send lines, read answers | associations that vanish in the middle, interleaved pieces, streams that do not exist | a message is echoed whole, once and to its sender; every line is answered |
| `ping/`, `traceroute/` | counters, table of duplicates, `gotalarm`, timers | send from SIGALRM or between waits; receive, match, count | SIGALRM anywhere in the loop; late, doubled and foreign messages on a raw socket | counts are exact; a result belongs to its own probe; the program ends |
| `icmpd/`: daemon and UDP client | `client[]`, raw sockets, passed descriptors, ports | select, accept, receive descriptor, bind, match errors, write | a client that ends between two calls, ports and entries used again, a client that does not read | a client hears only of errors of its own family and port; it is answered |
| `oob/`: heartbeat | `nprobes` on both ends, SIGURG, SIGALRM, the out-of-band byte | count, probe, echo, reset; read and write lines; end | two handlers that interrupt each other inside `++nprobes`, merged urgent notices, `alarm(0)` too late | nobody who answered is called unreachable; a failed network is noticed |
| `lib/` wrappers and conversions, `key`, `route`, `mcast`, `ssntp`, `inetd`, … | | | see section 8 | |

The components meet in three places. All the servers use one kernel object, the
listening socket (`ListenQueue`), and all of them promise the same thing to their
clients (`ConnDispatch`). `str_cli()` meets `str_echo()` over a connection with bounded
buffers. `rtt/dg_cli.c` meets its server over a network that loses, duplicates and
reorders.

## 2. Plan

1. **Done.** The servers of `server/`, most important first: `PrethreadServer`
   (and its proofs), `FdPassServer`, `AcceptPool`, all shown to implement
   `ConnDispatch`.
2. **Done.** The other concurrent programs: `WebThreads`, `SigioEcho`, `RttClient`,
   `BcastTimeout`, `MultiplexServer`, `ForkServer`, `StrCli`.
3. **Done.** The programs around them: `GetAddrInfo`, `Daytime`, `SockOpen`, `SockLoop`,
   `Sctp`, `Ping`, `Traceroute`, `Icmpd`, `Heartbeat`.
4. **Done, proofs.** Every safety property of these modules, and that the four kinds of server of
   `server/` and `tcpcliserv/` implement `ConnDispatch`, step by step (section 6). Liveness stays with TLC.

## 3. Modules

`ListenQueue` — the queue of completed connections: `ConnArrives`, `ConnAborted` (a
client resets before `accept()`), `AcceptReturns`. Every server module extends it.
`ConnDispatch` — the abstract server: `Arrive`, `Abort`, `Take`, `Finish`, `Die`, `Exit`.
A connection is handed to exactly one worker, in order of arrival, and disappears only if
its client aborts it, its worker dies or the server exits.

| Module | Code | How state and actions correspond |
|---|---|---|
| `PrethreadServer` | `serv08.c`, `pthread08.c`, `web_child.c` | One action per statement that touches shared state: `MainAccept`, `MainLock`, `MainPut` (store, advance, test for full, signal), `MainUnlock`; `ThreadLock`, `ThreadTest` (the `while`), `ThreadGet`, `ThreadUnlock`, `ThreadCount`, `WebChildReturns`, `WebChildQuits`, `ThreadClose`; `SpuriousWake`; `SigInt`. |
| `FdPassServer` | `serv05.c`, `child05.c`, `read_fd.c`, `write_fd.c`, `err_doit` | `toChild` and `bytes` are the two directions of each pipe. A dying child writes its error message there, since standard error is the pipe. Pipe ends inherited by later children are kept. |
| `AcceptPool` | `serv00/02/02m/03/03m/04/07/09`, their children and locks | `server` selects the program; each program is the sequence of steps of its loop. A worker's failure ends one process, or all threads. |
| `ForkServer` | eighteen programs, `sigchldwait*.c`, `lib/signal.c` | `program` selects the program, described by four traits (threads or processes, how SIGCHLD is handled, what EINTR from `accept()` leads to, `select()` or not). `restart` is whether the system restarts system calls. Signals are pending at most once; the handler suspends `main()`; `fds` are the descriptor tables; the UDP socket of `udpservselect01`, which its children do not close, is one of them. |
| `StrCli` | twelve `str_cli()`, `str_echo.c`, `readline.c`, `writen.c` | `client` selects the version. The unit is the line; each buffer on the way is a sequence: `inq`, `ibuf` (stdio), `obuf` (`sendline`, `to[]`), `c2s`, `sbuf`, `s2c`, `rbuf` (`read_buf[]`), `fr`, `out`. |
| `MultiplexServer` | `tcpservselect01.c`, `tcpservpoll01.c` | `prog` selects the program; `rset`/`revents` are what the last wait returned, garbage included. `full` are the connections whose send buffer is full because the client (one of `Deaf`) does not read: `Writen()` sleeps until `ClientReads`. A read error ends the server, but for ECONNRESET in the `poll()` version. |
| `WebThreads` | `web01.c`, `web02.c`, `web03.c` | `web` selects the program; `main()` scans the files in order, threads run `do_get_read()`. |
| `SigioEcho` | `dgecho01.c` | The main loop and the handler; the handler can run before any step of the main loop in which SIGIO is not blocked. `StartStep` takes `dg_echo()` from `Signal()` over FIOASYNC (`early`: how many datagrams had come by then) and FIONBIO to the first `Sigprocmask()`. |
| `RttClient` | `dg_send_recv.c`, `dg_cli.c`, `dg_echo.c`, `rtt.c` | Time advances by ticks; the network holds any set of requests and replies; the estimator computes in integers. |
| `BcastTimeout` | `dgclibcast1,3-6.c`, `pselect.c` | `prog` selects the program; SIGALRM can be delivered between any two steps. |
| `GetAddrInfo` | `libgai/*.c`, `libfree/getaddrinfo.c`, `libgai/old/savecopy.c` | `gImpl` selects the version. A call passes through `CheckStep`, `HostStep`, `AddOne`, `CanonName`, `ServStep`, `PortStep` and `Release`; `gLive` counts blocks on the heap; every allocation, `uname()` and each kind of `h_errno` may fail the call. `"crashed"` is a `freeaddrinfo()` of an `aihead` nobody has set, `"nothing"` a return of 0 without a result. Host and service strings are their kind: an address, a name, a port number, a pathname. `Expected` is the reference result, computed from the arguments alone. |
| `Daytime` | `lib/tcp_connect.c` and its siblings, thirteen programs of `names/` | `dProg` is a client and a server; `dTried` and `dOpen` record the walk over the addresses; `OtherClient` and `OtherResets` are the rest of the world; `WrapperFails` is the `err_sys()` of the wrappers on the way. |
| `SockOpen` | `sock/main.c`, `cliopen.c`, `servopen.c`, `sockopts.c`, `tellwait.c`, … | `oFd`, `oNew`, `oAtBind`, `oAtSyn`: which options are set on which socket, and which were when it mattered. `TELL_WAIT`, `TELL_PARENT`, `WAIT_CHILD` with mask, flag and pending signal. |
| `SockLoop` | `looptcp.c`, `loopudp.c`, `loop.c`, `source*.c`, `sink*.c`, `crlf.c`, `write.c` | `lProg` is the function, the kind of socket and the options. Bytes are any, newline or return; `crlf_add` and `crlf_strip` convert; `dowrite` cuts into chunks. `lStd` has an element per `writen()` to standard output, those after a peek included. |
| `Sctp` | eight servers and their clients | `xSrv` selects the server. Messages are records of sender, stream, line and length; the long one comes in pieces. `AssocEnds` may happen anywhere, also between two pieces: `PieceLost` keeps those that have come, as `pdapi_recvmsg()` does. `ForkFails`: the parent of `sctpserv_fork` closes the association. |
| `Ping` | `bsdping.c` and `ping/` of the book | `pProg` selects the program; `SET()` reads and writes a byte of the table in two steps, so a signal may come between. |
| `Traceroute` | `traceloop.c`, `recv_v4.c`, `recv_v6.c` | `tFam` selects the family; the result of `recv_v6()` where nothing has been assigned is any value. |
| `Icmpd` | the daemon and `udpcli01.c`, `dgcli01.c` | `qTbl` is `client[]`, `qMaxi` its end, `qOut` what the daemon has written to each client. An error is written to one entry after the other (`Tell`), each of which may make the daemon wait or die. A message in the net also has its sender, which the daemon does not see and `IcmpOwn` looks at. |
| `Heartbeat` | `heartbeatcli.c`, `heartbeatserv.c`, `strcliselect02.c`, `strecho02.c` | `hEnd` holds, per process, what runs (`main`, `urg` or `alrm`), `nprobes` and the value `++nprobes` has read, the alarm and the out-of-band byte. Both `sig_alrm()` read and store in separate steps. `UnheardProbe` comes before the server has called `F_SETOWN`; `hQuiet` counts the server's alarms since the last probe. |

`MC*.tla` and `MC*.cfg` give the constants values and replace nothing. `MCDatagrams`,
`MCPrograms`, `MCSessions` and `MCMultiplexServer` each check several components that do not interact in one
run: the variable `suite` says which of them a behaviour is of, and the variables of the
others keep a state in which that program has ended. The state graph is the
disjoint union of the graphs of the components, and the fairness of all is conjoined: none of
the fair actions of an ended program is enabled. In each module the
operators named `X_Something` before `X` are wrong versions of `X` (a dropped guard, a
missing reset), used to confirm that each property notices them.

The proofs are in modules of their own, which extend the models: `ListenQueueProofs`,
`PrethreadServerProofs`, `AcceptPoolProofs`, `FdPassServerProofs`, `ForkServerProofs`,
`MultiplexServerProofs`, `NetworkProofs` (`Traceroute`, `Ping`, `RttClient`, `BcastTimeout`, `SigioEcho`,
`SockLoop`, `GetAddrInfo`) and `ProgramProofs` (`WebThreads`, `Icmpd`, `SockOpen`, `StrCli`, `Daytime`, `Heartbeat`, `Sctp`). Section 6
says what they show.

## 4. Runs

| Run | Bounds | What it shows |
|---|---|---|
| `prethread` | 2 threads, 3 connections, `MAXNCLI` 3 | `TypeOK`, `MutexHeld`, `ExactlyOnce`, `NoLostWakeup`, `EventuallyTaken`, implements `ConnDispatch`. The ring wraps and fills (it holds two). |
| `fdpass` | 2 children, 3 connections, error messages of 2 bytes | `BeliefTrue`: what the parent believes of a live child is true, and "no available children" needs a dead one. `AcceptsThenEnds`: waiting connections are accepted, and children end after the parent. Implements `ConnDispatch`. Two children suffice for one to hold the other's pipe end; three connections for one to wait while both are busy. |
| `fdpass_ready` | same, 2 connections | *Violation*: `ZeroMeansReady`, section 7. |
| `accept_pool` | 9 programs, 2 workers, 3 connections | `LockRight`: one accepter at a time, no lock left with a dead owner (but `serv04`). `EventuallyAccepted`, implements `ConnDispatch`. |
| `fork_server` | 7 kinds of program, 3 connections, 3 children, 1 stop | `NothingLeftOver`: descriptors where they belong, no zombies. `Responsive`, implements `ConnDispatch`. Three children are needed for one to exit while the handler reaps another and a third still runs. |
| `str_cli` | 12 versions, 6 lines, 2 per direction, 3 per buffer | `FlowIntact`, `EndsTruthful` (normal means everything was printed, premature means the server died), `SessionProgresses`. Six lines fill both directions, the server's buffer and the client's, which is the deadlock. |
| `multiplex` | Servers: 3 clients (one may stop reading), 2 slots, 3 descriptors. sock: 2 bytes typed, 2 messages, reads of 3, buffers for writing of 2 or 4, `writev()` of 2 | `TablesTrue`: tables agree with open descriptors and `read()` never blocks. `DataIsRead`. `SockCopies`, `SockEnds`. The third client finds the table full, and a closed descriptor is reused; the chunks do not divide the bytes, a conversion fits its buffer or does not, and a peek sees less than the read that follows it. |
| `web_threads_join` | `web03`, 3 files, 2 connections | *Violation*: `DoneIsJoined`, section 7. |
| `datagrams` | SIGIO: ring of 3, socket buffer of 2, 7 datagrams. RTT: RTO 2 to 4 s, 1 retransmission, 2 requests, 13 ticks, timestamps modulo 6. Broadcast: 6 programs, 3 lines, 5 replies. ping: table of 2, 4 requests, 5 replies. traceroute: 2 hops, 3 TTLs, 2 probes | `EchoesAll`; `ReplyExact`, `CallEnds`; `WaitEnds`; `PingCounts`, `PingEnds`; `TraceTruthful`, `TraceEnds`. The ring's indices wrap twice and it fills; timestamps wrap twice, and a late reply to the first request meets the second; ping's sequence numbers go twice around its table; an answer to the first hop's probe is late for the second's. |
| `programs` | `getaddrinfo()`: 3 versions, 2 addresses per family. sock: 2 connections. daytime: 2 addresses, 2 other clients. SCTP: 8 servers, 2 clients, 2 streams, 2 lines, a message of 3 in pieces, buffer grown by 2 | `GaiRight`; `OptionsInForce`, `BackToAccept`; `DayRight`; `SctpEchoes`, `SctpAnswered`. A second call finds the first one's resolver state; the first address fails and the second works; the signal mask differs from the second connection on; the long message outgrows its buffer and two associations interleave; a sender goes between two pieces. |
| `sessions` | icmpd: 2 clients, 1 or 2 entries, 1 port, 1 error, 1 message of buffer, both IPv4 or one of each. Heartbeat: 2 probes for the client, 1 alarm for the server, 1 notice under way, and the notice may reach the server before its byte. Web: 3 programs, 4 files, 3 connections | `IcmpOwn`, `IcmpAnswered`; `HbVerdicts`; `CountsExact`. With one port a client that ends hands its port to the next, and its error comes to a new owner's entry. Two writes for one error need a third client; only the proof reaches them. |
| `trace_v6` | traceroute as above | *Violation*: `V6DoneAtDestination`, section 7. |

Deadlock is not checked: every one of these programs may stop (SIGINT, `err_quit`, end of
input) and clients need not come. That a program does not stop when it should not is what
the liveness properties say.

## 5. Fairness

A process, thread or handler that can run is eventually scheduled: `WF` on its steps. Where
it waits for a mutex that others take again and again, `SF` on the acquisition (POSIX does
not promise it, but the scheduler of a system with blocking mutexes gives it; without it
no property of a mutex program holds). A signal that is pending and not blocked is
delivered, also when the mask changes back and forth: `SF` on delivery. Nothing is assumed
of the outside: clients need not connect, send, read or close; the user need not type;
`web_child()` and `str_echo()` need not return; servers and children may or may not die;
the network may lose everything; ICMP errors, out-of-band bytes and SCTP messages need
not arrive; timers, once set, expire. The properties name these as the only reasons for a wait.

## 6. Proofs

TLC checks small instances; the theorems hold for every value of the constants that
satisfies the assumptions of the modules. Every safety property of the
passing runs is proved, and so is the safety half of every
property that also has a liveness half. None of the properties is inductive as it stands: each proof
has an inductive invariant, which TLC was given first, a lemma that the initial states
satisfy it, a lemma per action (or group of actions) that it is preserved, and a last step in temporal
logic. `ListenQueueProofs` has the lemmas about the backlog (append, take the head, drop
any element) that the servers share.

| Theorem | Inductive invariant, and why it is needed |
|---|---|
| `PrethreadServerProofs`: `TypeCorrect`, `MutualExclusion`, `NoConnectionLost` (`ExactlyOnce`), `WakeupsSuffice` (`NoLostWakeup`) | `TypeMutex /\ Shape /\ ExactlyOnce /\ NoLostWakeup`. `Shape`: a thread past its test of the ring finds it non-empty, which needs the mutex to be held since the test. `ExactlyOnce` rests on the ring lemmas `RingPut` and `RingGet`; `NoLostWakeup` counts the threads on their way to the ring. |
| `RingDispatches` (serv08 implements `ConnDispatch`) | The same invariant. The abstract queue is the ring from `iget` to `iput`, then the connection `main()` holds, then the backlog: what `MainPut` and `ThreadGet` do to this sequence, also where the ring wraps, is shown by lemmas. |
| `AcceptPoolProofs`: `AcceptUnderLock` (`LockRight`), `PoolDispatches` | `Shape` (a worker has a connection exactly after `accept()` in its loop) and `OwnerAtWork` (the lock has an owner only while it is at `accept()` or at the unlock, or died there), for all nine loops at once. |
| `FdPassServerProofs`: `ParentBelievesTruth` (`BeliefTrue`), `PassingDispatches` | `Hands` (at most one descriptor waits in the pipe of a live child, and only while it is in `read_fd()`) and `Counted` (`navail` against the number of free entries; each byte of a dying child's message may raise it, so it is an equality only while no child is dead). In the mapping a descriptor in the pipe of a live child is already that child's. |
| `ForkServerProofs`: `NothingLeaks` (`NothingLeftOver`), `ForkDispatches` | `Tables` (what `fork()` leaves in a child's table until it closes it), `Owned`, `Handling` (the handler interrupts `main()` only in `accept()`), `Noticed` (with `waitpid()` in a loop a zombie always has a SIGCHLD pending or a handler in its loop: coalesced signals do no harm). |
| `MultiplexServerProofs`: `TablesStayTrue` (`TablesTrue`) | `Round`: `nready` is the number of slots still to be looked at, and these have something to read. A slot that was filled after the wait has stale or garbage `revents`; it lies behind all others, and `nready` is zero before the loop gets there. |
| `NetworkProofs`: `TraceIsTruthful` | A probe's number determines its TTL, answers in the network are to probes that were sent, and at each step of the wait what has been matched is the current number. |
| `PingCountsRight` | `PingMarked`: of the last `PingSlots` requests, a bit of the table is set if and only if the request was answered; `SlotApart`: two requests with the same bit are a whole table apart. |
| `ReplyIsExact` | Replies carry what the request with their number asked; the difference of two timestamps is right though one has wrapped (`WrappedDifference`); the RTO is at most `RTT_RXTMAX * 2^nrexmt`. |
| `NoWaitCutShort` (`NoStaleTimeout`, half of `WaitEnds`) | Between two waits the alarm is off and the pipe empty; `bcast6` has either an alarm or a byte in its pipe. |
| `EchoIsExact` (`EchoInOrder /\ NqueueExact`, half of `EchoesAll`) | `RingHolds`: `iput` and `iget` are the numbers of datagrams received and sent modulo `QSIZE`, and the slots between them hold what is not sent yet. It holds from the first step of `dg_echo()`. |
| `CopyIsExact` (`SockCopies`) | `LoopCopied`: what has been sent and printed is the conversion of all that has been read, call by call; `LoopPlaces`, `InputReady` (what `select()` found is still there), `PeekShown` (between a peek and its second `recv()` the last thing printed is the beginning of what that call will take), `LoopClosed` (why a function has ended) and `SourceWrote` (the first buffers of the pattern). Two facts carry it: the chunks `dowrite()` cuts a buffer into hold that buffer, and the `crlf_add()` or `crlf_strip()` of two parts is the conversion of the whole. |
| `GaiIsRight` (`GaiRight`) | `HeapInv`: the blocks on the heap are those of the list and the name from `strdup()` that waits to be attached. `SearchInv`: the addresses in the list and those that wait are, in order, the ones found so far; `PortInv`: which passes of `ga_port()` have been made and what list each leaves, clones included; `PlaceInv` and `CodeInv`: which requests come how far, and with which error they end. On return the list is `Expected`. `UnixInv`: what has been built for a pathname at each step; `SavedInv`: the elements of `savecopy.c` are addresses of this call or blank; `OtherEnds` is inductive with them. |
| `ProgramProofs`: `WebCountsExact` (`CountsExact`) | Each counter is the cardinality of a set of files, by flag and by where the file's thread is; `WebFlagged` has the one file whose flag `web02` sets late. |
| `ErrorsAreOwn` (`IcmpOwn`) | `TblRight` (a client has at most one entry, below `maxi`, and none while it is in the queue) and, per client, `ClientRight`: before the daemon took its socket nothing was written to it, and afterwards all that is written names its family and port. `SenderInv`: two clients whose sockets exist have different ports, so a message under way with the port of a client comes from it or from one that has gone. |
| `AnyOptionsInForce`, `OptionsAreInForce` (`OptionsInForce`) | `StagesRight`: which options are set on the socket at each stage of `cliopen()` and `servopen()`. The first theorem is about `SockAnySpec`, where the command line has any subset of the options; the runs bound their number. |
| `LinesFlowIntact` (`FlowIntact`), `EndIsTruthful` (`EndsTruthful`) | Every buffer between stdin and stdout holds a run of consecutive lines that begins where the one before ends (`BackRuns`, `AwayRuns`); `ClientShape`: which buffers are empty at which step of which version; `FinShape`: what must have happened before the half close; `OneLine` for stop-and-wait. |
| `WalkIsRight` (`WalkRight`, half of `DayRight`) | `WalkAt`: at each step of a walk, what the addresses tried so far gave and which sockets are open; `DayComesFirst`: the end of file comes behind the data. |
| `VerdictsAreTruthful` (`HbTruthful`, half of `HbVerdicts`) | `CountedIsPending`: as long as nothing raced or failed, a client that has counted a probe, or has read `nprobes` to do so, has a probe or its answer under way; `SrvInv`: while no store has been overwritten, the server's `nprobes` is the number of alarms since the last probe; `AlarmOver`: `main()` does not run while `sig_alrm()` does, and no SIGALRM comes after `alarm(0)`. |
| `MessagesEchoedOnce` (`SctpEchoes`) | While no pieces were mixed, `OnePlace`: a message is to be read, worked on, or echoed; `UnderWay`: it belongs to the line its client waits for; `Pieces`: the pieces add up; `Replies` and `OneStream`. `StreamRight`, which stream an echo is on, is a second invariant, which holds whether or not pieces were mixed. That a client that asks on all streams has all its answers when it has counted them is a pigeonhole argument (`LastReply`). |

The last two theorems of `NetworkProofs` need facts about sequences of any length: that
flattening distributes over concatenation (`FlattenAppend`, `FlattenConcat`), and what flattening a
sequence of one-element sequences, or of the images of the elements, gives (`FlattenSingles`,
`FlattenMap`). The provers cannot instantiate an induction rule; the lemmas take a least
counterexample instead (`LeastOf`, from the fact that `<` on the naturals is well founded), which is
a set and not an operator.

The assumptions are those of the modules, which TLC evaluates on every run: sizes
are natural numbers (positive where the C array or the loop needs one element), names such as
`NoConn`, `Nobody`, `Main` and `ListenFd` are not among the things they are told apart from
(descriptor numbers differ; an `Icmpd` entry with client 0 is free, so 0 is no client),
the sets of programs are subsets of those modelled, and `PdapiIncr >= PdapiThreshold` (65535 and 1024 in
`sctp/unp.h`). The set of threads of `serv08` is finite. `RttClient!PowerLaws` states `2^(n+1) = 2 * 2^n`
for the exponents the backoff reaches, which the provers know only for literals.
The other sets of connections, workers, children and clients may even be infinite.

Only model-checked:

* all liveness properties and halves of properties (TLAPS 1.4.5 does not handle fairness
  or `ENABLED`): `EventuallyTaken`, `AcceptsThenEnds`, `EventuallyAccepted`, `Responsive`, `DataIsRead`,
  `SessionProgresses`, `CallEnds`, `PingEnds`, `TraceEnds`, `BackToAccept`, `SockEnds`, `SctpAnswered`,
  `IcmpAnswered`, and the second halves of `EchoesAll`, `WaitEnds`, `DayRight` and `HbVerdicts`;
* the three runs that expect a violation.

## 7. What was found

Three runs violate what the code's own comments say:

* `fdpass_ready` — `server/child.h:4` says "0 = ready", but a child that quits through
  `err_quit()` writes its message to standard error, which `child05.c:22` has made the pipe
  to the parent; the parent (`serv05.c:73-76`) takes each byte for "ready again". The dead
  child may then be given the next connection.
* `web_threads_join` — `threads/web03.c` sets `F_DONE` before it locks `ndone_mutex`, and
  `main()` calls `pthread_join()` while holding that mutex: if the scan started by another
  thread's end finds such a flag, both wait for ever.

* `trace_v6` — the `if` at `traceroute/recv_v6.c:49` lacks the braces of `recv_v4.c:54-59`, so
  every time exceeded error, whosesoever, ends the wait with a return value nothing has
  assigned. `recv_v6.c:8` says "-1 on ICMP port unreachable (caller is done)"; the run
  shows a trace that is done one hop early.

Other behaviour of the code that the properties had to name as exceptions:

* `serv04`: a child killed while it holds the mutex in shared memory stops all the others
  (`LockRight`); the `fcntl` lock of `serv03` is released by the kernel.
* `web02.c:64-68`: `main()` sets `F_CONNECTING` after it has created the thread and may
  overwrite `F_DONE`.
* `dgecho01.c:45-56`: a datagram that comes before FIOASYNC raises no SIGIO and is not echoed before
  another one comes (`Unannounced`); a SIGIO between FIOASYNC and FIONBIO leaves the handler in
  a `recvfrom()` that waits (`CaughtInRecv`).
* `dgecho01.c:86-87`: the server quits when the ring is exactly full, before it knows
  whether there is another datagram.
* `rtt.c:114`: the doubled RTO is not limited to `RTT_RXTMAX` (`BackoffBounded` has the bound
  that holds); `dg_send_recv.c:86-88`: SIGALRM between the matching reply and `alarm(0)`
  makes the client resend, or give up, although it has its answer.
* `dgclibcast1.c`, `dgclibcast3.c`, `lib/pselect.c`: a SIGALRM outside the blocking call is
  lost (`SignalLost`).
* `sigchldwait.c:9`: `wait()` leaves zombies when exits coincide, and blocks the server when
  SIGCHLD came from a child that was stopped; `tcpserv02.c:27` exits on EINTR where `accept()`
  is not restarted; `udpservselect01.c:58` can be caught in `accept()`, and its children keep the UDP
  socket open (line 61 closes only `listenfd`).
* `strcliselect01.c:25` returns before all echoes have come; `strclinonb.c:74` returns with
  output still in `fr[]`; `strclithread2.c:35-37` sets `done` after `Shutdown()` and may call
  a server that ended in good order "terminated prematurely"; `strclifork.c:10-13` leaves the
  parent in `pause()` when the child fails; the `select()` versions can deadlock with the
  server when both directions are full (`MutualBlock`); those that use `select()` with stdio
  can leave a line in a buffer until something else happens (`Mixed`).
* `tcpservselect01.c:76`, `tcpservpoll01.c:83`: one client that sends and does not read stops
  the server for all (`AsleepInWrite`).
* `libgai/getaddrinfo.c:128`: the name from `strdup()` is forgotten when a later step fails;
  `ga_unix()` frees nothing on its early returns (`NothingLeaks`). `libfree/getaddrinfo.c:158,350,434` and
  `savecopy.c` free an uninitialised `aihead` at errors before the first element, and
  `libfree/getaddrinfo.c:729-730` returns 0 with `*result` unset when `calloc()` fails
  (`OtherEnds`); `savecopy.c:131-135` leaves empty elements in its list and repeats an address
  string for each search (`SavedRight`).
* `looptcp.c:74-86`, `loopudp.c:186-198`: with `-Z` what is peeked at is printed, and printed again
  after the second `recv()` (`PrintedRight`); `loopudp.c:22,77-79,87-89`: with `-o` the loop sends to
  a local `servaddr` that only a received datagram fills in (`lStray`).
* `sock/tellwait.c:57-67`: `WAIT_CHILD()` restores a mask in which SIGUSR2 is not blocked, so
  from the second connection on the signal may come before `sigsuspend()` and the parent
  waits for ever (`BackToAccept`).
* `sctp_pdapircv.c:39` appends the next piece without asking whose it is; a server dies when an
  association vanishes between `sctp_recvmsg()` and its status call
  (`sctp_getnostrm.c:11-13`); the MSG_EOF of `sctpserv03` loses messages under way. When a
  sender goes between two pieces, `sctp_pdapircv.c:41-44` returns what there is, or puts it before the next
  message (`xMixed`). `sctpserv_fork.c:51-57` takes a failed `fork()` for the parent and closes the
  client's association.
* `bsdping.c:506` and `419`: `SET()` in the main loop can undo a `CLR()` in the handler.
* `recv_v4.c:25-28`: SIGALRM between the test of `gotalarm` and `recvfrom()` is lost
  (`TraceEnds`).
* `icmpd/readable_conn.c:42`, `readable_v4.c:83`: the daemon dies of a client that ends too early,
  and waits for one that does not read (`Stuck`); a reset that `Read_fd()` meets ends it too. The next
  owner of a port hears of the errors of the one before. An error written through an entry
  that still has the port of its last user makes the new client quit for a bad status
  (`dgcli01.c:22-25`).
* `heartbeatcli.c:43`: SIGURG inside `++nprobes` loses the reset, and a client may be told that a
  server is unreachable which has just answered; `strcliselect02.c:39`: a client that has turned
  the heartbeat off waits for ever when the network fails; `heartbeatserv.c:18-19`: a probe that comes
  before `F_SETOWN` is not answered.

## 8. Abstractions, and what is not modelled

* Data is what the properties distinguish: connections, datagrams, files and lines are names
  or numbers. In `StrCli` a line is never split between two reads. In `RttClient` seconds are
  ticks and the timestamp is a small counter. `web_child()` and `str_echo()` in the server
  modules are their outcome: they return or fail.
* The kernel (TCP, pipes, signals, mutexes, `select()`) is modelled from how the programs
  use it. Socket send buffers are modelled in `StrCli`, `MultiplexServer` and `Icmpd` only.
* Counters such as `thread_count` and the histogram of `dgecho01.c` influence nothing; the
  latter is left out.
* `dg_send_recv.c:63`: SIGALRM before `sigsetjmp()` is not modelled (the shortest timer is two
  seconds), nor is what `siglongjmp()` out of `printf()` leaves behind in the C library.
* Values of socket options, of TTLs beyond the hop count and of sequence numbers beyond their
  table are left out; `sctp/` programs do not depend on the order of messages, so its network keeps
  none. Of an ICMP error the daemon compares family and port only, and so does the model.
* Not modelled because nothing in them races, fails halfway or outlives a call: programs that
  make one request and print the answer (`inetd/`, `intro/`, `key/`, `route/`, `libroute/`,
  `ioctl/`, `sockopt/`, `ipopts/`, `streams/`, `ssntp/`, `mysdr/`, `mcast/`, the demonstrations in
  `oob/`, the single-threaded loops of `udpcliserv/`), `getnameinfo()`, and byte or text conversions (`readn`,
  `sock_ntop`, third-party `libfree/`).
* Not modelled because a modelled program asks the same question: the timeouts of
  `lib/connect_timeo.c`, `readable_timeo.c` and `advio/dgclitimeo*.c` (one alarm around one call,
  as in `BcastTimeout` and `Traceroute`), `nonblock/web.c` (the counters of `WebThreads`, without threads), the
  descriptor passing of `unixdomain/` (`FdPassServer`, `Icmpd`).
* Not part of the programs: experiments (`debug/`, `test/`), the ARP scan, capture and log examples, and the
  build files.
