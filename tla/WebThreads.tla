----------------------------- MODULE WebThreads -----------------------------
(***************************************************************************)
(* The Web clients of threads/: main() keeps up to maxnconn threads, each   *)
(* fetching one file with do_get_read(), and learns which have finished by  *)
(* thr_join() of any thread (web01.c), by polling ndone (web02.c), or by    *)
(* waiting on ndone_cond (web03.c).                                         *)
(***************************************************************************)
EXTENDS Naturals, FiniteSets

CONSTANTS NFiles,    \* nfiles
          MaxNConn,  \* maxnconn
          Webs       \* which of the programs to look at

ASSUME WebAssumption ==
    /\ NFiles \in Nat \ {0} /\ MaxNConn \in Nat \ {0}
    /\ Webs \subseteq {"web01", "web02", "web03"}

Files == 0 .. NFiles - 1
Main == NFiles            \* main() as owner of ndone_mutex
Nobody == NFiles + 1      \* ndone_mutex is free

VARIABLES web,                               \* the program that is running
          f_flags,                           \* file[].f_flags
          nconn, nlefttoconn, nlefttoread, ndone,
          mutex,                             \* owner of ndone_mutex
          mpc, i,                            \* main(): where it is, its loop index
          tpc,                               \* where the thread of each file is
          exitBy                             \* why the process ended

countVars == <<nconn, nlefttoconn, nlefttoread>>
webVars == <<web, f_flags, nconn, nlefttoconn, nlefttoread, ndone, mutex, mpc, i, tpc, exitBy>>

Flags == {"0", "F_CONNECTING", "F_READING", "F_DONE", "F_JOINED"}
ThreadPcs == {"none", "connect", "read", "lock", "incr", "unlock", "ended"}
MainPcs == {"top", "flag", "thr_join", "lock", "test", "sleep", "relock", "scan", "join", "unlock"}

WebTypes ==
    /\ web \in Webs
    /\ f_flags \in [Files -> Flags]
    /\ nconn \in 0 .. MaxNConn
    /\ nlefttoconn \in 0 .. NFiles /\ nlefttoread \in 0 .. NFiles /\ ndone \in 0 .. NFiles
    /\ mutex \in Files \cup {Main, Nobody}
    /\ mpc \in MainPcs /\ i \in 0 .. NFiles
    /\ tpc \in [Files -> ThreadPcs]
    /\ exitBy \in {"running", "done", "nothing found", "error"}

\* The home page has been read.
WebStart(p, how) ==
    /\ web = p
    /\ f_flags = [f \in Files |-> "0"]
    /\ nconn = 0 /\ nlefttoconn = NFiles /\ nlefttoread = NFiles /\ ndone = 0
    /\ mutex = Nobody
    /\ mpc = "top" /\ i = 0
    /\ tpc = [f \in Files |-> "none"]
    /\ exitBy = how

WebInit == \E p \in Webs : WebStart(p, "running")

Running == exitBy = "running"

-----------------------------------------------------------------------------
(* main()                                                                   *)

NextFile == CHOOSE f \in Files : f_flags[f] = "0" /\ \A g \in Files : f_flags[g] = "0" => f <= g
MayConnect == nconn < MaxNConn /\ nlefttoconn > 0

\* --nlefttoconn
OneLessToConn == nlefttoconn' = nlefttoconn - 1

\* The inner while loop: the next file gets a thread, or err_quit() if there is none.
\* web02 marks the file F_CONNECTING only after the thread exists.
Create ==
    /\ Running /\ mpc = "top" /\ nlefttoread > 0 /\ MayConnect
    /\ IF \A f \in Files : f_flags[f] # "0"
       THEN exitBy' = "nothing found" /\ UNCHANGED <<f_flags, nconn, nlefttoconn, mpc, i, tpc>>
       ELSE /\ tpc' = [tpc EXCEPT ![NextFile] = "connect"]
            /\ \/ /\ web # "web02"
                  /\ f_flags' = [f_flags EXCEPT ![NextFile] = "F_CONNECTING"]
                  /\ nconn' = nconn + 1 /\ OneLessToConn
                  /\ UNCHANGED <<mpc, i>>
               \/ /\ web = "web02"
                  /\ i' = NextFile /\ mpc' = "flag"
                  /\ UNCHANGED <<f_flags, nconn, nlefttoconn>>
            /\ UNCHANGED exitBy
    /\ UNCHANGED <<web, nlefttoread, ndone, mutex>>

FlagAfterCreate ==
    /\ Running /\ mpc = "flag"
    /\ f_flags' = [f_flags EXCEPT ![i] = "F_CONNECTING"]
    /\ nconn' = nconn + 1 /\ OneLessToConn
    /\ mpc' = "top"
    /\ UNCHANGED <<web, nlefttoread, ndone, mutex, i, tpc, exitBy>>

\* Enough threads: wait for one of them, or exit when all the files have been read.
StopCreating ==
    /\ Running /\ mpc = "top"
    /\ \/ /\ nlefttoread > 0 /\ ~MayConnect
          /\ mpc' = IF web = "web01" THEN "thr_join" ELSE "lock"
          /\ UNCHANGED exitBy
       \/ /\ nlefttoread = 0
          /\ exitBy' = "done"
          /\ UNCHANGED mpc
    /\ UNCHANGED <<web, f_flags, countVars, ndone, mutex, i, tpc>>

\* nconn--, nlefttoread--
OneRead == nlefttoread' = nlefttoread - 1

\* web01: thr_join(0) returns any thread that has terminated.
ThrJoin ==
    /\ Running /\ mpc = "thr_join"
    /\ \E f \in Files :
        /\ tpc[f] = "ended"
        /\ tpc' = [tpc EXCEPT ![f] = "none"]
    /\ nconn' = nconn - 1 /\ OneRead
    /\ mpc' = "top"
    /\ UNCHANGED <<web, f_flags, nlefttoconn, ndone, mutex, i, exitBy>>

MainLock ==
    /\ Running /\ mpc \in {"lock", "relock"} /\ mutex = Nobody
    /\ mutex' = Main /\ mpc' = "test"
    /\ UNCHANGED <<web, f_flags, countVars, ndone, i, tpc, exitBy>>

\* web02 looks at ndone once; web03 sleeps until it is not 0.
MainTest ==
    /\ Running /\ mpc = "test"
    /\ \/ ndone > 0 /\ mpc' = "scan" /\ i' = 0 /\ UNCHANGED mutex
       \/ ndone = 0 /\ web = "web02" /\ mpc' = "unlock" /\ UNCHANGED <<mutex, i>>
       \/ ndone = 0 /\ web = "web03" /\ mpc' = "sleep" /\ mutex' = Nobody /\ UNCHANGED i
    /\ UNCHANGED <<web, f_flags, countVars, ndone, tpc, exitBy>>

SpuriousWake ==
    /\ Running /\ mpc = "sleep"
    /\ mpc' = "relock"
    /\ UNCHANGED <<web, f_flags, countVars, ndone, mutex, i, tpc, exitBy>>

\* The scan for F_DONE, with ndone_mutex held.
MainScan ==
    /\ Running /\ mpc = "scan"
    /\ \/ i = NFiles /\ mpc' = "unlock" /\ UNCHANGED i
       \/ i < NFiles /\ f_flags[i] # "F_DONE" /\ i' = i + 1 /\ UNCHANGED mpc
       \/ i < NFiles /\ f_flags[i] = "F_DONE" /\ mpc' = "join" /\ UNCHANGED i
    /\ UNCHANGED <<web, f_flags, countVars, ndone, mutex, tpc, exitBy>>

\* pthread_join() returns when the thread has terminated.
OneLessDone_Forgotten == UNCHANGED ndone
OneLessDone == ndone' = ndone - 1

MainJoin ==
    /\ Running /\ mpc = "join" /\ tpc[i] = "ended"
    /\ tpc' = [tpc EXCEPT ![i] = "none"]
    /\ f_flags' = [f_flags EXCEPT ![i] = "F_JOINED"]
    /\ OneLessDone
    /\ nconn' = nconn - 1 /\ OneRead
    /\ mpc' = "scan" /\ i' = i + 1
    /\ UNCHANGED <<web, nlefttoconn, mutex, exitBy>>

MainUnlock ==
    /\ Running /\ mpc = "unlock"
    /\ mutex' = Nobody /\ mpc' = "top"
    /\ UNCHANGED <<web, f_flags, countVars, ndone, i, tpc, exitBy>>

-----------------------------------------------------------------------------
(* do_get_read()                                                            *)

ThreadGoto(f, pc) == tpc' = [tpc EXCEPT ![f] = pc]

\* Tcp_connect() and write_get_cmd()
WebConnect(f) ==
    /\ Running /\ tpc[f] = "connect"
    /\ f_flags' = [f_flags EXCEPT ![f] = "F_READING"]
    /\ ThreadGoto(f, "read")
    /\ UNCHANGED <<web, countVars, ndone, mutex, mpc, i, exitBy>>

\* The server has closed the connection: F_DONE is set before ndone_mutex is asked for.
EndOfFile(f) ==
    /\ Running /\ tpc[f] = "read"
    /\ f_flags' = [f_flags EXCEPT ![f] = "F_DONE"]
    /\ ThreadGoto(f, IF web = "web01" THEN "ended" ELSE "lock")
    /\ UNCHANGED <<web, countVars, ndone, mutex, mpc, i, exitBy>>

\* An error of a wrapper function in any thread ends the process.
ThreadFails(f) ==
    /\ Running /\ tpc[f] \in {"connect", "read"}
    /\ exitBy' = "error"
    /\ UNCHANGED <<web, f_flags, countVars, ndone, mutex, mpc, i, tpc>>

ThreadLock(f) ==
    /\ Running /\ tpc[f] = "lock" /\ mutex = Nobody
    /\ mutex' = f
    /\ ThreadGoto(f, "incr")
    /\ UNCHANGED <<web, f_flags, countVars, ndone, mpc, i, exitBy>>

\* ndone++ and, in web03, the signal
ThreadIncr(f) ==
    /\ Running /\ tpc[f] = "incr"
    /\ ndone' = ndone + 1
    /\ mpc' = IF mpc = "sleep" THEN "relock" ELSE mpc
    /\ ThreadGoto(f, "unlock")
    /\ UNCHANGED <<web, f_flags, countVars, mutex, i, exitBy>>

ThreadUnlock(f) ==
    /\ Running /\ tpc[f] = "unlock"
    /\ mutex' = Nobody
    /\ ThreadGoto(f, "ended")
    /\ UNCHANGED <<web, f_flags, countVars, ndone, mpc, i, exitBy>>

MainStep == \/ Create \/ FlagAfterCreate \/ StopCreating \/ ThrJoin \/ MainLock \/ MainTest
            \/ MainScan \/ MainJoin \/ MainUnlock
ThreadStep(f) == WebConnect(f) \/ EndOfFile(f) \/ ThreadLock(f) \/ ThreadIncr(f) \/ ThreadUnlock(f)

WebNext == \/ MainStep \/ SpuriousWake
        \/ \E f \in Files : ThreadStep(f) \/ ThreadFails(f)

\* Every thread runs, and gets the mutex if it is free again and again; every server
\* answers and closes the connection.
WebFair == /\ WF_webVars(MainStep) /\ SF_webVars(MainLock)
           /\ \A f \in Files : WF_webVars(ThreadStep(f)) /\ SF_webVars(ThreadLock(f))

WebSpec == WebInit /\ [][WebNext]_webVars /\ WebFair

-----------------------------------------------------------------------------
(* Properties.                                                              *)

Fetching == {f \in Files : tpc[f] # "none"}

\* Types are kept, and nconn is the number of threads that have not been joined, so
\* never more than maxnconn connections are open (web03.c:56,67,84); between creation
\* and count web02 is one behind.  "nlefttoconn = %d but nothing found" is never
\* printed (web03.c:58-62).
ConnLimit ==
    /\ WebTypes
    /\ Cardinality(Fetching) = IF mpc = "flag" THEN nconn + 1 ELSE nconn
    /\ Cardinality(Fetching) <= MaxNConn
    /\ exitBy # "nothing found"

\* ndone is the number of threads that have announced their end and are not joined yet,
\* even while main() works through its scan (web03.c:23,83,124).
NdoneExact ==
    web # "web01" => ndone = Cardinality({f \in Files : tpc[f] \in {"unlock", "ended"}})

\* The four counters describe the array and the threads exactly (web03.c:52-90).
CountsExact == ConnLimit /\ NdoneExact

\* F_DONE, "all done" (web03.c:16), is followed by F_JOINED, "main has pthread_join'ed"
\* (web03.c:17).  main() may join a thread that is still waiting for the mutex which
\* main() holds: neither moves again.
DoneIsJoined ==
    \A f \in Files : f_flags[f] = "F_DONE" ~> (f_flags[f] = "F_JOINED" \/ ~Running)

=============================================================================
