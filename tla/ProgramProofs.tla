---------------------------- MODULE ProgramProofs ----------------------------
(***************************************************************************)
(* Proofs for the single programs and small services: the Web clients with *)
(* threads, the ICMP daemon, the options of sock, the versions of          *)
(* str_cli() with the servers they talk to, the daytime programs, the      *)
(* heartbeat with out-of-band data, and the SCTP servers and clients.      *)
(***************************************************************************)
EXTENDS Icmpd, Heartbeat, WebThreads, SockOpen, Daytime, StrCli, Sctp,
        FiniteSetTheorems, SequenceTheorems, WellFoundedInduction, TLAPS

\* A set of natural numbers that is not empty has a least member.
LEMMA LeastOf ==
    ASSUME NEW T, T \subseteq Nat, T # {}
    PROVE  \E x \in T : \A y \in T : x <= y
<1>1. PICK x \in T : \A y \in T : ~(<<y, x>> \in OpToRel(<, Nat))
  BY NatLessThanWellFounded, WFMin
<1>2. \A y \in T : ~(y < x)
  BY <1>1 DEF OpToRel
<1> QED
  BY <1>2

-----------------------------------------------------------------------------
(* The Web clients                                                          *)

\* Files without a thread so far; threads that have announced their end
Unmade == {f \in Files : f_flags[f] = "0" /\ tpc[f] = "none"}
Announced == {f \in Files : tpc[f] \in {"unlock", "ended"}}

\* Whoever has a thread has a flag, but for the file web02 has just made one for.
WebFlagged ==
    /\ \A f \in Files : f_flags[f] = "0" => tpc[f] = "none" \/ (mpc = "flag" /\ f = i)
    /\ mpc = "flag" => i \in Files /\ tpc[i] # "none" /\ nconn < MaxNConn
    /\ mpc = "join" => i \in Files

\* web01 learns of the end of a thread from thr_join() and has no use for ndone.
WebOne ==
    /\ web = "web01" => ndone = 0 /\ mpc \in {"top", "thr_join"}
    /\ web = "web01" => \A f \in Files : tpc[f] \notin {"lock", "incr", "unlock"}
    /\ mpc = "thr_join" => web = "web01"

WebCounted ==
    /\ nlefttoread = nlefttoconn + nconn
    /\ Cardinality(Fetching) = IF mpc = "flag" THEN nconn + 1 ELSE nconn
    /\ nlefttoconn = IF mpc = "flag" THEN Cardinality(Unmade) + 1 ELSE Cardinality(Unmade)
    /\ web # "web01" => ndone = Cardinality(Announced)

WebInv == WebTypes /\ WebFlagged /\ WebOne /\ WebCounted /\ exitBy # "nothing found"

LEMMA FilesFinite == IsFiniteSet(Files) /\ Cardinality(Files) = NFiles
<1>1. NFiles - 1 \in Int /\ 0 \in Int /\ NFiles \in Nat
  BY WebAssumption
<1>2. IsFiniteSet(0 .. NFiles - 1) /\ Cardinality(0 .. NFiles - 1) = (IF 0 > NFiles - 1 THEN 0 ELSE (NFiles - 1) - 0 + 1)
  BY <1>1, FS_Interval
<1> QED
  BY <1>1, <1>2, WebAssumption DEF Files

\* Sets of files are finite; taking one away or adding one counts.
LEMMA FileSets ==
    ASSUME NEW S, S \subseteq Files
    PROVE  /\ IsFiniteSet(S) /\ Cardinality(S) \in 0 .. NFiles
           /\ \A f \in S : Cardinality(S \ {f}) = Cardinality(S) - 1 /\ Cardinality(S) > 0
           /\ \A f : f \notin S => Cardinality(S \cup {f}) = Cardinality(S) + 1
<1>1. IsFiniteSet(S) /\ Cardinality(S) <= NFiles /\ Cardinality(S) \in Nat
  BY FilesFinite, FS_Subset, FS_CardinalityType
<1>2. \A f \in S : Cardinality(S \ {f}) = Cardinality(S) - 1
  BY <1>1, FS_RemoveElement
<1>3. \A f : f \notin S => Cardinality(S \cup {f}) = Cardinality(S) + 1
  BY <1>1, FS_AddElement
<1>4. \A f \in S : Cardinality(S) > 0
  BY <1>1, FS_EmptySet
<1> QED
  BY <1>1, <1>2, <1>3, <1>4, WebAssumption

LEMMA WebInvInit == WebInit => WebInv
<1> SUFFICES ASSUME NEW p \in Webs, WebStart(p, "running") PROVE WebInv
  BY DEF WebInit
<1> USE DEF WebStart
<1>1. WebTypes
  BY WebAssumption DEF WebTypes, Flags, ThreadPcs, MainPcs, Nobody
<1>2. Fetching = {} /\ Announced = {} /\ Unmade = Files
  BY DEF Fetching, Announced, Unmade
<1>3. WebCounted
  BY <1>2, FilesFinite, FS_EmptySet, WebAssumption DEF WebCounted
<1>4. WebFlagged /\ WebOne
  BY DEF WebFlagged, WebOne
<1> QED
  BY <1>1, <1>3, <1>4 DEF WebInv

\* Steps that only move main(), or end the process
LEMMA WebMoves ==
    ASSUME WebInv, StopCreating \/ MainLock \/ MainTest \/ SpuriousWake \/ MainScan \/ MainUnlock
                   \/ (\E f \in Files : ThreadFails(f)) \/ UNCHANGED webVars
    PROVE  WebInv'
<1> USE DEF StopCreating, MainLock, MainTest, SpuriousWake, MainScan, MainUnlock, ThreadFails, webVars, countVars
<1>1. UNCHANGED <<web, f_flags, nconn, nlefttoconn, nlefttoread, ndone, tpc>>
  OBVIOUS
<1>2. mpc' = mpc \/ (mpc # "flag" /\ mpc' \in MainPcs \ {"flag"})
  BY DEF MainPcs
<1>3. i' = i \/ (mpc = "test" /\ i' = 0) \/ (mpc = "scan" /\ i < NFiles /\ i' = i + 1)
  OBVIOUS
<1>4. exitBy' \in {exitBy, "done", "error"} /\ mutex' \in {mutex, Main, Nobody}
  OBVIOUS
<1>5. WebTypes'
  <2>1. i' \in 0 .. NFiles
    <3>1. i \in 0 .. NFiles /\ NFiles \in Nat
      BY WebAssumption DEF WebInv, WebTypes
    <3> QED
      BY <1>3, <3>1
  <2>2. mutex' \in Files \cup {Main, Nobody}
    BY <1>4 DEF WebInv, WebTypes
  <2>3. mpc' \in MainPcs
    BY <1>2 DEF WebInv, WebTypes
  <2>4. exitBy' \in {"running", "done", "nothing found", "error"}
    BY <1>4 DEF WebInv, WebTypes
  <2> QED
    BY <1>1, <2>1, <2>2, <2>3, <2>4 DEF WebInv, WebTypes, Files, Main, Nobody
<1>6. WebFlagged'
  <2>1. \A f \in Files : f_flags[f] = "0" => tpc[f] = "none" \/ (mpc = "flag" /\ f = i)
    BY DEF WebInv, WebFlagged
  <2>2. mpc' = "flag" => mpc = "flag" /\ i' = i
    BY <1>2, <1>3
  <2>3. mpc = "flag" => mpc' = "flag"
    BY <1>2
  <2>4. mpc' = "join" => i' \in Files
    <3>1. i \in 0 .. NFiles /\ NFiles \in Nat
      BY WebAssumption DEF WebInv, WebTypes
    <3>2. mpc' = "join" => i' = i /\ (mpc = "join" \/ i < NFiles)
      OBVIOUS
    <3>3. i < NFiles => i \in Files
      BY <3>1 DEF Files
    <3> QED
      BY <3>2, <3>3 DEF WebInv, WebFlagged
  <2> QED
    BY <1>1, <2>1, <2>2, <2>3, <2>4 DEF WebInv, WebFlagged, Files
<1>7. WebOne'
  BY <1>1 DEF WebInv, WebOne
<1>8. WebCounted'
  BY <1>1, <1>2 DEF WebInv, WebCounted, Fetching, Announced, Unmade
<1> QED
  BY <1>4, <1>5, <1>6, <1>7, <1>8 DEF WebInv
\* Steps of a thread that exists and goes on existing
LEMMA ThreadMoves ==
    ASSUME WebInv, NEW f \in Files, ThreadStep(f)
    PROVE  WebInv'
<1> USE DEF ThreadStep, WebConnect, EndOfFile, ThreadLock, ThreadIncr, ThreadUnlock, ThreadGoto, countVars
<1>0. tpc \in [Files -> ThreadPcs] /\ f_flags \in [Files -> Flags] /\ ndone \in 0 .. NFiles
  BY DEF WebInv, WebTypes
<1>1. PICK t \in {"read", "lock", "ended", "incr", "unlock"} : tpc' = [tpc EXCEPT ![f] = t]
  OBVIOUS
<1>2. PICK g \in {f_flags[f], "F_READING", "F_DONE"} : f_flags' = [f_flags EXCEPT ![f] = g]
  BY <1>0
<1>3. UNCHANGED <<web, nconn, nlefttoconn, nlefttoread, i, exitBy>> /\ tpc[f] # "none"
      /\ mutex' \in {mutex, f, Nobody}
  OBVIOUS
<1>4. mpc' = mpc \/ (mpc = "sleep" /\ mpc' = "relock")
  OBVIOUS
<1>5. Fetching' = Fetching
  BY <1>0, <1>1, <1>3 DEF Fetching
<1>6. Unmade' = Unmade
  BY <1>0, <1>1, <1>2, <1>3 DEF Unmade
<1>7. web # "web01" => ndone' = Cardinality(Announced')
  <2> SUFFICES ASSUME web # "web01" PROVE ndone' = Cardinality(Announced')
    OBVIOUS
  <2>1. Announced \subseteq Files /\ ndone = Cardinality(Announced)
    BY DEF Announced, WebInv, WebCounted
  <2>2. CASE ThreadIncr(f)
    <3>1. Announced' = Announced \cup {f} /\ f \notin Announced
      BY <1>0, <2>2 DEF Announced
    <3> QED
      BY <2>1, <2>2, <3>1, FileSets
  <2>3. CASE ~ThreadIncr(f)
    <3>1. Announced' = Announced
      BY <1>0, <2>3 DEF Announced
    <3> QED
      BY <2>1, <2>3, <3>1
  <2> QED
    BY <2>2, <2>3
<1>8. web = "web01" => ndone' = ndone
  BY <1>3 DEF WebInv, WebOne
<1>9. WebTypes'
  <2>1. tpc' \in [Files -> ThreadPcs] /\ f_flags' \in [Files -> Flags]
    BY <1>0, <1>1, <1>2 DEF ThreadPcs, Flags
  <2>2. ndone' \in 0 .. NFiles
    <3>1. Announced' \subseteq Files
      BY DEF Announced
    <3> QED
      BY <1>0, <1>7, <1>8, <3>1, FileSets
  <2>3. mutex' \in Files \cup {Main, Nobody} /\ mpc' \in MainPcs
    BY <1>3, <1>4 DEF WebInv, WebTypes, MainPcs
  <2> QED
    BY <1>3, <2>1, <2>2, <2>3 DEF WebInv, WebTypes, Files, Main, Nobody, ThreadPcs, Flags, MainPcs
<1>10. WebFlagged'
  <2>1. \A h \in Files : f_flags'[h] = "0" => tpc'[h] = "none" \/ (mpc' = "flag" /\ h = i)
    <3> SUFFICES ASSUME NEW h \in Files, f_flags'[h] = "0" PROVE tpc'[h] = "none" \/ (mpc' = "flag" /\ h = i)
      OBVIOUS
    <3>1. f_flags[h] = "0"
      BY <1>0, <1>2
    <3>2. tpc[h] = "none" \/ (mpc = "flag" /\ h = i)
      BY <3>1 DEF WebInv, WebFlagged
    <3>3. tpc[h] = "none" => tpc'[h] = "none"
      BY <1>0, <1>1, <1>3
    <3> QED
      BY <1>4, <3>2, <3>3
  <2>2. mpc' = "flag" => i \in Files /\ tpc'[i] # "none" /\ nconn < MaxNConn
    BY <1>0, <1>1, <1>4 DEF WebInv, WebFlagged
  <2>3. mpc' = "join" => i \in Files
    BY <1>4 DEF WebInv, WebFlagged
  <2> QED
    BY <1>3, <2>1, <2>2, <2>3 DEF WebFlagged, Files
<1>11. WebOne'
  <2>1. web = "web01" => mpc' = mpc /\ ndone' = ndone
    BY <1>4, <1>8 DEF WebInv, WebOne
  <2>2. web = "web01" => \A h \in Files : tpc'[h] \notin {"lock", "incr", "unlock"}
    BY <1>0 DEF WebInv, WebOne
  <2> QED
    BY <1>3, <1>4, <2>1, <2>2 DEF WebInv, WebOne, Files
<1>12. WebCounted'
  BY <1>3, <1>4, <1>5, <1>6, <1>7 DEF WebInv, WebCounted
<1> QED
  BY <1>3, <1>9, <1>10, <1>11, <1>12 DEF WebInv

\* The file that gets the next thread has none.
LEMMA NextFileRight ==
    ASSUME NEW f0 \in Files, f_flags[f0] = "0"
    PROVE  NextFile \in Files /\ f_flags[NextFile] = "0"
<1> DEFINE T == {f \in Files : f_flags[f] = "0"}
<1>1. T \subseteq Nat /\ T # {}
  BY DEF Files
<1>2. \E x \in T : \A y \in T : x <= y
  BY <1>1, LeastOf
<1>3. \E f \in Files : f_flags[f] = "0" /\ \A g \in Files : f_flags[g] = "0" => f <= g
  BY <1>2
<1> QED
  BY <1>3 DEF NextFile

\* What the type invariant says of the counters, as numbers
LEMMA WebCountTypes ==
    ASSUME WebInv
    PROVE  /\ nconn \in Nat /\ nlefttoconn \in Nat /\ nlefttoconn <= NFiles /\ nconn <= MaxNConn
           /\ NFiles \in Nat /\ MaxNConn \in Nat
<1>1. nconn \in 0 .. MaxNConn /\ nlefttoconn \in 0 .. NFiles
  BY DEF WebInv, WebTypes
<1>2. NFiles \in Nat /\ MaxNConn \in Nat
  BY WebAssumption
<1> QED
  BY <1>1, <1>2

\* Pthread_create(): a file is left, and it becomes one of those being fetched.
LEMMA CreateKeeps == ASSUME WebInv, Create PROVE WebInv'
<1>a. nconn \in Nat /\ nlefttoconn \in Nat /\ nlefttoconn <= NFiles /\ NFiles \in Nat /\ MaxNConn \in Nat
  BY WebCountTypes
<1>b. nconn < MaxNConn /\ nlefttoconn > 0 /\ mpc = "top"
  BY DEF Create, MayConnect
<1>c. tpc \in [Files -> ThreadPcs] /\ f_flags \in [Files -> Flags]
  BY DEF WebInv, WebTypes
<1>0. /\ tpc \in [Files -> ThreadPcs] /\ f_flags \in [Files -> Flags] /\ nconn \in Nat /\ nlefttoconn \in Nat
      /\ nconn < MaxNConn /\ nlefttoconn > 0 /\ mpc = "top" /\ nlefttoconn <= NFiles
  BY <1>a, <1>b, <1>c
<1>1. Unmade \subseteq Files /\ Cardinality(Unmade) = nlefttoconn
  BY <1>0 DEF Unmade, WebInv, WebCounted
<1>2. Unmade # {}
  <2>1. Cardinality({}) = 0
    BY FS_EmptySet
  <2> QED
    BY <1>b, <1>1, <2>1
<1>3. PICK f0 \in Files : f_flags[f0] = "0"
  BY <1>2 DEF Unmade
<1>4. PICK n : n = NextFile
  OBVIOUS
<1>5. n \in Files /\ f_flags[n] = "0"
  BY <1>3, <1>4, NextFileRight
<1>6. tpc[n] = "none"
  BY <1>0, <1>5 DEF WebInv, WebFlagged
<1>7. tpc' = [tpc EXCEPT ![n] = "connect"] /\ exitBy' = exitBy /\ UNCHANGED <<web, nlefttoread, ndone, mutex>>
  BY <1>3, <1>4 DEF Create
<1>8. \/ /\ web # "web02" /\ f_flags' = [f_flags EXCEPT ![n] = "F_CONNECTING"]
         /\ nconn' = nconn + 1 /\ nlefttoconn' = nlefttoconn - 1 /\ mpc' = mpc /\ i' = i
      \/ /\ web = "web02" /\ i' = n /\ mpc' = "flag" /\ f_flags' = f_flags /\ nconn' = nconn /\ nlefttoconn' = nlefttoconn
  BY <1>3, <1>4 DEF Create, OneLessToConn
<1>9. Fetching' = Fetching \cup {n} /\ n \notin Fetching /\ Fetching \subseteq Files
  BY <1>0, <1>5, <1>6, <1>7 DEF Fetching
<1>10. Unmade' = Unmade \ {n} /\ n \in Unmade
  BY <1>0, <1>5, <1>6, <1>7, <1>8 DEF Unmade
<1>11. Announced' = Announced
  BY <1>0, <1>5, <1>6, <1>7 DEF Announced
<1>12. Cardinality(Fetching') = nconn + 1 /\ Cardinality(Unmade') = nlefttoconn - 1
  <2>1. Cardinality(Fetching) = nconn
    BY <1>0 DEF WebInv, WebCounted
  <2>2. Cardinality(Fetching \cup {n}) = Cardinality(Fetching) + 1
    BY <1>9, FileSets
  <2>3. Cardinality(Unmade \ {n}) = Cardinality(Unmade) - 1
    BY <1>1, <1>10, FileSets
  <2> QED
    BY <1>1, <1>9, <1>10, <2>1, <2>2, <2>3
<1>13. WebCounted'
  <2>1. nlefttoread = nlefttoconn + nconn /\ (web # "web01" => ndone = Cardinality(Announced))
    BY DEF WebInv, WebCounted
  <2>2. nlefttoread' = nlefttoconn' + nconn'
    BY <1>a, <1>7, <1>8, <2>1
  <2>3. Cardinality(Fetching') = IF mpc' = "flag" THEN nconn' + 1 ELSE nconn'
    BY <1>b, <1>8, <1>12
  <2>4. nlefttoconn' = IF mpc' = "flag" THEN Cardinality(Unmade') + 1 ELSE Cardinality(Unmade')
    <3>1. nlefttoconn = (nlefttoconn - 1) + 1
      BY <1>a
    <3> QED
      BY <1>b, <1>8, <1>12, <3>1
  <2>5. web' # "web01" => ndone' = Cardinality(Announced')
    BY <1>7, <1>11, <2>1
  <2> QED
    BY <2>2, <2>3, <2>4, <2>5 DEF WebCounted
<1>14. WebTypes'
  <2>1. tpc' \in [Files -> ThreadPcs] /\ f_flags' \in [Files -> Flags]
    BY <1>0, <1>5, <1>7, <1>8 DEF ThreadPcs, Flags
  <2>2. nconn' \in 0 .. MaxNConn /\ nlefttoconn' \in 0 .. NFiles
    BY <1>a, <1>b, <1>8
  <2>3. i' \in 0 .. NFiles
    <3>1. n \in 0 .. NFiles
      BY <1>a, <1>5 DEF Files
    <3>2. i \in 0 .. NFiles
      BY DEF WebInv, WebTypes
    <3> QED
      BY <1>8, <3>1, <3>2
  <2>4. mpc' \in MainPcs
    BY <1>0, <1>8 DEF MainPcs
  <2> QED
    BY <1>7, <2>1, <2>2, <2>3, <2>4 DEF WebInv, WebTypes, Main, Nobody, Files, ThreadPcs, Flags, MainPcs
<1>15. WebFlagged'
  <2>1. \A h \in Files : f_flags'[h] = "0" => tpc'[h] = "none" \/ (mpc' = "flag" /\ h = i')
    <3> SUFFICES ASSUME NEW h \in Files, f_flags'[h] = "0" PROVE tpc'[h] = "none" \/ (mpc' = "flag" /\ h = i')
      OBVIOUS
    <3>1. CASE h = n
      BY <1>0, <1>5, <1>8, <3>1
    <3>2. CASE h # n
      <4>1. f_flags[h] = "0"
        BY <1>0, <1>8, <3>2
      <4> QED
        BY <1>0, <1>7, <3>2, <4>1 DEF WebInv, WebFlagged
    <3> QED
      BY <3>1, <3>2
  <2>2. mpc' = "flag" => i' \in Files /\ tpc'[i'] # "none" /\ nconn' < MaxNConn
    BY <1>0, <1>5, <1>7, <1>8
  <2> QED
    BY <1>0, <1>8, <2>1, <2>2 DEF WebFlagged, Files
<1>16. WebOne'
  <2>1. web = "web01" => \A h \in Files : tpc'[h] \notin {"lock", "incr", "unlock"}
    BY <1>0, <1>7 DEF WebInv, WebOne
  <2> QED
    BY <1>0, <1>7, <1>8, <2>1 DEF WebInv, WebOne, Files
<1> QED
  BY <1>7, <1>13, <1>14, <1>15, <1>16 DEF WebInv

\* web02 catches up with the flag and the counts.
LEMMA FlagKeeps == ASSUME WebInv, FlagAfterCreate PROVE WebInv'
<1> USE DEF FlagAfterCreate, OneLessToConn
<1>a. nconn \in Nat /\ nlefttoconn \in Nat /\ nlefttoconn <= NFiles /\ NFiles \in Nat /\ MaxNConn \in Nat
  BY WebCountTypes
<1>c. tpc \in [Files -> ThreadPcs] /\ f_flags \in [Files -> Flags]
  BY DEF WebInv, WebTypes
<1>0. /\ tpc \in [Files -> ThreadPcs] /\ f_flags \in [Files -> Flags] /\ nconn \in Nat /\ nlefttoconn \in Nat
      /\ nlefttoconn <= NFiles /\ NFiles \in Nat
  BY <1>a, <1>c
<1>1. i \in Files /\ tpc[i] # "none" /\ nconn < MaxNConn
  BY DEF WebInv, WebFlagged
<1>2. Fetching' = Fetching /\ Announced' = Announced
  BY DEF Fetching, Announced
<1>3. Unmade' = Unmade
  BY <1>0, <1>1 DEF Unmade
<1>4. Cardinality(Unmade) \in Nat
  BY FileSets DEF Unmade
<1>5. nlefttoread = nlefttoconn + nconn /\ Cardinality(Fetching) = nconn + 1 /\ nlefttoconn = Cardinality(Unmade) + 1
      /\ (web # "web01" => ndone = Cardinality(Announced))
  BY DEF WebInv, WebCounted
<1>6. WebCounted'
  BY <1>0, <1>2, <1>3, <1>4, <1>5 DEF WebCounted
<1>7. WebTypes'
  <2>1. f_flags' \in [Files -> Flags]
    BY <1>0, <1>1 DEF Flags
  <2>2. nconn' \in 0 .. MaxNConn /\ nlefttoconn' \in 0 .. NFiles
    BY <1>0, <1>1, <1>4, <1>5, WebAssumption
  <2> QED
    BY <2>1, <2>2 DEF WebInv, WebTypes, Main, Nobody, Files, ThreadPcs, Flags, MainPcs
<1>8. WebFlagged'
  <2>1. \A h \in Files : f_flags'[h] = "0" => tpc[h] = "none"
    BY <1>0, <1>1 DEF WebInv, WebFlagged
  <2> QED
    BY <2>1 DEF WebFlagged, Files
<1>9. WebOne'
  BY DEF WebInv, WebOne, Files
<1> QED
  BY <1>6, <1>7, <1>8, <1>9 DEF WebInv

\* thr_join() and pthread_join(): a thread that has ended is no longer counted.
LEMMA JoinKeeps ==
    ASSUME WebInv, NEW f \in Files, tpc[f] = "ended", tpc' = [tpc EXCEPT ![f] = "none"],
           nconn' = nconn - 1, OneRead, UNCHANGED <<web, nlefttoconn, mutex, exitBy>>,
           \/ web = "web01" /\ f_flags' = f_flags /\ ndone' = ndone /\ mpc' = "top" /\ i' = i
           \/ /\ web # "web01" /\ f_flags' = [f_flags EXCEPT ![f] = "F_JOINED"] /\ ndone' = ndone - 1
              /\ mpc' = "scan" /\ i' \in 0 .. NFiles,
           mpc # "flag"
    PROVE  WebInv'
<1> USE DEF OneRead
<1>a. nconn \in Nat /\ nlefttoconn \in Nat /\ NFiles \in Nat
  BY WebCountTypes
<1>c. /\ tpc \in [Files -> ThreadPcs] /\ f_flags \in [Files -> Flags]
      /\ nlefttoread \in 0 .. NFiles /\ nconn \in 0 .. MaxNConn /\ ndone \in 0 .. NFiles
  BY DEF WebInv, WebTypes
<1>0. /\ tpc \in [Files -> ThreadPcs] /\ f_flags \in [Files -> Flags] /\ nconn \in Nat /\ nlefttoconn \in Nat
      /\ nlefttoread \in 0 .. NFiles /\ NFiles \in Nat /\ nconn \in 0 .. MaxNConn /\ ndone \in 0 .. NFiles
  BY <1>a, <1>c
<1>1. Fetching' = Fetching \ {f} /\ f \in Fetching /\ Fetching \subseteq Files
  BY <1>0 DEF Fetching
<1>2. f_flags[f] # "0"
  BY DEF WebInv, WebFlagged
<1>3. Unmade' = Unmade
  BY <1>0, <1>2 DEF Unmade
<1>4. Announced' = Announced \ {f} /\ f \in Announced /\ Announced \subseteq Files
  BY <1>0 DEF Announced
<1>5. nlefttoread = nlefttoconn + nconn /\ Cardinality(Fetching) = nconn /\ nlefttoconn = Cardinality(Unmade)
      /\ (web # "web01" => ndone = Cardinality(Announced))
  BY DEF WebInv, WebCounted
<1>6. Cardinality(Fetching') = nconn - 1 /\ nconn > 0
  BY <1>1, <1>5, FileSets
<1>7. Cardinality(Announced') = Cardinality(Announced) - 1 /\ Cardinality(Announced) > 0
  BY <1>4, FileSets
<1>8. WebCounted'
  BY <1>0, <1>3, <1>5, <1>6, <1>7 DEF WebCounted
<1>9. WebTypes'
  <2>1. f_flags' \in [Files -> Flags] /\ tpc' \in [Files -> ThreadPcs]
    BY <1>0 DEF Flags, ThreadPcs
  <2>2. nconn' \in 0 .. MaxNConn /\ nlefttoread' \in 0 .. NFiles
    BY <1>0, <1>5, <1>6, WebAssumption
  <2>3. ndone' \in 0 .. NFiles
    BY <1>0, <1>5, <1>7, WebAssumption
  <2>4. mpc' \in MainPcs /\ i' \in 0 .. NFiles
    BY DEF MainPcs, WebInv, WebTypes
  <2> QED
    BY <2>1, <2>2, <2>3, <2>4 DEF WebInv, WebTypes, Main, Nobody, Files, ThreadPcs, Flags, MainPcs
<1>10. WebFlagged'
  <2>1. \A h \in Files : f_flags'[h] = "0" => tpc'[h] = "none"
    BY <1>0 DEF WebInv, WebFlagged
  <2> QED
    BY <2>1 DEF WebFlagged, Files
<1>11. WebOne'
  <2>1. web = "web01" => \A h \in Files : tpc'[h] \notin {"lock", "incr", "unlock"}
    BY <1>0 DEF WebInv, WebOne
  <2> QED
    BY <2>1 DEF WebInv, WebOne, Files
<1> QED
  BY <1>8, <1>9, <1>10, <1>11 DEF WebInv

LEMMA WebInvNext == WebInv /\ [WebNext]_webVars => WebInv'
<1> SUFFICES ASSUME WebInv, [WebNext]_webVars PROVE WebInv'
  OBVIOUS
<1>1. CASE ThrJoin
  <2>1. PICK f \in Files : tpc[f] = "ended" /\ tpc' = [tpc EXCEPT ![f] = "none"]
    BY <1>1 DEF ThrJoin
  <2>2. web = "web01"
    BY <1>1 DEF ThrJoin, WebInv, WebOne
  <2> QED
    BY <1>1, <2>1, <2>2, JoinKeeps DEF ThrJoin
<1>2. CASE MainJoin
  <2>1. i \in Files /\ web # "web01"
    BY <1>2 DEF MainJoin, WebInv, WebFlagged, WebOne
  <2>2. i' \in 0 .. NFiles
    BY <1>2, <2>1, WebAssumption DEF MainJoin, Files
  <2> QED
    BY <1>2, <2>1, <2>2, JoinKeeps DEF MainJoin, OneLessDone
<1> QED
  BY <1>1, <1>2, WebMoves, ThreadMoves, CreateKeeps, FlagKeeps DEF WebNext, MainStep

\* The counters of the Web clients describe their threads exactly, never more than maxnconn
\* connections are open and "nothing found" is never printed, for any number of files.
THEOREM WebCountsExact == WebSpec => []CountsExact
<1>1. WebInv => CountsExact
  <2> SUFFICES ASSUME WebInv PROVE CountsExact
    OBVIOUS
  <2>a. nconn \in Nat /\ MaxNConn \in Nat /\ nconn <= MaxNConn
    BY WebCountTypes
  <2>b. /\ Cardinality(Fetching) = IF mpc = "flag" THEN nconn + 1 ELSE nconn
        /\ mpc = "flag" => nconn < MaxNConn
    BY DEF WebInv, WebFlagged, WebCounted
  <2>1. Cardinality(Fetching) <= MaxNConn
    BY <2>a, <2>b
  <2>2. NdoneExact
    BY DEF WebInv, WebCounted, NdoneExact, Announced
  <2> QED
    BY <2>1, <2>2 DEF WebInv, WebCounted, CountsExact, ConnLimit
<1> QED
  BY <1>1, WebInvInit, WebInvNext, PTL DEF WebSpec

-----------------------------------------------------------------------------
(* The ICMP daemon                                                          *)

IcmpFroms == IcmpClients \cup {0}
IcmpMsgs == [n : Nat, from : IcmpFroms, fam : Families, kind : {"error", "other", "short"}, port : IcmpPorts \cup {0}]
Writings == [n : Nat, from : IcmpFroms, fam : Families, kind : {"1", "0", "icmpd_err"}, port : IcmpPorts \cup {0}]
TblEntries == [c : IcmpClients \cup {0}, fam : Families, port : IcmpPorts \cup {0, -1}]

IcmpTypes ==
    /\ qFam \in [IcmpClients -> Families] /\ qPort \in [IcmpClients -> IcmpPorts \cup {0}]
    /\ qCli \in [IcmpClients -> {"start", "pass", "status", "loop", "wait", "gone"}]
    /\ qOut \in [IcmpClients -> Seq(Writings)] /\ qTold \in [IcmpClients -> SUBSET Writings]
    /\ qNet \subseteq IcmpMsgs /\ qErrors \in Nat
    /\ qTbl \in [Entries -> TblEntries] /\ Entries \subseteq Nat /\ qMaxi \in Nat

\* What is in a raw socket is of its family, and what select() has found is still there.
RawRight ==
    /\ qRaw \in [Families -> Seq(IcmpMsgs)]
    /\ \A f \in Families : \A k \in 1 .. Len(qRaw[f]) : qRaw[f][k].fam = f
    /\ \A f \in Families : f \in qSet => qRaw[f] # <<>>
    /\ \A f \in Families : qPc = f => f \in qSet

QueueRight ==
    /\ qQueue \in Seq(IcmpClients)
    /\ \A k, l \in 1 .. Len(qQueue) : qQueue[k] = qQueue[l] => k = l
    /\ \A k \in 1 .. Len(qQueue) : qCli[qQueue[k]] # "start"
    /\ "listen" \in qSet => qQueue # <<>>
    /\ qPc = "listen" => "listen" \in qSet

\* A client has one entry at most, below maxi, and none while it is in the queue.
TblRight ==
    /\ \A x \in Entries : qTbl[x].c # 0 => x < qMaxi /\ qCli[qTbl[x].c] # "start"
    /\ \A x, y \in Entries : qTbl[x].c = qTbl[y].c /\ qTbl[x].c # 0 => x = y
    /\ \A x \in Entries, k \in 1 .. Len(qQueue) : qTbl[x].c # qQueue[k]
    /\ \A x \in qConns : x \in Entries /\ Readable(x)

OwnError(c, e) == e.kind = "icmpd_err" /\ e.fam = qFam[c] /\ e.port = qPort[c]
Registered(c) == \E x \in Entries : x < qMaxi /\ qTbl[x] = [c |-> c, fam |-> qFam[c], port |-> qPort[c]]

\* The daemon has not taken the client's socket.
IcmpUntaken(c) ==
    /\ \A k \in 1 .. Len(qOut[c]) : qOut[c][k] # Status("1")
    /\ qTold[c] = {}

\* It has: all it writes from the k'th on is about that socket.
IcmpTaken(c, k) ==
    /\ c \notin qFd /\ qPort[c] # 0
    /\ \A l \in k .. Len(qOut[c]) : OwnError(c, qOut[c][l])
    /\ DaemonDied \/ Registered(c)

ClientRight(c) ==
    /\ qCli[c] \in {"start", "pass"} => c \notin qFd
    /\ qCli[c] \in {"start", "pass"} \/ c \in qFd => IcmpUntaken(c)
    /\ qCli[c] = "status" => qTold[c] = {}
    /\ qCli[c] = "status" /\ qOut[c] # <<>> /\ qOut[c][1] = Status("1") => IcmpTaken(c, 2)
    /\ qCli[c] \in {"loop", "wait"} => IcmpTaken(c, 1)
    /\ \A e \in qTold[c] : OwnError(c, e)

IcmpInv == IcmpTypes /\ RawRight /\ QueueRight /\ TblRight /\ \A c \in IcmpClients : ClientRight(c)

LEMMA AppendOf ==
    ASSUME NEW S, NEW s \in Seq(S), NEW e \in S
    PROVE  /\ Append(s, e) \in Seq(S) /\ Append(s, e) # <<>> /\ Len(s) \in Nat
           /\ Len(Append(s, e)) = Len(s) + 1 /\ Append(s, e)[Len(s) + 1] = e
           /\ \A k \in 1 .. Len(s) : Append(s, e)[k] = s[k]
           /\ \A k \in 1 .. Len(s) + 1 : k \in 1 .. Len(s) \/ k = Len(s) + 1
<1>a. Append(s, e) \in Seq(S)
  OBVIOUS
<1>2. Len(s) \in Nat /\ Len(Append(s, e)) = Len(s) + 1
  OBVIOUS
<1>b. Len(<<>>) = 0
  OBVIOUS
<1>1. Append(s, e) \in Seq(S) /\ Append(s, e) # <<>>
  BY <1>a, <1>b, <1>2
<1>3. Append(s, e)[Len(s) + 1] = e
  OBVIOUS
<1>4. \A k \in 1 .. Len(s) : Append(s, e)[k] = s[k]
  OBVIOUS
<1>5. \A k \in 1 .. Len(s) + 1 : k \in 1 .. Len(s) \/ k = Len(s) + 1
  BY <1>2
<1> QED
  BY <1>1, <1>2, <1>3, <1>4, <1>5

LEMMA TailOf ==
    ASSUME NEW S, NEW s \in Seq(S), s # <<>>
    PROVE  /\ Head(s) \in S /\ Head(s) = s[1] /\ Tail(s) \in Seq(S)
           /\ Len(s) \in Nat /\ Len(s) > 0 /\ Len(Tail(s)) = Len(s) - 1
           /\ \A k \in 1 .. Len(Tail(s)) : Tail(s)[k] = s[k + 1] /\ k + 1 \in 2 .. Len(s) /\ k + 1 \in 1 .. Len(s)
<1>a. Len(s) \in Nat /\ Len(s) > 0
  OBVIOUS
<1>b. Tail(s) \in Seq(S) /\ Len(Tail(s)) = Len(s) - 1
  OBVIOUS
<1>c. Head(s) \in S /\ Head(s) = s[1]
  OBVIOUS
<1>1. Head(s) \in S /\ Head(s) = s[1] /\ Tail(s) \in Seq(S) /\ Len(s) \in Nat /\ Len(s) > 0 /\ Len(Tail(s)) = Len(s) - 1
  BY <1>a, <1>b, <1>c
<1>2. \A k \in 1 .. Len(s) - 1 : Tail(s)[k] = s[k + 1]
  OBVIOUS
<1>3. \A k \in 1 .. Len(Tail(s)) : k + 1 \in 2 .. Len(s) /\ k + 1 \in 1 .. Len(s)
  BY <1>1
<1> QED
  BY <1>1, <1>2, <1>3

\* The next descriptor looked at is one of rset.
LEMMA StageIn ==
    ASSUME NEW set, NEW rest
    PROVE  \/ Stage(set, rest) = "conn"
           \/ Stage(set, rest) \in {"listen", "v4", "v6"} /\ Stage(set, rest) \in set \cap rest
  BY DEF Stage

\* What is left of rset after one descriptor of it
LEMMA ThenLeaves ==
    ASSUME NEW rest, NEW conn, Then(rest, conn)
    PROVE  /\ qSet' \subseteq qSet /\ qSet' \subseteq rest
           /\ qConns' \subseteq qConns /\ qConns' \cap conn = {}
           /\ qPc' \notin {"died"}
           /\ qPc' \in {"listen", "v4", "v6"} => qPc' \in qSet'
<1>1. CASE qReady - 1 <= 0
  BY <1>1 DEF Then
<1>2. CASE ~(qReady - 1 <= 0)
  BY <1>2, StageIn DEF Then
<1> QED
  BY <1>1, <1>2

LEMMA DiesLeaves ==
    ASSUME DaemonDies
    PROVE  qSet' = {} /\ qConns' = {} /\ qPc' = "died"
  BY DEF DaemonDies

\* Nothing about a client has changed, but that the daemon may have died.
LEMMA ClientSame ==
    ASSUME NEW c \in IcmpClients, ClientRight(c), qCli'[c] = qCli[c], qOut'[c] = qOut[c], qTold'[c] = qTold[c],
           qFam' = qFam, qPort'[c] = qPort[c], c \in qFd' => c \in qFd,
           DaemonDied \/ Registered(c) => DaemonDied' \/ Registered(c)'
    PROVE  ClientRight(c)'
  BY DEF ClientRight, IcmpUntaken, IcmpTaken, OwnError

LEMMA RegisteredSame ==
    ASSUME NEW c \in IcmpClients, UNCHANGED <<qTbl, qMaxi, qFam>>, qPort'[c] = qPort[c]
    PROVE  Registered(c)' <=> Registered(c)
  BY DEF Registered, Entries

LEMMA RawSame ==
    ASSUME RawRight, UNCHANGED qRaw, qSet' \subseteq qSet, qPc' \in {"listen", "v4", "v6"} => qPc' \in qSet'
    PROVE  RawRight'
  BY DEF RawRight, Families

LEMMA QueueSame ==
    ASSUME QueueRight, UNCHANGED qQueue, qSet' \subseteq qSet, qPc' \in {"listen", "v4", "v6"} => qPc' \in qSet',
           \A c \in IcmpClients : qCli[c] # "start" => qCli'[c] # "start"
    PROVE  QueueRight'
<1>1. \A k \in 1 .. Len(qQueue) : qQueue[k] \in IcmpClients
  BY DEF QueueRight
<1> QED
  BY <1>1 DEF QueueRight

LEMMA TblSame ==
    ASSUME IcmpTypes, TblRight, UNCHANGED <<qTbl, qMaxi, qQueue>>, qConns' \subseteq qConns, qFd \subseteq qFd',
           \A c \in IcmpClients : /\ qCli[c] # "start" => qCli'[c] # "start"
                                  /\ qCli[c] = "gone" => qCli'[c] = "gone"
    PROVE  TblRight'
<1>1. Entries' = Entries
  BY DEF Entries
<1>2. \A x \in Entries : qTbl[x].c # 0 => qTbl[x].c \in IcmpClients
  BY DEF IcmpTypes, TblEntries
<1>3. \A x \in qConns : x \in Entries /\ Readable(x)
  BY DEF TblRight
<1>4. \A x \in qConns' : x \in Entries /\ Readable(x)'
  BY <1>2, <1>3 DEF Readable
<1> QED
  BY <1>1, <1>2, <1>4 DEF TblRight

LEMMA IcmpInvInit == IcmpInit => IcmpInv
<1> SUFFICES ASSUME NEW v6 \in IcmpV6, NEW size \in IcmpSizes,
                    IcmpStart([c \in IcmpClients |-> IF c \in v6 THEN "v6" ELSE "v4"], size, "select")
             PROVE  IcmpInv
  BY DEF IcmpInit
<1>0. size \in Nat /\ Entries = 0 .. size - 1 /\ \A x \in Entries : qTbl[x] = [c |-> 0, fam |-> "v4", port |-> 0]
  BY IcmpAssumption DEF IcmpStart, Entries
<1>a. qTbl = [x \in Entries |-> [c |-> 0, fam |-> "v4", port |-> 0]] /\ Entries \subseteq Nat
  BY <1>0 DEF IcmpStart, Entries
<1>1. IcmpTypes
  BY <1>a DEF IcmpStart, IcmpTypes, TblEntries, Families
<1>2. RawRight /\ QueueRight
  BY DEF IcmpStart, RawRight, QueueRight, Families
<1>3. TblRight
  BY <1>0 DEF IcmpStart, TblRight
<1>4. \A c \in IcmpClients : ClientRight(c)
  BY DEF IcmpStart, ClientRight, IcmpUntaken, IcmpTaken
<1> QED
  BY <1>1, <1>2, <1>3, <1>4 DEF IcmpInv

\* Sock_bind_wild() and Connect(): the client joins the queue, and no entry is its own yet.
LEMMA ConnectKeeps == ASSUME IcmpInv, NEW d \in IcmpClients, Connect(d) PROVE IcmpInv'
<1>0. /\ qPort \in [IcmpClients -> IcmpPorts \cup {0}] /\ qQueue \in Seq(IcmpClients)
      /\ qCli \in [IcmpClients -> {"start", "pass", "status", "loop", "wait", "gone"}]
  BY DEF IcmpInv, IcmpTypes, QueueRight
<1>1. PICK p \in IcmpPorts \cup {0} : qPort' = [qPort EXCEPT ![d] = p]
  BY DEF Connect, Free
<1>2. /\ qCli[d] = "start" /\ qCli' = [qCli EXCEPT ![d] = "pass"] /\ qQueue' = Append(qQueue, d)
      /\ UNCHANGED <<qFam, qFd, qOut, qTold, qNet, qRaw, qErrors, qPc, qSet, qConns, qTbl, qMaxi>>
  BY DEF Connect, daemon
<1>3. \A c \in IcmpClients : c # d => qCli'[c] = qCli[c] /\ qPort'[c] = qPort[c]
  BY <1>0, <1>1, <1>2
<1>4. IcmpTypes'
  <2>1. /\ qPort' \in [IcmpClients -> IcmpPorts \cup {0}]
        /\ qCli' \in [IcmpClients -> {"start", "pass", "status", "loop", "wait", "gone"}]
    BY <1>0, <1>1, <1>2
  <2> QED
    BY <1>2, <2>1 DEF IcmpInv, IcmpTypes, Entries, Writings, IcmpMsgs, TblEntries, IcmpFroms, Families
<1>5. RawRight'
  BY <1>2, RawSame DEF IcmpInv, RawRight, Families, QueueRight
<1>6. \A k \in 1 .. Len(qQueue) : qQueue[k] # d /\ qQueue[k] \in IcmpClients /\ qCli'[qQueue[k]] # "start"
  BY <1>0, <1>2, <1>3 DEF IcmpInv, QueueRight
<1>7. qCli'[d] = "pass"
  BY <1>0, <1>2
<1>8. QueueRight'
  <2>1. \A k, l \in 1 .. Len(qQueue) : qQueue[k] = qQueue[l] => k = l
    BY DEF IcmpInv, QueueRight
  <2>2. \A k, l \in 1 .. Len(qQueue') : qQueue'[k] = qQueue'[l] => k = l
    BY <1>0, <1>2, <1>6, <2>1, AppendOf
  <2>3. \A k \in 1 .. Len(qQueue') : qCli'[qQueue'[k]] # "start"
    BY <1>0, <1>2, <1>6, <1>7, AppendOf
  <2>4. qQueue' \in Seq(IcmpClients) /\ qQueue' # <<>>
    BY <1>0, <1>2, AppendOf
  <2> QED
    BY <1>2, <2>2, <2>3, <2>4 DEF IcmpInv, QueueRight
<1>9. TblRight'
  <2>1. \A x \in Entries : qTbl[x].c # d
    BY <1>2, IcmpAssumption DEF IcmpInv, TblRight
  <2>2. \A x \in Entries : qTbl[x].c # 0 => qTbl[x].c \in IcmpClients /\ qCli'[qTbl[x].c] # "start"
    BY <1>3, <2>1 DEF IcmpInv, IcmpTypes, TblEntries, TblRight
  <2>3. \A x \in Entries, k \in 1 .. Len(qQueue') : qTbl[x].c # qQueue'[k]
    BY <1>0, <1>2, <2>1, AppendOf DEF IcmpInv, TblRight
  <2>4. \A x \in qConns : x \in Entries /\ Readable(x)'
    <3>1. \A x \in qConns : x \in Entries /\ Readable(x)
      BY DEF IcmpInv, TblRight
    <3> QED
      BY <1>2, <1>3, <2>1, <2>2, <3>1 DEF Readable
  <2> QED
    BY <1>2, <2>2, <2>3, <2>4 DEF IcmpInv, TblRight, Entries
<1>10. ASSUME NEW c \in IcmpClients PROVE ClientRight(c)'
  <2>1. CASE c = d
    BY <1>2, <1>7, <2>1 DEF IcmpInv, ClientRight, IcmpUntaken
  <2>2. CASE c # d
    BY <1>2, <1>3, <2>2, ClientSame, RegisteredSame DEF IcmpInv, DaemonDied
  <2> QED
    BY <2>1, <2>2
<1> QED
  BY <1>4, <1>5, <1>8, <1>9, <1>10 DEF IcmpInv

\* A step of one client that leaves the daemon, the ports and the queue alone
LEMMA ClientMoves ==
    ASSUME IcmpInv, NEW d \in IcmpClients, NEW pc \in {"pass", "status", "loop", "wait", "gone"},
           qCli[d] \notin {"start", "gone"} \/ pc = "gone", qCli' = [qCli EXCEPT ![d] = pc],
           qFd' \in {qFd, qFd \cup {d}},
           NEW o \in Seq(Writings), qOut' = [qOut EXCEPT ![d] = o],
           NEW t \in SUBSET Writings, qTold' = [qTold EXCEPT ![d] = t],
           UNCHANGED <<qFam, qPort, qRaw, qQueue, qPc, qSet, qConns, qTbl, qMaxi>>,
           qNet' \subseteq IcmpMsgs, qErrors' \in Nat, ClientRight(d)'
    PROVE  IcmpInv'
<1>0. /\ qCli \in [IcmpClients -> {"start", "pass", "status", "loop", "wait", "gone"}]
      /\ qOut \in [IcmpClients -> Seq(Writings)] /\ qTold \in [IcmpClients -> SUBSET Writings]
  BY DEF IcmpInv, IcmpTypes
<1>1. \A c \in IcmpClients : c # d => qCli'[c] = qCli[c] /\ qOut'[c] = qOut[c] /\ qTold'[c] = qTold[c]
  BY <1>0
<1>2. \A c \in IcmpClients : /\ qCli[c] # "start" => qCli'[c] # "start"
                             /\ qCli[c] = "gone" => qCli'[c] = "gone"
  BY <1>0
<1>3. IcmpTypes'
  <2>1. /\ qCli' \in [IcmpClients -> {"start", "pass", "status", "loop", "wait", "gone"}]
        /\ qOut' \in [IcmpClients -> Seq(Writings)] /\ qTold' \in [IcmpClients -> SUBSET Writings]
    BY <1>0
  <2> QED
    BY <2>1 DEF IcmpInv, IcmpTypes, Entries, Writings, IcmpMsgs, TblEntries, IcmpFroms, Families
<1>4. qPc' \in {"listen", "v4", "v6"} => qPc' \in qSet'
  BY DEF IcmpInv, RawRight, QueueRight, Families
<1>5. RawRight'
  BY <1>4, RawSame DEF IcmpInv
<1>6. QueueRight'
  BY <1>2, <1>4, QueueSame DEF IcmpInv
<1>7. TblRight'
  BY <1>2, TblSame DEF IcmpInv
<1>8. ASSUME NEW c \in IcmpClients, c # d PROVE ClientRight(c)'
  BY <1>1, <1>8, ClientSame, RegisteredSame DEF IcmpInv, DaemonDied
<1> QED
  BY <1>3, <1>5, <1>6, <1>7, <1>8 DEF IcmpInv

LEMMA Write_fdKeeps == ASSUME IcmpInv, NEW d \in IcmpClients, Write_fd(d) PROVE IcmpInv'
<1>0. /\ qCli \in [IcmpClients -> {"start", "pass", "status", "loop", "wait", "gone"}]
      /\ qOut \in [IcmpClients -> Seq(Writings)] /\ qTold \in [IcmpClients -> SUBSET Writings]
      /\ qNet \subseteq IcmpMsgs /\ qErrors \in Nat
  BY DEF IcmpInv, IcmpTypes
<1>1. /\ qCli[d] = "pass" /\ qCli' = [qCli EXCEPT ![d] = "status"] /\ qFd' = qFd \cup {d}
      /\ UNCHANGED <<qFam, qPort, qOut, qTold, qNet, qRaw, qErrors, qQueue, qPc, qSet, qConns, qTbl, qMaxi>>
  BY DEF Write_fd, daemon
<1>2. IcmpUntaken(d) /\ IcmpUntaken(d)'
  BY <1>1 DEF IcmpInv, ClientRight, IcmpUntaken
<1>3. qOut[d] # <<>> => 1 \in 1 .. Len(qOut[d])
  BY <1>0
<1>4. ClientRight(d)'
  BY <1>0, <1>1, <1>2, <1>3 DEF ClientRight, IcmpUntaken, Status
<1>5. qOut' = [qOut EXCEPT ![d] = qOut[d]] /\ qTold' = [qTold EXCEPT ![d] = qTold[d]] /\ qOut[d] \in Seq(Writings) /\ qTold[d] \in SUBSET Writings
  BY <1>0, <1>1
<1> QED
  BY <1>0, <1>1, <1>4, <1>5, ClientMoves

LEMMA ReadStatusKeeps == ASSUME IcmpInv, NEW d \in IcmpClients, ReadStatus(d) PROVE IcmpInv'
<1>0. /\ qCli \in [IcmpClients -> {"start", "pass", "status", "loop", "wait", "gone"}]
      /\ qOut \in [IcmpClients -> Seq(Writings)] /\ qTold \in [IcmpClients -> SUBSET Writings]
      /\ qNet \subseteq IcmpMsgs /\ qErrors \in Nat
  BY DEF IcmpInv, IcmpTypes
<1>1. PICK pc : pc = IF Head(qOut[d]) = Status("1") THEN "loop" ELSE "gone"
  OBVIOUS
<1>2. /\ qCli[d] = "status" /\ qOut[d] # <<>> /\ qCli' = [qCli EXCEPT ![d] = pc]
      /\ qOut' = [qOut EXCEPT ![d] = Tail(qOut[d])]
      /\ UNCHANGED <<qFam, qPort, qFd, qTold, qNet, qRaw, qErrors, qQueue, qPc, qSet, qConns, qTbl, qMaxi>>
  BY <1>1 DEF ReadStatus, daemon
<1>3. PICK o : o = Tail(qOut[d])
  OBVIOUS
<1>4. /\ o \in Seq(Writings) /\ qOut[d][1] = Head(qOut[d]) /\ qOut'[d] = o /\ qCli'[d] = pc
      /\ \A k \in 1 .. Len(o) : o[k] = qOut[d][k + 1] /\ k + 1 \in 2 .. Len(qOut[d]) /\ k + 1 \in 1 .. Len(qOut[d])
  BY <1>0, <1>2, <1>3, TailOf
<1>5. /\ qTold[d] = {} /\ (d \in qFd => IcmpUntaken(d))
      /\ pc = "loop" => IcmpTaken(d, 2)
  BY <1>1, <1>2, <1>4 DEF IcmpInv, ClientRight
<1>6. d \in qFd => IcmpUntaken(d)'
  BY <1>2, <1>4, <1>5 DEF IcmpUntaken
<1>7. pc = "loop" => IcmpTaken(d, 1)'
  <2>1. Registered(d)' <=> Registered(d)
    BY <1>2, RegisteredSame
  <2> QED
    BY <1>2, <1>4, <1>5, <2>1, ZenonT(60) DEF IcmpTaken, OwnError, DaemonDied
<1>8. ClientRight(d)'
  BY <1>1, <1>2, <1>4, <1>5, <1>6, <1>7 DEF ClientRight
<1>9. qTold' = [qTold EXCEPT ![d] = qTold[d]] /\ qTold[d] \in SUBSET Writings
  BY <1>0, <1>2
<1> QED
  BY <1>0, <1>1, <1>2, <1>3, <1>4, <1>8, <1>9, ClientMoves

LEMMA SendtoKeeps == ASSUME IcmpInv, NEW d \in IcmpClients, Sendto(d) PROVE IcmpInv'
<1>0. /\ qCli \in [IcmpClients -> {"start", "pass", "status", "loop", "wait", "gone"}]
      /\ qOut \in [IcmpClients -> Seq(Writings)] /\ qTold \in [IcmpClients -> SUBSET Writings]
      /\ qNet \subseteq IcmpMsgs /\ qErrors \in Nat /\ qPort[d] \in IcmpPorts \cup {0} /\ qFam[d] \in Families
  BY DEF IcmpInv, IcmpTypes
<1>1. /\ qCli[d] = "loop" /\ qCli' = [qCli EXCEPT ![d] = "wait"]
      /\ UNCHANGED <<qFam, qPort, qFd, qOut, qTold, qRaw, qQueue, qPc, qSet, qConns, qTbl, qMaxi>>
  BY DEF Sendto, daemon
<1>2. qNet' \subseteq IcmpMsgs /\ qErrors' \in Nat
  BY <1>0 DEF Sendto, IcmpMsgs, IcmpFroms
<1>3. ClientRight(d)'
  <2>1. Registered(d)' <=> Registered(d)
    BY <1>1, RegisteredSame
  <2>2. qCli'[d] = "wait"
    BY <1>0, <1>1
  <2> QED
    BY <1>1, <2>1, <2>2 DEF IcmpInv, ClientRight, IcmpTaken, IcmpUntaken, OwnError, DaemonDied
<1>5. qOut' = [qOut EXCEPT ![d] = qOut[d]] /\ qTold' = [qTold EXCEPT ![d] = qTold[d]] /\ qOut[d] \in Seq(Writings) /\ qTold[d] \in SUBSET Writings
  BY <1>0, <1>1
<1> QED
  BY <1>1, <1>2, <1>3, <1>5, ClientMoves

LEMMA AwaitEndsKeeps == ASSUME IcmpInv, NEW d \in IcmpClients, AwaitEnds(d) PROVE IcmpInv'
<1>0. /\ qCli \in [IcmpClients -> {"start", "pass", "status", "loop", "wait", "gone"}]
      /\ qOut \in [IcmpClients -> Seq(Writings)] /\ qTold \in [IcmpClients -> SUBSET Writings]
      /\ qNet \subseteq IcmpMsgs /\ qErrors \in Nat /\ qOut[d] \in Seq(Writings) /\ qTold[d] \in SUBSET Writings
  BY DEF IcmpInv, IcmpTypes
<1>1. /\ qCli[d] = "wait" /\ qCli' = [qCli EXCEPT ![d] = "loop"] /\ qCli'[d] = "loop"
      /\ UNCHANGED <<qFam, qPort, qFd, qNet, qRaw, qErrors, qQueue, qPc, qSet, qConns, qTbl, qMaxi>>
  BY <1>0 DEF AwaitEnds, daemon
<1>2. IcmpTaken(d, 1) /\ \A e \in qTold[d] : OwnError(d, e)
  BY <1>1 DEF IcmpInv, ClientRight
<1>3. Registered(d)' <=> Registered(d)
  BY <1>1, RegisteredSame
<1>4. CASE qOut[d] = <<>>
  <2>1. qOut' = qOut /\ qTold' = qTold
    BY <1>4 DEF AwaitEnds
  <2>2. ClientRight(d)'
    BY <1>1, <1>2, <1>3, <2>1 DEF ClientRight, IcmpTaken, IcmpUntaken, OwnError, DaemonDied
  <2>3. qOut' = [qOut EXCEPT ![d] = qOut[d]] /\ qTold' = [qTold EXCEPT ![d] = qTold[d]]
    BY <1>0, <2>1
  <2> QED
    BY <1>0, <1>1, <2>2, <2>3, ClientMoves
<1>5. CASE qOut[d] # <<>>
  <2>1. PICK o : o = Tail(qOut[d])
    OBVIOUS
  <2>2. PICK t : t = qTold[d] \cup {Head(qOut[d])}
    OBVIOUS
  <2>3. qOut' = [qOut EXCEPT ![d] = o] /\ qTold' = [qTold EXCEPT ![d] = t]
    BY <1>5, <2>1, <2>2 DEF AwaitEnds
  <2>4. /\ o \in Seq(Writings) /\ Head(qOut[d]) \in Writings /\ qOut[d][1] = Head(qOut[d]) /\ 1 \in 1 .. Len(qOut[d])
        /\ \A k \in 1 .. Len(o) : o[k] = qOut[d][k + 1] /\ k + 1 \in 1 .. Len(qOut[d])
    BY <1>0, <1>5, <2>1, TailOf
  <2>5. qOut'[d] = o /\ qTold'[d] = t /\ t \in SUBSET Writings
    BY <1>0, <2>2, <2>3, <2>4
  <2>6. \A e \in t : OwnError(d, e)'
    BY <1>1, <1>2, <2>2, <2>4 DEF IcmpTaken, OwnError
  <2>7. IcmpTaken(d, 1)'
    BY <1>1, <1>2, <1>3, <2>4, <2>5, SMTT(30) DEF IcmpTaken, OwnError, DaemonDied
  <2>8. ClientRight(d)'
    BY <1>1, <1>2, <2>5, <2>6, <2>7 DEF ClientRight, IcmpTaken
  <2> QED
    BY <1>0, <1>1, <2>3, <2>4, <2>5, <2>8, ClientMoves
<1> QED
  BY <1>4, <1>5

LEMMA ClientEndsKeeps == ASSUME IcmpInv, NEW d \in IcmpClients, ClientEnds(d) PROVE IcmpInv'
<1>0. /\ qCli \in [IcmpClients -> {"start", "pass", "status", "loop", "wait", "gone"}]
      /\ qOut \in [IcmpClients -> Seq(Writings)] /\ qTold \in [IcmpClients -> SUBSET Writings]
      /\ qNet \subseteq IcmpMsgs /\ qErrors \in Nat /\ qOut[d] \in Seq(Writings) /\ qTold[d] \in SUBSET Writings
  BY DEF IcmpInv, IcmpTypes
<1>1. /\ qCli' = [qCli EXCEPT ![d] = "gone"] /\ qOut' = [qOut EXCEPT ![d] = <<>>]
      /\ UNCHANGED <<qFam, qPort, qFd, qTold, qNet, qRaw, qErrors, qQueue, qPc, qSet, qConns, qTbl, qMaxi>>
  BY DEF ClientEnds, daemon
<1>2. qCli'[d] = "gone" /\ qOut'[d] = <<>> /\ <<>> \in Seq(Writings) /\ Len(<<>>) = 0
  BY <1>0, <1>1
<1>3. ClientRight(d)'
  BY <1>1, <1>2 DEF IcmpInv, ClientRight, IcmpUntaken, OwnError
<1>4. qTold' = [qTold EXCEPT ![d] = qTold[d]]
  BY <1>0, <1>1
<1> QED
  BY <1>0, <1>1, <1>2, <1>3, <1>4, ClientMoves

\* An ICMP message gets into the raw socket of its family.
LEMMA RawArrives ==
    ASSUME IcmpInv, NEW m \in IcmpMsgs, qRaw' = [qRaw EXCEPT ![m.fam] = Append(qRaw[m.fam], m)],
           qNet' \subseteq IcmpMsgs, qErrors' \in Nat,
           UNCHANGED <<qFam, qPort, qFd, qOut, qCli, qTold, qQueue, qPc, qSet, qConns, qTbl, qMaxi>>
    PROVE  IcmpInv'
<1>0. /\ m.fam \in Families /\ qRaw \in [Families -> Seq(IcmpMsgs)] /\ qRaw[m.fam] \in Seq(IcmpMsgs)
      /\ \A f \in Families : \A k \in 1 .. Len(qRaw[f]) : qRaw[f][k].fam = f
  BY DEF IcmpMsgs, IcmpInv, RawRight
<1>1. qRaw' \in [Families -> Seq(IcmpMsgs)]
  BY <1>0, AppendOf
<1>2. \A f \in Families : qRaw[f] # <<>> => qRaw'[f] # <<>>
  BY <1>0, AppendOf
<1>3. \A f \in Families : \A k \in 1 .. Len(qRaw'[f]) : qRaw'[f][k].fam = f
  <2> SUFFICES ASSUME NEW f \in Families, NEW k \in 1 .. Len(qRaw'[f]) PROVE qRaw'[f][k].fam = f
    OBVIOUS
  <2>1. CASE f = m.fam
    <3>1. qRaw'[f] = Append(qRaw[f], m)
      BY <1>0, <2>1
    <3>2. \/ k \in 1 .. Len(qRaw[f]) /\ qRaw'[f][k] = qRaw[f][k]
          \/ qRaw'[f][k] = m
      BY <1>0, <2>1, <3>1, AppendOf
    <3> QED
      BY <1>0, <2>1, <3>2
  <2>2. CASE f # m.fam
    <3>1. qRaw'[f] = qRaw[f]
      BY <1>0, <2>2
    <3> QED
      BY <1>0, <3>1
  <2> QED
    BY <2>1, <2>2
<1>4. RawRight'
  BY <1>1, <1>2, <1>3 DEF IcmpInv, RawRight
<1>5. IcmpTypes'
  BY DEF IcmpInv, IcmpTypes, Entries, Writings, IcmpMsgs, TblEntries, IcmpFroms, Families
<1>6. QueueRight' /\ TblRight'
  BY DEF IcmpInv, QueueRight, TblRight, Entries, Readable
<1>7. ASSUME NEW c \in IcmpClients PROVE ClientRight(c)'
  BY ClientSame, RegisteredSame DEF IcmpInv, DaemonDied
<1> QED
  BY <1>4, <1>5, <1>6, <1>7 DEF IcmpInv

LEMMA ArrivalsKeep ==
    ASSUME IcmpInv, (\E m \in qNet : IcmpArrives(m)) \/ (\E f \in Families, kind \in {"other", "short"} : OtherIcmp(f, kind))
    PROVE  IcmpInv'
<1>0. qNet \subseteq IcmpMsgs /\ qErrors \in Nat
  BY DEF IcmpInv, IcmpTypes
<1>1. CASE \E m \in qNet : IcmpArrives(m)
  BY <1>0, <1>1, RawArrives DEF IcmpArrives, clients, daemon
<1>2. ASSUME NEW f \in Families, NEW kind \in {"other", "short"}, OtherIcmp(f, kind) PROVE IcmpInv'
  <2>1. PICK m : m = [n |-> qErrors, from |-> 0, fam |-> f, kind |-> kind, port |-> 0]
    OBVIOUS
  <2>2. m \in IcmpMsgs /\ m.fam = f
    BY <1>0, <2>1 DEF IcmpMsgs, IcmpFroms
  <2>3. qRaw' = [qRaw EXCEPT ![f] = Append(qRaw[f], m)] /\ qErrors' \in Nat
        /\ UNCHANGED <<qFam, qPort, qFd, qOut, qCli, qTold, qNet, qQueue, qPc, qSet, qConns, qTbl, qMaxi>>
    BY <1>0, <1>2, <2>1 DEF OtherIcmp, clients, daemon
  <2> QED
    BY <1>0, <2>2, <2>3, RawArrives
<1> QED
  BY <1>1, <1>2

LEMMA SelectKeeps == ASSUME IcmpInv, DaemonSelect PROVE IcmpInv'
<1>1. UNCHANGED <<qFam, qPort, qFd, qOut, qCli, qTold, qNet, qRaw, qErrors, qQueue, qTbl, qMaxi>> /\ qPc = "select"
  BY DEF DaemonSelect, clients
<1>2. qPc' = Stage(qSet', {"listen", "v4", "v6"})
  BY DEF DaemonSelect
<1>3. \A f \in Families : f \in qSet' => qRaw[f] # <<>>
  BY DEF DaemonSelect, Families
<1>4. "listen" \in qSet' => qQueue # <<>>
  BY DEF DaemonSelect, Families
<1>5. qPc' = "conn" \/ qPc' \in qSet'
  BY <1>2, StageIn
<1>6. RawRight' /\ QueueRight'
  BY <1>1, <1>3, <1>4, <1>5 DEF IcmpInv, RawRight, QueueRight, Families
<1>7. \A x \in qConns' : x \in Entries /\ Readable(x)'
  BY <1>1 DEF DaemonSelect, Readable
<1>8. TblRight'
  BY <1>1, <1>7 DEF IcmpInv, TblRight, Entries
<1>9. IcmpTypes'
  BY <1>1 DEF IcmpInv, IcmpTypes, Entries, Writings, IcmpMsgs, TblEntries, IcmpFroms, Families
<1>10. ASSUME NEW c \in IcmpClients PROVE ClientRight(c)'
  BY <1>1, ClientSame, RegisteredSame DEF IcmpInv, DaemonDied
<1> QED
  BY <1>6, <1>8, <1>9, <1>10 DEF IcmpInv

LEMMA LoopEndsKeeps == ASSUME IcmpInv, LoopEnds \/ UNCHANGED icmpVars PROVE IcmpInv'
<1>1. UNCHANGED <<qFam, qPort, qFd, qOut, qCli, qTold, qNet, qRaw, qErrors, qQueue, qSet, qTbl, qMaxi>>
  BY DEF LoopEnds, clients, icmpVars, daemon
<1>2. (qPc' = qPc /\ qConns' = qConns) \/ (qPc = "conn" /\ qPc' = "select" /\ qConns' = {})
  BY DEF LoopEnds, icmpVars, daemon
<1>3. RawRight' /\ QueueRight'
  BY <1>1, <1>2 DEF IcmpInv, RawRight, QueueRight, Families
<1>4. TblRight'
  BY <1>1, <1>2, TblSame DEF IcmpInv
<1>5. IcmpTypes'
  BY <1>1 DEF IcmpInv, IcmpTypes, Entries, Writings, IcmpMsgs, TblEntries, IcmpFroms, Families
<1>6. ASSUME NEW c \in IcmpClients PROVE ClientRight(c)'
  BY <1>1, <1>2, ClientSame, RegisteredSame DEF IcmpInv, DaemonDied
<1> QED
  BY <1>3, <1>4, <1>5, <1>6 DEF IcmpInv

\* Accept(): the client leaves the queue and gets a free entry, or none.
LEMMA ListenKeeps == ASSUME IcmpInv, readable_listen PROVE IcmpInv'
<1>0. /\ qQueue \in Seq(IcmpClients) /\ qQueue # <<>> /\ qMaxi \in Nat /\ Entries \subseteq Nat
      /\ qTbl \in [Entries -> TblEntries]
      /\ \A k, l \in 1 .. Len(qQueue) : qQueue[k] = qQueue[l] => k = l
      /\ \A k \in 1 .. Len(qQueue) : qCli[qQueue[k]] # "start"
  BY DEF IcmpInv, IcmpTypes, QueueRight, readable_listen
<1>1. PICK h : h = Head(qQueue)
  OBVIOUS
<1>2. PICK q : q = Tail(qQueue)
  OBVIOUS
<1>3. /\ h \in IcmpClients /\ h = qQueue[1] /\ q \in Seq(IcmpClients) /\ 1 \in 1 .. Len(qQueue)
      /\ \A k \in 1 .. Len(q) : q[k] = qQueue[k + 1] /\ k + 1 \in 1 .. Len(qQueue) /\ k + 1 # 1
  BY <1>0, <1>1, <1>2, TailOf
<1>4. /\ UNCHANGED <<qFam, qPort, qFd, qOut, qCli, qTold, qNet, qRaw, qErrors>> /\ qQueue' = q
      /\ Then({"v4", "v6"}, {}) /\ qPc = "listen"
  BY <1>2 DEF readable_listen, clients
<1>5. /\ qSet' \subseteq qSet /\ "listen" \notin qSet' /\ qConns' \subseteq qConns /\ qPc' # "died"
      /\ qPc' \in {"listen", "v4", "v6"} => qPc' \in qSet'
  BY <1>4, ThenLeaves
<1>6. RawRight'
  BY <1>4, <1>5, RawSame DEF IcmpInv
<1>7. QueueRight'
  <2>1. \A k, l \in 1 .. Len(q) : q[k] = q[l] => k = l
    BY <1>0, <1>3
  <2>2. \A k \in 1 .. Len(q) : qCli[q[k]] # "start"
    BY <1>0, <1>3
  <2> QED
    BY <1>3, <1>4, <1>5, <2>1, <2>2 DEF QueueRight
<1>8. /\ \A x \in Entries : qTbl[x].c # h
      /\ \A x \in Entries, k \in 1 .. Len(q) : qTbl[x].c # q[k]
      /\ \A k \in 1 .. Len(q) : q[k] # h
      /\ qCli[h] # "start" /\ h # 0
  BY <1>0, <1>3, IcmpAssumption DEF IcmpInv, TblRight
<1>9. CASE UNCHANGED <<qTbl, qMaxi>>
  <2>1. IcmpTypes'
    BY <1>4, <1>9 DEF IcmpInv, IcmpTypes, Entries, Writings, IcmpMsgs, TblEntries, IcmpFroms, Families
  <2>2. TblRight'
    BY <1>4, <1>5, <1>8, <1>9 DEF IcmpInv, TblRight, Entries, Readable
  <2>3. ASSUME NEW c \in IcmpClients PROVE ClientRight(c)'
    BY <1>4, <1>5, <1>9, ClientSame, RegisteredSame DEF IcmpInv, DaemonDied
  <2> QED
    BY <1>6, <1>7, <2>1, <2>2, <2>3 DEF IcmpInv
<1>10. ASSUME NEW x \in Entries, qTbl[x].c = 0, qTbl' = [qTbl EXCEPT ![x].c = h], qMaxi' = GrownMaxi(x)
       PROVE  IcmpInv'
  <2>0. x \in Nat /\ qTbl[x] \in TblEntries
    BY <1>0
  <2>1. qMaxi' \in Nat /\ x < qMaxi' /\ \A y \in Nat : y < qMaxi => y < qMaxi'
    BY <1>0, <1>10, <2>0 DEF GrownMaxi
  <2>2. PICK r : r = [qTbl[x] EXCEPT !.c = h]
    OBVIOUS
  <2>3. r \in TblEntries /\ r.c = h
    BY <1>3, <2>0, <2>2 DEF TblEntries
  <2>4. qTbl' = [qTbl EXCEPT ![x] = r]
    BY <1>10, <2>2
  <2>5. Entries' = Entries /\ qTbl' \in [Entries -> TblEntries]
    BY <1>0, <2>3, <2>4 DEF Entries
  <2>6. qTbl'[x] = r /\ \A y \in Entries : y # x => qTbl'[y] = qTbl[y]
    BY <1>0, <2>4
  <2>7. IcmpTypes'
    BY <1>0, <1>4, <2>1, <2>5 DEF IcmpInv, IcmpTypes
  <2>8. TblRight'
    <3>1. \A y \in Entries : qTbl'[y].c # 0 => y < qMaxi' /\ qCli'[qTbl'[y].c] # "start"
      BY <1>0, <1>4, <1>8, <2>1, <2>3, <2>6 DEF IcmpInv, TblRight
    <3>2. \A y, z \in Entries : qTbl'[y].c = qTbl'[z].c /\ qTbl'[y].c # 0 => y = z
      BY <1>8, <2>3, <2>6 DEF IcmpInv, TblRight
    <3>3. \A y \in Entries, k \in 1 .. Len(q) : qTbl'[y].c # q[k]
      BY <1>8, <2>3, <2>6
    <3>4. \A y \in qConns : y \in Entries /\ Readable(y)
      BY DEF IcmpInv, TblRight
    <3>5. \A y \in qConns' : y \in Entries /\ Readable(y)'
      BY <1>4, <1>5, <1>10, <2>6, <3>4 DEF Readable
    <3> QED
      BY <1>4, <2>5, <3>1, <3>2, <3>3, <3>5 DEF TblRight
  <2>9. ASSUME NEW c \in IcmpClients PROVE ClientRight(c)'
    <3>1. ASSUME Registered(c) PROVE Registered(c)'
      <4>1. PICK y \in Entries : y < qMaxi /\ qTbl[y] = [c |-> c, fam |-> qFam[c], port |-> qPort[c]]
        BY <3>1 DEF Registered
      <4>2. y # x /\ y \in Nat
        BY <1>0, <1>10, <4>1, IcmpAssumption
      <4> QED
        BY <1>4, <2>1, <2>5, <2>6, <4>1, <4>2 DEF Registered
    <3> QED
      BY <1>4, <1>5, <3>1, ClientSame DEF IcmpInv, DaemonDied
  <2> QED
    BY <1>6, <1>7, <2>7, <2>8, <2>9 DEF IcmpInv
<1> QED
  BY <1>1, <1>9, <1>10 DEF readable_listen

\* The end of readable_v4(): the message leaves the raw socket.
LEMMA ToldKeeps ==
    ASSUME IcmpInv, NEW f \in Families, NEW rest, f \notin rest, Told(f, rest)
    PROVE  IcmpInv'
<1>0. /\ qRaw \in [Families -> Seq(IcmpMsgs)] /\ qRaw[f] \in Seq(IcmpMsgs) /\ qRaw[f] # <<>> /\ qPc = f
      /\ \A g \in Families : \A k \in 1 .. Len(qRaw[g]) : qRaw[g][k].fam = g
      /\ \A g \in Families : g \in qSet => qRaw[g] # <<>>
  BY DEF IcmpInv, RawRight, Told
<1>1. /\ UNCHANGED <<qFam, qPort, qFd, qOut, qCli, qTold, qNet, qErrors, qQueue, qTbl, qMaxi>>
      /\ qRaw' = [qRaw EXCEPT ![f] = Tail(qRaw[f])] /\ Then(rest, {})
  BY DEF Told, clients
<1>3. /\ Tail(qRaw[f]) \in Seq(IcmpMsgs)
      /\ \A k \in 1 .. Len(Tail(qRaw[f])) : Tail(qRaw[f])[k] = qRaw[f][k + 1] /\ k + 1 \in 1 .. Len(qRaw[f])
  BY <1>0, TailOf
<1>9. /\ qSet' \subseteq qSet /\ f \notin qSet' /\ qConns' \subseteq qConns /\ qPc' # "died"
      /\ qPc' \in {"listen", "v4", "v6"} => qPc' \in qSet'
  BY <1>1, ThenLeaves
<1>10. RawRight'
  <2>1. qRaw' \in [Families -> Seq(IcmpMsgs)]
    BY <1>0, <1>1, <1>3
  <2>2. \A g \in Families : g # f => qRaw'[g] = qRaw[g]
    BY <1>0, <1>1
  <2>3. qRaw'[f] = Tail(qRaw[f])
    BY <1>0, <1>1
  <2>4. \A g \in Families : \A k \in 1 .. Len(qRaw'[g]) : qRaw'[g][k].fam = g
    <3> SUFFICES ASSUME NEW g \in Families, NEW k \in 1 .. Len(qRaw'[g]) PROVE qRaw'[g][k].fam = g
      OBVIOUS
    <3>1. CASE g = f
      <4>1. k \in 1 .. Len(Tail(qRaw[f])) /\ qRaw'[g][k] = Tail(qRaw[f])[k]
        BY <2>3, <3>1
      <4> QED
        BY <1>0, <1>3, <3>1, <4>1
    <3>2. CASE g # f
      BY <1>0, <2>2, <3>2
    <3> QED
      BY <3>1, <3>2
  <2> QED
    BY <1>0, <1>9, <2>1, <2>2, <2>4 DEF RawRight, Families
<1>11. QueueRight'
  BY <1>1, <1>9, QueueSame DEF IcmpInv
<1>12. TblRight'
  BY <1>1, <1>9, TblSame DEF IcmpInv
<1>13. IcmpTypes'
  BY <1>1 DEF IcmpInv, IcmpTypes, Entries, Writings, IcmpMsgs, TblEntries, IcmpFroms, Families
<1>14. ASSUME NEW c \in IcmpClients PROVE ClientRight(c)'
  <2>1. ~DaemonDied
    BY <1>0 DEF DaemonDied, Families
  <2> QED
    BY <1>1, <1>9, <2>1, ClientSame, RegisteredSame DEF IcmpInv
<1> QED
  BY <1>10, <1>11, <1>12, <1>13, <1>14 DEF IcmpInv

\* The daemon dies in one of its functions, and nothing else changes.
LEMMA DeathKeeps ==
    ASSUME IcmpInv, DaemonDies,
           UNCHANGED <<qFam, qPort, qFd, qOut, qCli, qTold, qNet, qRaw, qErrors, qQueue, qTbl, qMaxi>>
    PROVE  IcmpInv'
<1>1. qSet' = {} /\ qConns' = {} /\ qPc' = "died"
  BY DiesLeaves
<1>2. RawRight' /\ QueueRight' /\ TblRight'
  BY <1>1, RawSame, QueueSame, TblSame DEF IcmpInv
<1>3. IcmpTypes'
  BY DEF IcmpInv, IcmpTypes, Entries, Writings, IcmpMsgs, TblEntries, IcmpFroms, Families
<1>4. ASSUME NEW c \in IcmpClients PROVE ClientRight(c)'
  BY <1>1, ClientSame DEF IcmpInv, DaemonDied
<1> QED
  BY <1>2, <1>3, <1>4 DEF IcmpInv

\* The error at hand, and the client it is written to
LEMMA TellWrites ==
    ASSUME IcmpInv, NEW f \in Families, NEW x \in Entries, NextWrite(f, x)
    PROVE  /\ Head(qRaw[f]) \in IcmpMsgs /\ Head(qRaw[f]).fam = f /\ Head(qRaw[f]).kind = "error"
           /\ qRaw[f] # <<>> /\ qRaw[f] \in Seq(IcmpMsgs)
           /\ qTbl[x].c \in IcmpClients /\ qTbl[x].c # 0
           /\ qTbl[x].fam = f /\ qTbl[x].port = Head(qRaw[f]).port /\ qPc = f
<1>0. /\ qRaw[f] \in Seq(IcmpMsgs) /\ qRaw[f] # <<>> /\ qPc = f
      /\ \A k \in 1 .. Len(qRaw[f]) : qRaw[f][k].fam = f
  BY DEF IcmpInv, RawRight, NextWrite
<1>1. Head(qRaw[f]) \in IcmpMsgs /\ Head(qRaw[f]).fam = f
  BY <1>0, TailOf
<1>2. x \in (IF Head(qRaw[f]).kind = "error" THEN Concerned(f, Head(qRaw[f]).port) ELSE {})
  BY DEF NextWrite, Awaiting
<1>3. Head(qRaw[f]).kind = "error" /\ qTbl[x].c # 0 /\ qTbl[x].fam = f /\ qTbl[x].port = Head(qRaw[f]).port
  BY <1>2 DEF Concerned
<1>4. qTbl[x].c \in IcmpClients
  BY <1>3 DEF IcmpInv, IcmpTypes, TblEntries
<1> QED
  BY <1>0, <1>1, <1>3, <1>4

\* An error that is written to a client the daemon has an entry for is an error of its socket.
LEMMA TellKeeps ==
    ASSUME IcmpInv, NEW f \in Families, NEW x \in Entries, Tell(f, x)
    PROVE  IcmpInv'
<1>1. UNCHANGED <<qFam, qPort, qFd, qCli, qTold, qNet, qRaw, qErrors, qQueue, qTbl, qMaxi>> /\ NextWrite(f, x)
  BY DEF Tell, clients
<1>2. PICK m : m = Head(qRaw[f])
  OBVIOUS
<1>3. PICK c : c = qTbl[x].c
  OBVIOUS
<1>4. /\ m \in IcmpMsgs /\ m.fam = f /\ c \in IcmpClients /\ c # 0 /\ qTbl[x].c = c
      /\ qTbl[x].fam = f /\ qTbl[x].port = m.port /\ qPc = f
  BY <1>1, <1>2, <1>3, TellWrites
<1>6. PICK e : e = [m EXCEPT !.kind = "icmpd_err"]
  OBVIOUS
<1>7. e \in Writings /\ e.kind = "icmpd_err" /\ e.fam = f /\ e.port = m.port /\ e # Status("1")
  BY <1>4, <1>6 DEF IcmpMsgs, Writings, Status
<1>8. \/ DaemonDies /\ UNCHANGED qOut
      \/ qOut' = [qOut EXCEPT ![c] = Append(qOut[c], e)] /\ UNCHANGED <<qPc, qSet, qConns>>
  BY <1>2, <1>3, <1>6 DEF Tell
<1>9. CASE DaemonDies /\ UNCHANGED qOut
  BY <1>1, <1>9, DeathKeeps
<1>10. CASE qOut' = [qOut EXCEPT ![c] = Append(qOut[c], e)] /\ UNCHANGED <<qPc, qSet, qConns>>
  <2>0. qOut \in [IcmpClients -> Seq(Writings)]
    BY DEF IcmpInv, IcmpTypes
  <2>1. qOut' \in [IcmpClients -> Seq(Writings)] /\ \A d \in IcmpClients : d # c => qOut'[d] = qOut[d]
    BY <1>4, <1>7, <1>10, <2>0, AppendOf
  <2>2. IcmpTypes'
    BY <1>1, <2>1 DEF IcmpInv, IcmpTypes, Entries, Writings, IcmpMsgs, TblEntries, IcmpFroms, Families
  <2>5. RawRight' /\ QueueRight' /\ TblRight'
    BY <1>1, <1>10 DEF IcmpInv, RawRight, QueueRight, TblRight, Entries, Readable
  <2>4. ~DaemonDied /\ ~DaemonDied'
    BY <1>4, <1>10 DEF DaemonDied, Families
  <2>6. ASSUME NEW d \in IcmpClients, d # c PROVE ClientRight(d)'
    BY <1>1, <2>1, <2>4, <2>6, ClientSame, RegisteredSame DEF IcmpInv
  <2>3. ClientRight(c)'
    <3>1. Registered(c)' <=> Registered(c)
      BY <1>1, <1>4, RegisteredSame
    <3>2. qOut'[c] = Append(qOut[c], e) /\ qOut[c] \in Seq(Writings)
      BY <1>4, <1>10, <2>0
    <3>3. /\ Len(qOut[c]) \in Nat /\ Len(qOut'[c]) = Len(qOut[c]) + 1
          /\ \A k \in 1 .. Len(qOut[c]) : qOut'[c][k] = qOut[c][k]
          /\ qOut'[c][Len(qOut[c]) + 1] = e
          /\ qOut[c] # <<>> => 1 \in 1 .. Len(qOut[c])
          /\ qOut[c] = <<>> => Len(qOut[c]) = 0
      BY <1>7, <3>2, AppendOf
    <3>4. ASSUME Registered(c) PROVE OwnError(c, e)
      <4>1. PICK y \in Entries : qTbl[y] = [c |-> c, fam |-> qFam[c], port |-> qPort[c]]
        BY <3>4 DEF Registered
      <4>2. y = x
        BY <1>4, <4>1 DEF IcmpInv, TblRight
      <4> QED
        BY <1>4, <1>7, <4>1, <4>2 DEF OwnError
    <3>5. ASSUME NEW k \in {1, 2}, IcmpTaken(c, k) PROVE IcmpTaken(c, k)'
      <4>1. Registered(c) /\ OwnError(c, e) /\ c \notin qFd /\ qPort[c] # 0
        BY <2>4, <3>4, <3>5 DEF IcmpTaken
      <4>2. \A l \in k .. Len(qOut[c]) : OwnError(c, qOut[c][l])
        BY <3>5 DEF IcmpTaken
      <4>3. ASSUME NEW l \in k .. Len(qOut'[c]) PROVE OwnError(c, qOut'[c][l])
        <5>1. \/ l \in k .. Len(qOut[c]) /\ l \in 1 .. Len(qOut[c])
              \/ l = Len(qOut[c]) + 1
          BY <3>3
        <5> QED
          BY <3>3, <4>1, <4>2, <5>1
      <4> QED
        BY <1>1, <3>1, <4>1, <4>3 DEF IcmpTaken, OwnError
    <3>6. ASSUME IcmpUntaken(c) PROVE IcmpUntaken(c)'
      BY <1>1, <1>7, <3>3, <3>6, SMTT(30) DEF IcmpUntaken, Status
    <3>7. qOut'[c] # <<>> /\ qOut'[c][1] = Status("1") => qOut[c] # <<>> /\ qOut[c][1] = Status("1")
      BY <1>7, <3>3
    <3>10. ClientRight(c)
      BY <1>4 DEF IcmpInv
    <3>8. /\ qCli'[c] \in {"start", "pass"} => c \notin qFd'
          /\ qCli'[c] \in {"start", "pass"} \/ c \in qFd' => IcmpUntaken(c)'
          /\ qCli'[c] = "status" => qTold'[c] = {}
          /\ \A g \in qTold'[c] : OwnError(c, g)'
      BY <1>1, <3>6, <3>10 DEF ClientRight, OwnError
    <3>9. /\ qCli'[c] = "status" /\ qOut'[c] # <<>> /\ qOut'[c][1] = Status("1") => IcmpTaken(c, 2)'
          /\ qCli'[c] \in {"loop", "wait"} => IcmpTaken(c, 1)'
      BY <1>1, <3>5, <3>7, <3>10 DEF ClientRight
    <3> QED
      BY <3>8, <3>9 DEF ClientRight, Status
  <2> QED
    BY <2>2, <2>3, <2>5, <2>6 DEF IcmpInv
<1> QED
  BY <1>8, <1>9, <1>10

LEMMA ForwardKeeps ==
    ASSUME IcmpInv, NEW f \in Families, NEW rest, f \notin rest, Forward(f, rest)
    PROVE  IcmpInv'
<1>1. CASE TooShort(f)
  BY <1>1, DeathKeeps DEF TooShort, clients
<1> QED
  BY <1>1, ToldKeeps, TellKeeps DEF Forward

\* The entry of a client is written, or given up, after its connection has been read.
LEMMA EntryChanges ==
    ASSUME IcmpInv, NEW x \in Entries, qTbl[x].c # 0, NEW r \in TblEntries, r.c \in {0, qTbl[x].c},
           qTbl' = [qTbl EXCEPT ![x] = r], qFd' = qFd \ {qTbl[x].c}, qConns' \subseteq qConns, x \notin qConns',
           UNCHANGED <<qMaxi, qQueue, qCli, qFam>>
    PROVE  /\ TblRight' /\ Entries' = Entries /\ qTbl' \in [Entries -> TblEntries] /\ qTbl'[x] = r
           /\ \A d \in IcmpClients : d # qTbl[x].c /\ qPort'[d] = qPort[d] /\ Registered(d) => Registered(d)'
<1>0. qTbl \in [Entries -> TblEntries]
  BY DEF IcmpInv, IcmpTypes
<1>1. Entries' = Entries /\ qTbl' \in [Entries -> TblEntries]
  BY <1>0 DEF Entries
<1>2. qTbl'[x] = r /\ \A y \in Entries : y # x => qTbl'[y] = qTbl[y]
  BY <1>0
<1>3. \A y, z \in Entries : qTbl[y].c = qTbl[z].c /\ qTbl[y].c # 0 => y = z
  BY DEF IcmpInv, TblRight
<1>4. TblRight'
  <2>1. \A y \in Entries : qTbl'[y].c # 0 => qTbl'[y].c = qTbl[y].c
    BY <1>2
  <2>2. \A y \in Entries : qTbl'[y].c # 0 => y < qMaxi /\ qCli[qTbl'[y].c] # "start"
    BY <2>1 DEF IcmpInv, TblRight
  <2>3. \A y, z \in Entries : qTbl'[y].c = qTbl'[z].c /\ qTbl'[y].c # 0 => y = z
    BY <1>3, <2>1
  <2>4. \A y \in Entries, k \in 1 .. Len(qQueue) : qTbl'[y].c # qQueue[k]
    <3>1. \A k \in 1 .. Len(qQueue) : qQueue[k] # 0
      BY IcmpAssumption DEF IcmpInv, QueueRight
    <3> QED
      BY <2>1, <3>1 DEF IcmpInv, TblRight
  <2>5. \A y \in qConns : y \in Entries /\ Readable(y)
    BY DEF IcmpInv, TblRight
  <2>6. \A y \in qConns' : y \in Entries /\ Readable(y)'
    BY <1>2, <1>3, <2>5 DEF Readable
  <2> QED
    BY <1>1, <2>2, <2>3, <2>4, <2>6 DEF TblRight
<1>5. ASSUME NEW d \in IcmpClients, d # qTbl[x].c, qPort'[d] = qPort[d], Registered(d) PROVE Registered(d)'
  <2>1. PICK y \in Entries : y < qMaxi /\ qTbl[y] = [c |-> d, fam |-> qFam[d], port |-> qPort[d]]
    BY <1>5 DEF Registered
  <2>2. y # x
    BY <1>5, <2>1
  <2> QED
    BY <1>1, <1>2, <1>5, <2>1, <2>2 DEF Registered
<1> QED
  BY <1>1, <1>2, <1>4, <1>5

\* Read_fd(): the end of file, or a socket that is taken, or one that is not
LEMMA ConnKeeps == ASSUME IcmpInv, NEW x \in Entries, readable_conn(x) PROVE IcmpInv'
<1>0. /\ qTbl \in [Entries -> TblEntries] /\ qTbl[x] \in TblEntries /\ qOut \in [IcmpClients -> Seq(Writings)]
      /\ qPort \in [IcmpClients -> IcmpPorts \cup {0}] /\ qFam \in [IcmpClients -> Families]
      /\ qCli \in [IcmpClients -> {"start", "pass", "status", "loop", "wait", "gone"}]
  BY DEF IcmpInv, IcmpTypes
<1>1. x \in qConns /\ qPc = "conn" /\ x < qMaxi
  BY DEF readable_conn
<1>2. PICK c : c = qTbl[x].c
  OBVIOUS
<1>3. c # 0 /\ (c \in qFd \/ qCli[c] = "gone")
  BY <1>1, <1>2 DEF IcmpInv, TblRight, Readable
<1>4. c \in IcmpClients /\ ClientRight(c)
  BY <1>0, <1>2, <1>3 DEF TblEntries, IcmpInv
<1>5. UNCHANGED <<qFam, qCli, qTold, qNet, qRaw, qErrors, qQueue, qMaxi>> /\ qFd' = qFd \ {c}
  BY <1>2 DEF readable_conn, clients
<1>6. \/ c \notin qFd /\ clientdone(x) /\ Then({}, {x}) /\ UNCHANGED <<qPort, qOut>>
      \/ c \notin qFd /\ DaemonDies /\ UNCHANGED <<qPort, qOut, qTbl>>
      \/ /\ c \in qFd
         /\ \E p \in IF qPort[c] # 0 THEN {qPort[c]} ELSE Free(qFam[c]) :
               /\ qPort' = [qPort EXCEPT ![c] = p]
               /\ qTbl' = [qTbl EXCEPT ![x] = [c |-> c, fam |-> qFam[c], port |-> p]]
         /\ \/ qCli[c] = "gone" /\ DaemonDies /\ UNCHANGED qOut
            \/ qCli[c] # "gone" /\ qOut' = [qOut EXCEPT ![c] = Append(@, Status("1"))] /\ Then({}, {x})
      \/ /\ c \in qFd /\ qPort' = qPort
         /\ \E g \in Families, p \in IcmpPorts \cup {0, -1}, d \in {0, c} :
               qTbl' = [qTbl EXCEPT ![x] = [c |-> d, fam |-> g, port |-> p]]
         /\ \/ qCli[c] = "gone" /\ DaemonDies /\ UNCHANGED qOut
            \/ qCli[c] # "gone" /\ qOut' = [qOut EXCEPT ![c] = Append(@, Status("0"))] /\ Then({}, {x})
  <2>1. qTbl[x].fam \in Families /\ qTbl[x].port \in IcmpPorts \cup {0, -1} /\ qFam[c] \in Families
    BY <1>0, <1>4 DEF TblEntries
  <2>2. ASSUME NEW g \in Families, NEW p \in IcmpPorts \cup {0, -1},
               qTbl' = [qTbl EXCEPT ![x] = [c |-> IF qCli[c] = "gone" THEN c ELSE 0, fam |-> g, port |-> p]]
        PROVE  \E h \in Families, q \in IcmpPorts \cup {0, -1}, d \in {0, c} :
                  qTbl' = [qTbl EXCEPT ![x] = [c |-> d, fam |-> h, port |-> q]]
    BY <2>2
  <2>3. CASE c \notin qFd
    BY <1>2, <2>3 DEF readable_conn
  <2>4. CASE c \in qFd
    BY <1>2, <2>1, <2>2, <2>4 DEF readable_conn
  <2> QED
    BY <2>3, <2>4
<1>7. /\ qSet' \subseteq qSet /\ qConns' \subseteq qConns /\ x \notin qConns'
      /\ qPc' \in {"listen", "v4", "v6"} => qPc' \in qSet'
  BY <1>6, ThenLeaves, DiesLeaves
<1>8. RawRight' /\ QueueRight'
  BY <1>5, <1>7, RawSame, QueueSame DEF IcmpInv
\* c is the only client whose state changes.
<1>9. ASSUME NEW r \in TblEntries, r.c \in {0, c}, qTbl' = [qTbl EXCEPT ![x] = r],
             qPort' \in [IcmpClients -> IcmpPorts \cup {0}], qOut' \in [IcmpClients -> Seq(Writings)],
             \A d \in IcmpClients : d # c => qPort'[d] = qPort[d] /\ qOut'[d] = qOut[d],
             (TblRight' /\ Entries' = Entries /\ qTbl'[x] = r) => ClientRight(c)'
      PROVE  IcmpInv'
  <2>1. /\ TblRight' /\ Entries' = Entries /\ qTbl' \in [Entries -> TblEntries] /\ qTbl'[x] = r
        /\ \A d \in IcmpClients : d # c /\ qPort'[d] = qPort[d] /\ Registered(d) => Registered(d)'
    BY <1>2, <1>3, <1>5, <1>7, <1>9, EntryChanges
  <2>2. IcmpTypes'
    BY <1>5, <1>9, <2>1 DEF IcmpInv, IcmpTypes
  <2>3. ASSUME NEW d \in IcmpClients, d # c PROVE ClientRight(d)'
    BY <1>1, <1>5, <1>9, <2>1, <2>3, ClientSame DEF IcmpInv, DaemonDied
  <2> QED
    BY <1>8, <1>9, <2>1, <2>2, <2>3 DEF IcmpInv
<1>10. PICK r0 : r0 = [qTbl[x] EXCEPT !.c = 0]
  OBVIOUS
<1>11. r0 \in TblEntries /\ r0.c = 0 /\ (clientdone(x) => qTbl' = [qTbl EXCEPT ![x] = r0])
  BY <1>0, <1>10 DEF TblEntries, clientdone
<1>12. CASE c \notin qFd
  <2>1. UNCHANGED <<qPort, qOut>> /\ qCli[c] = "gone"
    BY <1>3, <1>6, <1>12
  <2>2. ClientRight(c)'
    BY <1>4, <1>5, <2>1 DEF ClientRight, OwnError
  <2>3. qTbl' = [qTbl EXCEPT ![x] = r0] \/ (qTbl' = [qTbl EXCEPT ![x] = qTbl[x]] /\ qTbl[x].c = c)
    BY <1>0, <1>2, <1>6, <1>11, <1>12
  <2> QED
    BY <1>0, <1>9, <1>11, <2>1, <2>2, <2>3
<1>13. ASSUME c \in qFd PROVE qTold[c] = {} /\ IcmpUntaken(c) /\ qCli[c] \in {"status", "gone"}
  BY <1>0, <1>4, <1>13 DEF ClientRight, IcmpUntaken, IcmpTaken
\* The byte of status is what an empty socket begins with, or stands behind errors.
<1>14. ASSUME NEW s, s \in Writings, c \in qFd, qOut' = [qOut EXCEPT ![c] = Append(@, s)]
       PROVE  /\ qOut' \in [IcmpClients -> Seq(Writings)] /\ \A d \in IcmpClients : d # c => qOut'[d] = qOut[d]
              /\ \/ qOut'[c][1] = s /\ Len(qOut'[c]) = 1
                 \/ qOut'[c][1] # Status("1")
  <2>1. qOut[c] \in Seq(Writings) /\ qOut'[c] = Append(qOut[c], s)
    BY <1>0, <1>4, <1>14
  <2>2. CASE qOut[c] = <<>>
    <3>1. Len(qOut[c]) = 0
      BY <2>2
    <3>2. qOut'[c][1] = s /\ Len(qOut'[c]) = 1
      BY <1>14, <2>1, <3>1, AppendOf
    <3> QED
      BY <1>0, <1>4, <1>14, <2>1, <3>2, AppendOf
  <2>3. CASE qOut[c] # <<>>
    <3>1. 1 \in 1 .. Len(qOut[c])
      BY <2>1, <2>3
    <3>2. qOut'[c][1] = qOut[c][1]
      BY <1>14, <2>1, <3>1, AppendOf
    <3>3. qOut[c][1] # Status("1")
      BY <1>13, <1>14, <3>1 DEF IcmpUntaken
    <3> QED
      BY <1>0, <1>4, <1>14, <2>1, <3>2, <3>3, AppendOf
  <2> QED
    BY <2>2, <2>3
<1>15. Status("1") \in Writings /\ Status("0") \in Writings /\ Status("0") # Status("1")
  BY DEF Status, Writings, IcmpFroms, Families
<1>16. ASSUME c \in qFd, NEW p \in IcmpPorts, qPort' = [qPort EXCEPT ![c] = p],
              qTbl' = [qTbl EXCEPT ![x] = [c |-> c, fam |-> qFam[c], port |-> p]],
              \/ qCli[c] = "gone" /\ DaemonDies /\ UNCHANGED qOut
              \/ qCli[c] # "gone" /\ qOut' = [qOut EXCEPT ![c] = Append(@, Status("1"))] /\ Then({}, {x})
       PROVE  IcmpInv'
  <2>1. PICK r : r = [c |-> c, fam |-> qFam[c], port |-> p]
    OBVIOUS
  <2>2. r \in TblEntries /\ r.c = c /\ p # 0
    BY <1>0, <1>4, <2>1, IcmpAssumption DEF TblEntries
  <2>3. qTbl' = [qTbl EXCEPT ![x] = r]
    BY <1>16, <2>1
  <2>4. /\ qPort' \in [IcmpClients -> IcmpPorts \cup {0}] /\ qPort'[c] = p
        /\ \A d \in IcmpClients : d # c => qPort'[d] = qPort[d]
    BY <1>0, <1>4, <1>16
  <2>5. CASE qCli[c] = "gone" /\ UNCHANGED qOut
    <3>1. ClientRight(c)'
      BY <1>5, <1>13, <1>16, <2>5 DEF ClientRight
    <3> QED
      BY <1>0, <1>9, <2>2, <2>3, <2>4, <2>5, <3>1
  <2>6. CASE qCli[c] # "gone" /\ qOut' = [qOut EXCEPT ![c] = Append(@, Status("1"))]
    <3>1. ASSUME Entries' = Entries, qTbl'[x] = r PROVE ClientRight(c)'
      <4>1. Registered(c)'
        BY <1>1, <1>5, <2>1, <2>4, <3>1 DEF Registered
      <4>2. Len(qOut'[c]) = 1 => IcmpTaken(c, 2)'
        BY <1>5, <2>2, <2>4, <4>1 DEF IcmpTaken
      <4>3. qOut'[c][1] = Status("1") => Len(qOut'[c]) = 1
        BY <1>14, <1>15, <1>16, <2>6
      <4> QED
        BY <1>5, <1>13, <1>16, <2>6, <4>2, <4>3 DEF ClientRight, Status
    <3> QED
      BY <1>9, <1>14, <1>15, <1>16, <2>2, <2>3, <2>4, <2>6, <3>1
  <2> QED
    BY <1>16, <2>5, <2>6
<1>17. ASSUME c \in qFd, qPort' = qPort, NEW r \in TblEntries, r.c \in {0, c}, qTbl' = [qTbl EXCEPT ![x] = r],
              \/ qCli[c] = "gone" /\ UNCHANGED qOut
              \/ qCli[c] # "gone" /\ qOut' = [qOut EXCEPT ![c] = Append(@, Status("0"))]
       PROVE  IcmpInv'
  <2>1. CASE qCli[c] = "gone" /\ UNCHANGED qOut
    <3>1. ClientRight(c)'
      BY <1>5, <1>13, <1>17, <2>1 DEF ClientRight
    <3> QED
      BY <1>0, <1>9, <1>17, <2>1, <3>1
  <2>2. CASE qCli[c] # "gone" /\ qOut' = [qOut EXCEPT ![c] = Append(@, Status("0"))]
    <3>1. qOut'[c][1] # Status("1")
      BY <1>14, <1>15, <1>17, <2>2
    <3>2. ClientRight(c)'
      BY <1>5, <1>13, <1>17, <2>2, <3>1 DEF ClientRight, Status
    <3> QED
      BY <1>0, <1>9, <1>14, <1>15, <1>17, <2>2, <3>2
  <2> QED
    BY <1>17, <2>1, <2>2
<1>18. \A g \in Families, p \in IcmpPorts \cup {0, -1}, d \in {0, c} :
          [c |-> d, fam |-> g, port |-> p] \in TblEntries /\ [c |-> d, fam |-> g, port |-> p].c \in {0, c}
  BY <1>4 DEF TblEntries
<1>19. \A p \in IF qPort[c] # 0 THEN {qPort[c]} ELSE Free(qFam[c]) : p \in IcmpPorts
  BY <1>0, <1>4 DEF Free
<1>20. ASSUME c \in qFd, qPort' = qPort,
              NEW g \in Families, NEW p \in IcmpPorts \cup {0, -1}, NEW d \in {0, c},
              qTbl' = [qTbl EXCEPT ![x] = [c |-> d, fam |-> g, port |-> p]],
              \/ qCli[c] = "gone" /\ UNCHANGED qOut
              \/ qCli[c] # "gone" /\ qOut' = [qOut EXCEPT ![c] = Append(@, Status("0"))]
       PROVE  IcmpInv'
  BY <1>17, <1>18, <1>20
<1>21. CASE c \in qFd
  <2>1. \/ \E p \in IF qPort[c] # 0 THEN {qPort[c]} ELSE Free(qFam[c]) :
              /\ qPort' = [qPort EXCEPT ![c] = p]
              /\ qTbl' = [qTbl EXCEPT ![x] = [c |-> c, fam |-> qFam[c], port |-> p]]
              /\ \/ qCli[c] = "gone" /\ DaemonDies /\ UNCHANGED qOut
                 \/ qCli[c] # "gone" /\ qOut' = [qOut EXCEPT ![c] = Append(@, Status("1"))] /\ Then({}, {x})
        \/ /\ qPort' = qPort
           /\ \E g \in Families, p \in IcmpPorts \cup {0, -1}, d \in {0, c} :
                 qTbl' = [qTbl EXCEPT ![x] = [c |-> d, fam |-> g, port |-> p]]
           /\ \/ qCli[c] = "gone" /\ UNCHANGED qOut
              \/ qCli[c] # "gone" /\ qOut' = [qOut EXCEPT ![c] = Append(@, Status("0"))]
    BY <1>6, <1>21
  <2> QED
    BY <1>16, <1>19, <1>20, <1>21, <2>1
<1> QED
  BY <1>12, <1>21

LEMMA IcmpInvNext == IcmpInv /\ [IcmpNext]_icmpVars => IcmpInv'
<1> SUFFICES ASSUME IcmpInv, [IcmpNext]_icmpVars PROVE IcmpInv'
  OBVIOUS
<1>1. CASE readable_v4 \/ readable_v6
  BY <1>1, ForwardKeeps DEF readable_v4, readable_v6, Families
<1>2. CASE \E c \in IcmpClients : IcmpClient(c) \/ Connect(c) \/ Sendto(c) \/ ClientEnds(c)
  BY <1>2, Write_fdKeeps, ReadStatusKeeps, AwaitEndsKeeps, ConnectKeeps, SendtoKeeps,
     ClientEndsKeeps DEF IcmpClient
<1>3. CASE DaemonSelect \/ readable_listen \/ LoopEnds \/ (\E x \in Entries : readable_conn(x)) \/ UNCHANGED icmpVars
  BY <1>3, SelectKeeps, ListenKeeps, LoopEndsKeeps, ConnKeeps
<1>4. CASE (\E m \in qNet : IcmpArrives(m)) \/ (\E f \in Families, kind \in {"other", "short"} : OtherIcmp(f, kind))
  BY <1>4, ArrivalsKeep
<1> QED
  BY <1>1, <1>2, <1>3, <1>4 DEF IcmpNext, IcmpDaemon

-----------------------------------------------------------------------------
(* Who sent the datagram                                                    *)

\* The client m.from has, for ever, the family and port that the error m gives.
SentFrom(m, fam, port) ==
    m.from \in IcmpClients /\ m.port # 0 /\ fam[m.from] = m.fam /\ port[m.from] = m.port
Signed(s, kind, fam, port) == \A k \in 1 .. Len(s) : s[k].kind = kind => SentFrom(s[k], fam, port)

SentRight ==
    /\ \A m \in qNet : SentFrom(m, qFam, qPort)
    /\ \A f \in Families : Signed(qRaw[f], "error", qFam, qPort)
    /\ \A c \in IcmpClients : Signed(qOut[c], "icmpd_err", qFam, qPort)

\* A port has one user at a time.
PortsApart ==
    /\ \A c \in IcmpClients : qCli[c] = "start" => qPort[c] = 0
    /\ \A c, d \in IcmpClients :
          c # d /\ qFam[c] = qFam[d] /\ qPort[c] = qPort[d] /\ qPort[c] # 0 => qCli[c] = "gone" \/ qCli[d] = "gone"

ToldRight ==
    \A c \in IcmpClients : \A e \in qTold[c] : e.from \in IcmpClients /\ (e.from = c \/ qCli[e.from] = "gone")

SenderInv == SentRight /\ PortsApart /\ ToldRight

LEMMA SignedTail ==
    ASSUME NEW S, NEW s \in Seq(S), s # <<>>, NEW kind, NEW fam, NEW port, Signed(s, kind, fam, port)
    PROVE  Signed(Tail(s), kind, fam, port) /\ (Head(s).kind = kind => SentFrom(Head(s), fam, port))
<1>1. 1 \in 1 .. Len(s) /\ Head(s) = s[1]
  BY TailOf
<1>2. \A k \in 1 .. Len(Tail(s)) : Tail(s)[k] = s[k + 1] /\ k + 1 \in 1 .. Len(s)
  BY TailOf
<1> QED
  BY <1>1, <1>2 DEF Signed

LEMMA SignedAppend ==
    ASSUME NEW S, NEW s \in Seq(S), NEW e \in S, NEW kind, NEW fam, NEW port, Signed(s, kind, fam, port),
           e.kind = kind => SentFrom(e, fam, port)
    PROVE  Signed(Append(s, e), kind, fam, port)
<1>1. /\ Len(Append(s, e)) = Len(s) + 1 /\ Append(s, e)[Len(s) + 1] = e
      /\ \A k \in 1 .. Len(s) : Append(s, e)[k] = s[k]
      /\ \A k \in 1 .. Len(s) + 1 : k \in 1 .. Len(s) \/ k = Len(s) + 1
  BY AppendOf
<1> QED
  BY <1>1 DEF Signed

\* Ports are given once, so that what was said of the sender of an error stays true.
PortsStay == qFam' = qFam /\ \A c \in IcmpClients : qPort[c] # 0 => qPort'[c] = qPort[c]

LEMMA SentStays ==
    ASSUME NEW s, NEW kind, NEW m, NEW fam, NEW port, NEW port2, \A c \in IcmpClients : port[c] # 0 => port2[c] = port[c]
    PROVE  /\ SentFrom(m, fam, port) => SentFrom(m, fam, port2)
           /\ Signed(s, kind, fam, port) => Signed(s, kind, fam, port2)
  BY DEF SentFrom, Signed

LEMMA SentSame ==
    ASSUME PortsStay, \A m \in qNet' : SentFrom(m, qFam, qPort),
           \A f \in Families : Signed(qRaw'[f], "error", qFam, qPort),
           \A c \in IcmpClients : Signed(qOut'[c], "icmpd_err", qFam, qPort)
    PROVE  SentRight'
<1>1. PICK p, p2, fam : p = qPort /\ p2 = qPort' /\ fam = qFam
  OBVIOUS
<1>2. qFam' = fam /\ \A c \in IcmpClients : p[c] # 0 => p2[c] = p[c]
  BY <1>1 DEF PortsStay
<1>3. \A m : SentFrom(m, fam, p) => SentFrom(m, fam, p2)
  BY <1>2, SentStays
<1>4. \A s, kind : Signed(s, kind, fam, p) => Signed(s, kind, fam, p2)
  BY <1>3 DEF Signed
<1>5. \A m \in qNet' : SentFrom(m, fam, p2)
  BY <1>1, <1>3
<1>6. \A f \in Families : Signed(qRaw'[f], "error", fam, p2)
  BY <1>1, <1>4
<1>7. \A c \in IcmpClients : Signed(qOut'[c], "icmpd_err", fam, p2)
  BY <1>1, <1>4
<1> QED
  BY <1>1, <1>2, <1>5, <1>6, <1>7 DEF SentRight

LEMMA PortsSame ==
    ASSUME SenderInv, UNCHANGED <<qFam, qPort>>,
           \A c \in IcmpClients : (qCli'[c] = "start" => qCli[c] = "start") /\ (qCli[c] = "gone" => qCli'[c] = "gone")
    PROVE  PortsApart' /\ PortsStay /\ (UNCHANGED qTold => ToldRight')
  BY DEF SenderInv, PortsApart, PortsStay, ToldRight

\* A socket gets a port that no other client has.
LEMMA PortGiven ==
    ASSUME IcmpInv, SenderInv, NEW d \in IcmpClients, NEW p \in IcmpPorts \cup {0}, p \in {0, qPort[d]} \cup Free(qFam[d]),
           qPort[d] = 0 \/ p = qPort[d], qPort' = [qPort EXCEPT ![d] = p], qFam' = qFam,
           \A c \in IcmpClients : (qCli'[c] = "start" => qCli[c] = "start" /\ c # d) /\ (qCli[c] = "gone" => qCli'[c] = "gone")
    PROVE  PortsApart' /\ PortsStay /\ (UNCHANGED qTold => ToldRight')
<1>0. qPort \in [IcmpClients -> IcmpPorts \cup {0}]
  BY DEF IcmpInv, IcmpTypes
<1>1. qPort'[d] = p /\ \A c \in IcmpClients : c # d => qPort'[c] = qPort[c]
  BY <1>0
<1>2. PortsStay
  BY <1>1 DEF PortsStay
<1>3. \A c \in IcmpClients : qCli'[c] = "start" => qPort'[c] = 0
  BY <1>1 DEF SenderInv, PortsApart
<1>4. ASSUME NEW c \in IcmpClients, c # d, qFam[c] = qFam[d], qPort[c] = p, p # 0 PROVE qCli[c] = "gone" \/ qCli[d] = "gone"
  BY <1>4 DEF Free, SenderInv, PortsApart
<1>5. ASSUME NEW c \in IcmpClients, NEW e \in IcmpClients, c # e, qFam'[c] = qFam'[e], qPort'[c] = qPort'[e], qPort'[c] # 0
      PROVE  qCli[c] = "gone" \/ qCli[e] = "gone"
  BY <1>1, <1>4, <1>5 DEF SenderInv, PortsApart
<1>6. PortsApart'
  BY <1>3, <1>5 DEF PortsApart
<1>7. UNCHANGED qTold => ToldRight'
  BY DEF SenderInv, ToldRight
<1> QED
  BY <1>2, <1>6, <1>7

\* Steps that write and read no message
LEMMA SenderQuiet ==
    ASSUME SenderInv, UNCHANGED <<qFam, qPort, qOut, qTold, qNet, qRaw>>,
           \A c \in IcmpClients : (qCli'[c] = "start" => qCli[c] = "start") /\ (qCli[c] = "gone" => qCli'[c] = "gone")
    PROVE  SenderInv'
<1>1. SentRight'
  BY PortsSame, SentSame DEF SenderInv, SentRight
<1> QED
  BY <1>1, PortsSame DEF SenderInv

\* Connect() and the clients' steps
LEMMA SenderClient ==
    ASSUME IcmpInv, SenderInv, NEW d \in IcmpClients, IcmpClient(d) \/ Connect(d) \/ Sendto(d) \/ ClientEnds(d)
    PROVE  SenderInv'
<1>0. /\ qCli \in [IcmpClients -> {"start", "pass", "status", "loop", "wait", "gone"}]
      /\ qOut \in [IcmpClients -> Seq(Writings)] /\ qTold \in [IcmpClients -> SUBSET Writings]
      /\ qPort[d] \in IcmpPorts \cup {0} /\ qOut[d] \in Seq(Writings)
  BY DEF IcmpInv, IcmpTypes
<1>a. /\ \A m \in qNet : SentFrom(m, qFam, qPort)
      /\ \A f \in Families : Signed(qRaw[f], "error", qFam, qPort)
      /\ \A c \in IcmpClients : Signed(qOut[c], "icmpd_err", qFam, qPort)
  BY DEF SenderInv, SentRight
<1>1. CASE Connect(d)
  <2>1. PICK p \in IcmpPorts \cup {0} : p \in Free(qFam[d]) \cup {0} /\ qPort' = [qPort EXCEPT ![d] = p]
    BY <1>1 DEF Connect, Free
  <2>2. /\ qCli[d] = "start" /\ qCli' = [qCli EXCEPT ![d] = "pass"]
        /\ UNCHANGED <<qFam, qOut, qTold, qNet, qRaw>>
    BY <1>1 DEF Connect
  <2>3. \A c \in IcmpClients : (qCli'[c] = "start" => qCli[c] = "start" /\ c # d) /\ (qCli[c] = "gone" => qCli'[c] = "gone")
    BY <1>0, <2>2
  <2>4. qPort[d] = 0
    BY <2>2 DEF SenderInv, PortsApart
  <2>5. PortsApart' /\ PortsStay /\ ToldRight'
    BY <2>1, <2>2, <2>3, <2>4, PortGiven
  <2>6. SentRight'
    BY <1>a, <2>2, <2>5, SentSame
  <2> QED
    BY <2>5, <2>6 DEF SenderInv
<1>2. CASE Write_fd(d)
  <2>1. UNCHANGED <<qFam, qPort, qOut, qTold, qNet, qRaw>> /\ qCli[d] = "pass" /\ qCli' = [qCli EXCEPT ![d] = "status"]
    BY <1>2 DEF Write_fd
  <2> QED
    BY <1>0, <2>1, SenderQuiet
<1>3. CASE ReadStatus(d) \/ ClientEnds(d)
  <2>1. /\ UNCHANGED <<qFam, qPort, qTold, qNet, qRaw>>
        /\ \E o \in Seq(Writings) : qOut' = [qOut EXCEPT ![d] = o] /\ Signed(o, "icmpd_err", qFam, qPort)
        /\ \E pc \in {"loop", "gone"} : qCli' = [qCli EXCEPT ![d] = pc] /\ (qCli[d] = "gone" => pc = "gone")
    <3>1. CASE ReadStatus(d)
      <4>1. qOut[d] # <<>> /\ qOut' = [qOut EXCEPT ![d] = Tail(qOut[d])] /\ qCli[d] = "status"
            /\ UNCHANGED <<qFam, qPort, qTold, qNet, qRaw>>
        BY <3>1 DEF ReadStatus
      <4>2. Tail(qOut[d]) \in Seq(Writings) /\ Signed(Tail(qOut[d]), "icmpd_err", qFam, qPort)
        BY <1>0, <1>a, <4>1, SignedTail, TailOf
      <4>3. \E pc \in {"loop", "gone"} : qCli' = [qCli EXCEPT ![d] = pc]
        BY <3>1 DEF ReadStatus
      <4> QED
        BY <4>1, <4>2, <4>3
    <3>2. CASE ClientEnds(d)
      <4>1. UNCHANGED <<qFam, qPort, qTold, qNet, qRaw>> /\ qOut' = [qOut EXCEPT ![d] = <<>>]
            /\ qCli' = [qCli EXCEPT ![d] = "gone"]
        BY <3>2 DEF ClientEnds
      <4>2. <<>> \in Seq(Writings) /\ Signed(<<>>, "icmpd_err", qFam, qPort)
        BY DEF Signed
      <4> QED
        BY <4>1, <4>2
    <3> QED
      BY <1>3, <3>1, <3>2
  <2>2. PICK o \in Seq(Writings) : qOut' = [qOut EXCEPT ![d] = o] /\ Signed(o, "icmpd_err", qFam, qPort)
    BY <2>1
  <2>3. \A c \in IcmpClients : (qCli'[c] = "start" => qCli[c] = "start") /\ (qCli[c] = "gone" => qCli'[c] = "gone")
    BY <1>0, <2>1
  <2>4. \A c \in IcmpClients : Signed(qOut'[c], "icmpd_err", qFam, qPort)
    BY <1>0, <1>a, <2>2
  <2>5. PortsApart' /\ PortsStay /\ ToldRight'
    BY <2>1, <2>3, PortsSame
  <2>6. SentRight'
    BY <1>a, <2>1, <2>4, <2>5, SentSame
  <2> QED
    BY <2>5, <2>6 DEF SenderInv
<1>4. CASE Sendto(d)
  <2>1. UNCHANGED <<qFam, qPort, qOut, qTold, qRaw>> /\ qCli[d] = "loop" /\ qCli' = [qCli EXCEPT ![d] = "wait"]
    BY <1>4 DEF Sendto
  <2>2. qPort[d] # 0
    BY <2>1 DEF IcmpInv, ClientRight, IcmpTaken
  <2>3. ASSUME NEW m \in qNet', m \notin qNet PROVE SentFrom(m, qFam, qPort)
    <3>1. m = [n |-> qErrors, from |-> d, fam |-> qFam[d], kind |-> "error", port |-> qPort[d]]
      BY <1>4, <2>3 DEF Sendto
    <3> QED
      BY <2>2, <3>1 DEF SentFrom
  <2>4. PortsApart' /\ PortsStay /\ ToldRight'
    BY <1>0, <2>1, PortsSame
  <2>5. SentRight'
    BY <1>a, <2>1, <2>3, <2>4, SentSame
  <2> QED
    BY <2>4, <2>5 DEF SenderInv
<1>5. CASE AwaitEnds(d)
  <2>1. UNCHANGED <<qFam, qPort, qNet, qRaw>> /\ qCli[d] = "wait" /\ qCli' = [qCli EXCEPT ![d] = "loop"]
    BY <1>5 DEF AwaitEnds
  <2>2. \A c \in IcmpClients : (qCli'[c] = "start" => qCli[c] = "start") /\ (qCli[c] = "gone" <=> qCli'[c] = "gone")
    BY <1>0, <2>1
  <2>3. PortsApart' /\ PortsStay /\ (UNCHANGED qTold => ToldRight')
    BY <2>1, <2>2, PortsSame
  <2>4. CASE qOut[d] = <<>>
    <3>1. UNCHANGED <<qOut, qTold>>
      BY <1>5, <2>4 DEF AwaitEnds
    <3> QED
      BY <1>a, <2>1, <2>3, <3>1, SentSame DEF SenderInv
  <2>5. CASE qOut[d] # <<>>
    <3>1. qOut' = [qOut EXCEPT ![d] = Tail(qOut[d])] /\ qTold' = [qTold EXCEPT ![d] = qTold[d] \cup {Head(qOut[d])}]
      BY <1>5, <2>5 DEF AwaitEnds
    <3>2. /\ Signed(Tail(qOut[d]), "icmpd_err", qFam, qPort) /\ Head(qOut[d]) = qOut[d][1] /\ 1 \in 1 .. Len(qOut[d])
          /\ Head(qOut[d]).kind = "icmpd_err" => SentFrom(Head(qOut[d]), qFam, qPort)
      BY <1>0, <1>a, <2>5, SignedTail, TailOf
    <3>3. OwnError(d, Head(qOut[d])) /\ qPort[d] # 0
      BY <2>1, <3>2 DEF IcmpInv, ClientRight, IcmpTaken
    <3>4. PICK g : g = Head(qOut[d]).from
      OBVIOUS
    <3>5. g \in IcmpClients /\ qFam[g] = qFam[d] /\ qPort[g] = qPort[d]
      BY <3>2, <3>3, <3>4 DEF OwnError, SentFrom
    <3>6. g = d \/ qCli[g] = "gone"
      BY <2>1, <3>3, <3>5 DEF SenderInv, PortsApart
    <3>7. ToldRight'
      <4>1. ASSUME NEW c \in IcmpClients, NEW e \in qTold'[c]
            PROVE  e.from \in IcmpClients /\ (e.from = c \/ qCli[e.from] = "gone")
        <5>1. e \in qTold[c] \/ (c = d /\ e = Head(qOut[d]))
          BY <1>0, <3>1, <4>1
        <5> QED
          BY <3>4, <3>5, <3>6, <5>1 DEF SenderInv, ToldRight
      <4> QED
        BY <2>2, <4>1 DEF ToldRight
    <3>8. \A c \in IcmpClients : Signed(qOut'[c], "icmpd_err", qFam, qPort)
      BY <1>0, <1>a, <3>1, <3>2
    <3>9. SentRight'
      BY <1>a, <2>1, <2>3, <3>8, SentSame
    <3> QED
      BY <2>3, <3>7, <3>9 DEF SenderInv
  <2> QED
    BY <2>4, <2>5
<1> QED
  BY <1>1, <1>2, <1>3, <1>4, <1>5 DEF IcmpClient

\* Messages that arrive, and the two functions that pass them on
LEMMA SenderRaw ==
    ASSUME IcmpInv, SenderInv,
           \/ \E m \in qNet : IcmpArrives(m)
           \/ \E f \in Families, kind \in {"other", "short"} : OtherIcmp(f, kind)
           \/ \E f \in Families, x \in Entries : Tell(f, x)
           \/ \E f \in Families, rest \in SUBSET Families : Told(f, rest)
    PROVE  SenderInv'
<1>0. /\ qRaw \in [Families -> Seq(IcmpMsgs)] /\ qNet \subseteq IcmpMsgs /\ qErrors \in Nat
      /\ qOut \in [IcmpClients -> Seq(Writings)]
  BY DEF IcmpInv, IcmpTypes, RawRight
<1>a. /\ \A m \in qNet : SentFrom(m, qFam, qPort)
      /\ \A f \in Families : Signed(qRaw[f], "error", qFam, qPort)
      /\ \A c \in IcmpClients : Signed(qOut[c], "icmpd_err", qFam, qPort)
  BY DEF SenderInv, SentRight
<1>1. UNCHANGED <<qFam, qPort, qTold, qCli>> /\ qNet' \subseteq qNet
  BY DEF IcmpArrives, OtherIcmp, Tell, Told, clients
<1>2. PortsApart' /\ PortsStay /\ ToldRight'
  BY <1>1, PortsSame
<1>3. ASSUME NEW f \in Families, NEW m \in IcmpMsgs, m.kind = "error" => SentFrom(m, qFam, qPort),
             qRaw' = [qRaw EXCEPT ![f] = Append(qRaw[f], m)], UNCHANGED qOut
      PROVE  SenderInv'
  <2>1. Signed(Append(qRaw[f], m), "error", qFam, qPort)
    BY <1>0, <1>a, <1>3, SignedAppend
  <2>2. \A g \in Families : Signed(qRaw'[g], "error", qFam, qPort)
    BY <1>0, <1>a, <1>3, <2>1
  <2>3. SentRight'
    BY <1>1, <1>2, <1>a, <1>3, <2>2, SentSame
  <2> QED
    BY <1>2, <2>3 DEF SenderInv
<1>4. ASSUME NEW m \in qNet, IcmpArrives(m) PROVE SenderInv'
  <2>1. m \in IcmpMsgs /\ m.fam \in Families /\ SentFrom(m, qFam, qPort)
    BY <1>0, <1>a DEF IcmpMsgs
  <2> QED
    BY <1>3, <1>4, <2>1 DEF IcmpArrives
<1>5. ASSUME NEW f \in Families, NEW kind \in {"other", "short"}, OtherIcmp(f, kind) PROVE SenderInv'
  <2>1. PICK m : m = [n |-> qErrors, from |-> 0, fam |-> f, kind |-> kind, port |-> 0]
    OBVIOUS
  <2>2. m \in IcmpMsgs /\ m.kind # "error"
    BY <1>0, <2>1 DEF IcmpMsgs, IcmpFroms
  <2>3. qRaw' = [qRaw EXCEPT ![f] = Append(qRaw[f], m)] /\ UNCHANGED qOut
    BY <1>5, <2>1 DEF OtherIcmp
  <2> QED
    BY <1>3, <2>2, <2>3
<1>6. ASSUME NEW f \in Families, NEW x \in Entries, Tell(f, x) PROVE SenderInv'
  <2>0. NextWrite(f, x) /\ qRaw' = qRaw
    BY <1>6 DEF Tell
  <2>1. PICK m : m = Head(qRaw[f])
    OBVIOUS
  <2>2. PICK e : e = [m EXCEPT !.kind = "icmpd_err"]
    OBVIOUS
  <2>3. m \in IcmpMsgs /\ m.kind = "error" /\ qTbl[x].c \in IcmpClients /\ qRaw[f] # <<>> /\ qRaw[f] \in Seq(IcmpMsgs)
    BY <2>0, <2>1, TellWrites
  <2>4. SentFrom(m, qFam, qPort)
    BY <1>a, <2>1, <2>3, SignedTail
  <2>5. e \in Writings /\ SentFrom(e, qFam, qPort)
    BY <2>2, <2>3, <2>4 DEF IcmpMsgs, Writings, SentFrom
  <2>6. PICK c \in IcmpClients : c = qTbl[x].c
    BY <2>3
  <2>7. UNCHANGED qOut \/ qOut' = [qOut EXCEPT ![c] = Append(qOut[c], e)]
    BY <1>6, <2>1, <2>2, <2>6 DEF Tell
  <2>8. Signed(Append(qOut[c], e), "icmpd_err", qFam, qPort)
    BY <1>0, <1>a, <2>5, SignedAppend
  <2>9. \A d \in IcmpClients : Signed(qOut'[d], "icmpd_err", qFam, qPort)
    BY <1>0, <1>a, <2>7, <2>8
  <2>10. SentRight'
    BY <1>1, <1>2, <1>a, <2>0, <2>9, SentSame
  <2> QED
    BY <1>2, <2>10 DEF SenderInv
<1>7. ASSUME NEW f \in Families, NEW rest, Told(f, rest) PROVE SenderInv'
  <2>0. qRaw' = [qRaw EXCEPT ![f] = Tail(qRaw[f])] /\ UNCHANGED qOut /\ qPc = f
    BY <1>7 DEF Told
  <2>1. qRaw[f] # <<>> /\ qRaw[f] \in Seq(IcmpMsgs)
    BY <2>0 DEF IcmpInv, RawRight
  <2>2. Signed(Tail(qRaw[f]), "error", qFam, qPort)
    BY <1>a, <2>1, SignedTail
  <2>3. \A g \in Families : Signed(qRaw'[g], "error", qFam, qPort)
    BY <1>0, <1>a, <2>0, <2>2
  <2>4. SentRight'
    BY <1>1, <1>2, <1>a, <2>0, <2>3, SentSame
  <2> QED
    BY <1>2, <2>4 DEF SenderInv
<1> QED
  BY <1>4, <1>5, <1>6, <1>7

\* Read_fd(): a socket may get its port now, and a byte of status is no error.
LEMMA SenderConn == ASSUME IcmpInv, SenderInv, NEW x \in Entries, readable_conn(x) PROVE SenderInv'
<1>0. /\ qOut \in [IcmpClients -> Seq(Writings)] /\ qPort \in [IcmpClients -> IcmpPorts \cup {0}]
  BY DEF IcmpInv, IcmpTypes
<1>a. /\ \A m \in qNet : SentFrom(m, qFam, qPort)
      /\ \A f \in Families : Signed(qRaw[f], "error", qFam, qPort)
      /\ \A c \in IcmpClients : Signed(qOut[c], "icmpd_err", qFam, qPort)
  BY DEF SenderInv, SentRight
<1>1. PICK c : c = qTbl[x].c
  OBVIOUS
<1>2. c \in IcmpClients /\ qCli[c] # "start"
  BY <1>1 DEF readable_conn, IcmpInv, TblRight, Readable, IcmpTypes, TblEntries
<1>3. UNCHANGED <<qFam, qCli, qTold, qNet, qRaw>>
  BY DEF readable_conn, clients
<1>4. \/ UNCHANGED qPort
      \/ \E p \in IF qPort[c] # 0 THEN {qPort[c]} ELSE Free(qFam[c]) : qPort' = [qPort EXCEPT ![c] = p]
  BY <1>1 DEF readable_conn
<1>5. UNCHANGED qOut \/ \E char \in {"0", "1"} : qOut' = [qOut EXCEPT ![c] = Append(qOut[c], Status(char))]
  BY <1>1 DEF readable_conn
<1>6. PortsApart' /\ PortsStay /\ ToldRight'
  <2>1. CASE UNCHANGED qPort
    BY <1>3, <2>1, PortsSame
  <2>2. ASSUME NEW p \in IF qPort[c] # 0 THEN {qPort[c]} ELSE Free(qFam[c]), qPort' = [qPort EXCEPT ![c] = p]
        PROVE  PortsApart' /\ PortsStay /\ ToldRight'
    <3>1. p \in IcmpPorts \cup {0} /\ p \in {0, qPort[c]} \cup Free(qFam[c]) /\ (qPort[c] = 0 \/ p = qPort[c])
      BY <1>0, <1>2, <2>2 DEF Free
    <3> QED
      BY <1>2, <1>3, <2>2, <3>1, PortGiven
  <2> QED
    BY <1>4, <2>1, <2>2
<1>7. ASSUME NEW char \in {"0", "1"} PROVE Signed(Append(qOut[c], Status(char)), "icmpd_err", qFam, qPort)
  <2>1. Status(char) \in Writings /\ Status(char).kind # "icmpd_err"
    BY DEF Status, Writings, IcmpFroms, Families
  <2> QED
    BY <1>0, <1>2, <1>a, <2>1, SignedAppend
<1>8. \A d \in IcmpClients : Signed(qOut'[d], "icmpd_err", qFam, qPort)
  BY <1>0, <1>2, <1>5, <1>7, <1>a
<1>9. SentRight'
  BY <1>3, <1>6, <1>8, <1>a, SentSame
<1> QED
  BY <1>6, <1>9 DEF SenderInv

LEMMA SenderInvInit == IcmpInit => SenderInv
<1> SUFFICES ASSUME NEW fam, NEW size, IcmpStart(fam, size, "select") PROVE SenderInv
  BY DEF IcmpInit
<1>1. SentRight
  BY DEF IcmpStart, SentRight, Signed, SentFrom
<1> QED
  BY <1>1 DEF IcmpStart, SenderInv, PortsApart, ToldRight

LEMMA SenderInvNext == IcmpInv /\ SenderInv /\ [IcmpNext]_icmpVars => SenderInv'
<1> SUFFICES ASSUME IcmpInv, SenderInv, [IcmpNext]_icmpVars PROVE SenderInv'
  OBVIOUS
<1>1. CASE readable_v4 \/ readable_v6
  <2>1. PICK f \in Families, rest \in SUBSET Families : Forward(f, rest)
    BY <1>1 DEF readable_v4, readable_v6, Families
  <2>2. CASE TooShort(f)
    BY <2>2, SenderQuiet DEF TooShort, clients
  <2> QED
    BY <2>1, <2>2, SenderRaw DEF Forward
<1>2. CASE DaemonSelect \/ readable_listen \/ LoopEnds \/ UNCHANGED icmpVars
  <2>1. UNCHANGED <<qFam, qPort, qOut, qTold, qNet, qRaw, qCli>>
    BY <1>2 DEF DaemonSelect, readable_listen, LoopEnds, clients, icmpVars
  <2> QED
    BY <2>1, SenderQuiet
<1>3. CASE (\E m \in qNet : IcmpArrives(m)) \/ (\E f \in Families, kind \in {"other", "short"} : OtherIcmp(f, kind))
  BY <1>3, SenderRaw
<1> QED
  BY <1>1, <1>2, <1>3, SenderClient, SenderConn DEF IcmpNext, IcmpDaemon

\* What a client of the ICMP daemon prints is an error of a datagram sent from its family and
\* port, its own or that of a client that had the port before it and has gone, though ports
\* and entries of client[] are used again; and it keeps its entry as long as it and the
\* daemon run, for any number of clients, entries, ports and messages (readable_v4.c:56-85,
\* readable_conn.c:15-53).
THEOREM ErrorsAreOwn == IcmpSpec => []IcmpOwn
<1>1. IcmpInv /\ SenderInv => IcmpOwn
  <2> SUFFICES ASSUME IcmpInv, SenderInv, NEW c \in IcmpClients
               PROVE  /\ \A e \in qTold[c] : OwnError(c, e) /\ (e.from = c \/ qCli[e.from] = "gone")
                      /\ qCli[c] \in {"loop", "wait"} /\ ~DaemonDied => Registered(c)
    BY DEF IcmpOwn, OwnError, Registered
  <2>1. ClientRight(c)
    BY DEF IcmpInv
  <2> QED
    BY <2>1 DEF ClientRight, IcmpTaken, SenderInv, ToldRight
<1> QED
  BY <1>1, IcmpInvInit, IcmpInvNext, SenderInvInit, SenderInvNext, PTL DEF IcmpSpec

-----------------------------------------------------------------------------
(* sock: the options of a socket                                            *)

\* Where the process may be once socket(), bind() and buffers() have been called
Made == {"bind", "before", "connect", "after", "ready", "accept", "new", "parent", "wait", "suspend", "suspended"}
BoundPcs == Made \ {"bind"}
SetPcs == BoundPcs \ {"before"}
AcceptPcs == {"accept", "new", "parent", "wait", "suspend", "suspended"}
TcpServer == oRole = "server" /\ ~oUdp
UdpServer == oRole = "server" /\ oUdp

\* The options that sockopts(fd, 0) and sockopts(fd, 1) set, sroute apart
FirstOpts ==
    {o \in oOpts \cap (Always \cup TcpOnly \cup UdpOnly \cup OnlyFirst) : Applies(o) /\ o \notin OnlyLast}
LastOpts ==
    {o \in oOpts \cap (Always \cup TcpOnly \cup UdpOnly \cup OnlyLast) : Applies(o)}
Route == oOpts \cap {"sroute"}
Syn == oOpts \cap {"rcvbuf", "sndbuf", "tos", "ttl", "maxseg", "sroute"}

\* What each stage of cliopen() and servopen() has reached
StagesRight ==
    /\ oRole \in {"client", "server"} /\ oUdp \in BOOLEAN /\ oRoute \in BOOLEAN
    /\ oPc \in Made => oOpts \cap {"reuseaddr", "reuseport"} \subseteq oFd
    /\ oPc \in BoundPcs => oOpts \cap {"reuseaddr", "reuseport"} \subseteq oAtBind
    /\ oPc \in SetPcs => buffers \subseteq oFd /\ (~UdpServer => FirstOpts \cup Route \subseteq oFd)
    /\ oPc \in {"main", "open", "bind", "before"} \/ (UdpServer /\ oPc \in {"connect", "after"})
          => (oRoute <=> "sroute" \in oOpts)

\* The first SYN, and the answer to one, carry what they should.
SynRight == ~oUdp /\ oPc \in AcceptPcs \cup {"after", "ready"} => Syn \subseteq oAtSyn

\* A socket that is given to main(), or to a child, is complete.
ReturnRight ==
    /\ oPc \in AcceptPcs => TcpServer
    /\ oPc = "after" => ~TcpServer
    /\ oPc = "ready" /\ ~TcpServer => LastOpts \cup Route \subseteq oFd
    /\ oPc = "ready" /\ TcpServer => buffers \cup LastOpts \subseteq oNew
    /\ oKid # "none" => oPc \in AcceptPcs \ {"new"} /\ "fork" \in oOpts
    /\ oKid \in {"tell", "open"} => buffers \cup LastOpts \subseteq oNew

OpenInv == StagesRight /\ SynRight /\ ReturnRight

\* The same program with any number of options on its command line
SockAnyInit ==
    \E role \in {"client", "server"}, udp \in BOOLEAN, opts \in SUBSET (SocketOpts \cup ControlOpts) :
       SockStart(role, udp, opts, "main")
SockAnySpec == SockAnyInit /\ [][SockNext]_openVars

\* What sockopts() sets
LEMMA SockoptsSets ==
    /\ FirstOpts \subseteq sockopts(FALSE) /\ LastOpts \subseteq sockopts(TRUE)
    /\ oRoute => "sroute" \in sockopts(FALSE) /\ "sroute" \in sockopts(TRUE)
    /\ "sroute" \in sockopts(FALSE) => oRoute
<1>1. FirstOpts \subseteq sockopts(FALSE)
  BY DEF FirstOpts, sockopts, Applies
<1>2. LastOpts \subseteq sockopts(TRUE)
  BY DEF LastOpts, sockopts, Applies, OnlyFirst, Always, TcpOnly, UdpOnly, OnlyLast
<1>3. oRoute => "sroute" \in sockopts(FALSE) /\ "sroute" \in sockopts(TRUE)
  BY DEF sockopts, sroute_set
<1>4. "sroute" \in sockopts(FALSE) => oRoute
  BY DEF sockopts, sroute_set, Always, TcpOnly, UdpOnly, OnlyFirst, OnlyLast
<1> QED
  BY <1>1, <1>2, <1>3, <1>4

\* Every option is one that sockopts() sets first, or last, or one that has a place of its own.
LEMMA OptionPlaces ==
    /\ \A o \in oOpts \cap SocketOpts :
          Applies(o) => o \in LastOpts \cup buffers \cup Route \cup {"reuseaddr", "reuseport"} \cup OnlyFirst
    /\ \A o \in oOpts \cap OnlyFirst : o \in FirstOpts
    /\ ~oUdp => Syn \subseteq FirstOpts \cup buffers \cup Route
<1> USE DEF Always, TcpOnly, UdpOnly, OnlyFirst, OnlyLast, Applies
<1>1. \A o \in oOpts \cap SocketOpts :
          Applies(o) => o \in LastOpts \cup buffers \cup Route \cup {"reuseaddr", "reuseport"} \cup OnlyFirst
  BY DEF SocketOpts, LastOpts, buffers, Route
<1>2. \A o \in oOpts \cap OnlyFirst : o \in FirstOpts
  BY DEF FirstOpts
<1>3. ~oUdp => Syn \subseteq FirstOpts \cup buffers \cup Route
  BY DEF Syn, FirstOpts, buffers, Route
<1> QED
  BY <1>1, <1>2, <1>3

LEMMA OpenInvInit == SockAnyInit => OpenInv
<1> SUFFICES ASSUME NEW role \in {"client", "server"}, NEW udp \in BOOLEAN, NEW opts,
                    SockStart(role, udp, opts, "main")
             PROVE  OpenInv
  BY DEF SockAnyInit
<1>1. oPc = "main" /\ oKid = "none" /\ oRole \in {"client", "server"} /\ oUdp \in BOOLEAN
  BY DEF SockStart
<1>2. oRoute = ("sroute" \in oOpts)
  BY DEF SockStart
<1>c. ("sroute" \in oOpts) \in BOOLEAN
  OBVIOUS
<1>d. oRoute \in BOOLEAN
  BY <1>2, <1>c, Zenon
<1>e. oRoute <=> "sroute" \in oOpts
  BY <1>2, Zenon
<1>3. oRoute \in BOOLEAN /\ (oRoute <=> "sroute" \in oOpts)
  BY <1>d, <1>e
<1> QED
  BY <1>1, <1>3 DEF OpenInv, StagesRight, SynRight, ReturnRight, Made, BoundPcs, SetPcs, AcceptPcs

LEMMA OpenInvNext == OpenInv /\ [SockNext]_openVars => OpenInv'
<1> SUFFICES ASSUME OpenInv, [SockNext]_openVars PROVE OpenInv'
  OBVIOUS
<1>0. UNCHANGED <<oRole, oUdp, oOpts>>
  BY DEF SockNext, SockParent, SockChild, openVars, ParseArgs, OpenSocket, BindSocket, SetBefore, ConnectSocket,
         SetAfter, ListenSocket, ServeConn, ParentClose, WAIT_CHILD, Suspend, ChildOptions, TELL_PARENT, AcceptConn, Quit
<1>a. /\ buffers' = buffers /\ FirstOpts' = FirstOpts /\ LastOpts' = LastOpts /\ Route' = Route /\ Syn' = Syn
      /\ (UdpServer' <=> UdpServer) /\ (TcpServer' <=> TcpServer)
  BY <1>0 DEF buffers, FirstOpts, LastOpts, Route, Syn, UdpServer, TcpServer, Applies
<1> USE DEF OpenInv, StagesRight, SynRight, ReturnRight, Made, BoundPcs, SetPcs, AcceptPcs
<1>1. CASE Quit \/ ParseArgs
  BY <1>0, <1>a, <1>1 DEF Quit, ParseArgs, usage
<1>2. CASE OpenSocket
  BY <1>0, <1>a, <1>2 DEF OpenSocket
<1>3. CASE BindSocket
  BY <1>0, <1>a, <1>3 DEF BindSocket
<1>4. CASE SetBefore
  <2>1. /\ buffers \subseteq oFd' /\ oFd \subseteq oFd' /\ oRoute' \in BOOLEAN
        /\ ~UdpServer => sockopts(FALSE) \subseteq oFd'
        /\ UdpServer => oRoute' = oRoute
    BY <1>4 DEF SetBefore, UdpServer, buffers
  <2>2. ~UdpServer => FirstOpts \cup Route \subseteq oFd'
    BY <1>4, <2>1, SockoptsSets DEF SetBefore, Route
  <2>3. oPc = "before" /\ oPc' = "connect" /\ UNCHANGED <<oNew, oAtBind, oAtSyn, oKid>>
    BY <1>4 DEF SetBefore
  <2> QED
    BY <1>0, <1>a, <2>1, <2>2, <2>3
<1>5. CASE ConnectSocket
  <2>1. ~oUdp => Syn \subseteq oFd
    BY <1>5, OptionPlaces DEF ConnectSocket, UdpServer
  <2>2. ~oUdp => oAtSyn' = oFd
    BY <1>5 DEF ConnectSocket, Connects
  <2>3. /\ oPc = "connect" /\ oPc' \in {"after", "exit"} /\ UNCHANGED <<oFd, oNew, oAtBind, oRoute, oKid>>
        /\ oRole = "client" \/ oUdp
    BY <1>5 DEF ConnectSocket
  <2> QED
    BY <1>0, <1>a, <2>1, <2>2, <2>3 DEF TcpServer
<1>6. CASE SetAfter
  <2>1. /\ oPc = "after" /\ UNCHANGED <<oNew, oAtBind, oAtSyn, oKid>>
        /\ \/ oPc' = "exit" /\ UNCHANGED <<oFd, oRoute>>
           \/ oPc' = "ready" /\ oFd' = oFd \cup sockopts(TRUE) /\ oRoute' = FALSE
    BY <1>6 DEF SetAfter
  <2>2. oPc' = "ready" => LastOpts \cup Route \subseteq oFd'
    <3>1. UdpServer /\ "sroute" \in oOpts => oRoute
      BY <2>1
    <3> QED
      BY <2>1, <3>1, SockoptsSets DEF Route
  <2> QED
    BY <1>0, <1>a, <2>1, <2>2
<1>7. CASE ListenSocket
  <2>1. Syn \subseteq oFd
    BY <1>7, OptionPlaces DEF ListenSocket, UdpServer
  <2> QED
    BY <1>0, <1>a, <1>7, <2>1 DEF ListenSocket, TcpServer
<1>8. CASE AcceptConn
  BY <1>0, <1>a, <1>8 DEF AcceptConn
<1>9. CASE ServeConn \/ ChildOptions
  <2>1. NewOptions = buffers \cup sockopts(TRUE)
    BY DEF NewOptions
  <2> QED
    BY <1>0, <1>a, <1>9, <2>1, SockoptsSets DEF ServeConn, ChildOptions
<1>10. CASE TELL_PARENT
  BY <1>0, <1>a, <1>10 DEF TELL_PARENT, sig_usr
<1>11. CASE ParentClose \/ WAIT_CHILD \/ Suspend \/ UNCHANGED openVars
  BY <1>0, <1>a, <1>11 DEF ParentClose, WAIT_CHILD, Suspend, openVars
<1> QED
  BY <1>1, <1>2, <1>3, <1>4, <1>5, <1>6, <1>7, <1>8, <1>9, <1>10, <1>11 DEF SockNext, SockParent, SockChild

LEMMA OpenInvImplies == OpenInv => OptionsInForce
<1> SUFFICES ASSUME OpenInv, Opened PROVE OptionsInForce
  BY DEF OptionsInForce
<1>0. oPc \in SetPcs /\ (oPc = "ready" \/ (TcpServer /\ oPc \in AcceptPcs))
  BY DEF OpenInv, ReturnRight, Opened, SetPcs, BoundPcs, Made, AcceptPcs
<1>1. /\ buffers \subseteq oFd /\ (~UdpServer => FirstOpts \cup Route \subseteq oFd)
      /\ oOpts \cap {"reuseaddr", "reuseport"} \subseteq oFd /\ oOpts \cap {"reuseaddr", "reuseport"} \subseteq oAtBind
      /\ oRole \in {"client", "server"}
  BY <1>0 DEF OpenInv, StagesRight, SetPcs, BoundPcs
<1>2. ~oUdp => Syn \subseteq oAtSyn
  BY <1>0 DEF OpenInv, SynRight
<1>3. ASSUME NEW o \in oOpts \cap SocketOpts, Applies(o)
      PROVE  \/ o \in Returned
             \/ oRole = "server" /\ o \in OnlyFirst
             \/ oRole = "server" /\ ~oUdp /\ o \in {"reuseaddr", "reuseport", "sroute"}
  <2>1. o \in LastOpts \cup buffers \cup Route \cup {"reuseaddr", "reuseport"} \cup OnlyFirst
    BY <1>3, OptionPlaces
  <2>2. CASE TcpServer
    <3>1. buffers \cup LastOpts \subseteq oNew
      BY <1>0, <2>2 DEF OpenInv, ReturnRight, Opened
    <3> QED
      BY <2>1, <2>2, <3>1 DEF Returned, TcpServer, Route
  <2>3. CASE ~TcpServer
    <3>1. LastOpts \cup Route \subseteq oFd
      BY <1>0, <2>3 DEF OpenInv, ReturnRight
    <3>2. o \in OnlyFirst /\ oRole = "client" => o \in oFd
      BY <1>1, OptionPlaces DEF UdpServer
    <3>3. Returned = oFd
      BY <2>3 DEF Returned, TcpServer
    <3> QED
      BY <1>1, <2>1, <3>1, <3>2, <3>3
  <2> QED
    BY <2>2, <2>3
<1> QED
  BY <1>1, <1>2, <1>3 DEF OptionsInForce, Syn

\* Whatever options the command line has, however many, the socket that sock works with has
\* those that fit its protocol, and had those that count before the SYN and before bind().
THEOREM AnyOptionsInForce == SockAnySpec => []OptionsInForce
  BY OpenInvInit, OpenInvNext, OpenInvImplies, PTL DEF SockAnySpec

\* The command lines that the run looks at are among them.
THEOREM OptionsAreInForce == SockSpec => []OptionsInForce
<1>1. SockInit => SockAnyInit
  BY DEF SockInit, SockAnyInit, OptionSets
<1> QED
  BY <1>1, AnyOptionsInForce, PTL DEF SockSpec, SockAnySpec

-----------------------------------------------------------------------------
(* The echo client str_cli()                                                *)

\* A buffer holds the lines that follow line a.
RunAt(s, a) == \A k \in 1 .. Len(s) : s[k] = a + k

\* The line before the first one of each buffer
PosFr == Len(out)
PosRbuf == PosFr + Len(fr)
PosS2c == PosRbuf + Len(rbuf)
PosSbuf == PosS2c + Len(s2c)
PosC2s == PosSbuf + Len(sbuf)
PosObuf == PosC2s + Len(c2s)
PosIbuf == PosObuf + Len(obuf)
PosInq == PosIbuf + Len(ibuf)

BackRuns ==
    /\ RunAt(out, 0) /\ RunAt(fr, PosFr) /\ RunAt(rbuf, PosRbuf) /\ RunAt(s2c, PosS2c)
    /\ PosSbuf <= typed
AwayRuns ==
    server # "died" =>
       /\ RunAt(sbuf, PosSbuf) /\ RunAt(c2s, PosC2s) /\ RunAt(obuf, PosObuf) /\ RunAt(ibuf, PosIbuf)
       /\ RunAt(inq, PosInq) /\ PosInq + Len(inq) = typed

\* Where each kind of client can be, and which buffers it leaves empty there
ClientShape ==
    /\ Trait.kind = "lockstep" => spc \in {"in", "write", "sock"}
    /\ Trait.kind = "select" => spc \in {"select", "handle", "write"}
    /\ Trait.kind = "nonb" => spc \in {"select", "nin", "nsock", "nout", "nnet"}
    /\ Trait.kind = "two" => spc \in {"in", "write", "shut", "mark", "pause", "gone"}
    /\ rpc # "off" => Trait.kind = "two"
    /\ rpc = "check" => client = "strclithread2"
    /\ Trait.kind # "nonb" => fr = <<>>
    /\ ~Trait.stdio => ibuf = <<>> /\ rbuf = <<>>
    /\ spc = "write" => obuf # <<>>
    /\ Trait.kind # "nonb" /\ obuf # <<>> => spc \in {"write", "gone"}
    /\ isfile => client = "str_cli_kqueue04"

\* The half close, and what must have happened before it
FinShape ==
    /\ cfin => ineof /\ inq = <<>> /\ ibuf = <<>> /\ obuf = <<>>
    /\ server = "done" => cfin /\ sbuf = <<>> /\ c2s = <<>>
    /\ Trait.kind \in {"select", "nonb"} /\ cfin => stdineof
    /\ Trait.kind = "two" /\ cfin => spc = "mark" \/ stdineof
    /\ Trait.kind # "two" /\ stdineof => ineof /\ inq = <<>>
    /\ spc = "nin" /\ "in" \in rset => inq # <<>> \/ ineof
    /\ spc \in {"shut", "mark", "pause"} => ineof /\ inq = <<>> /\ ibuf = <<>>
    /\ isfile => ineof
    /\ rpc = "check" => server # "up" /\ rbuf = <<>> /\ s2c = <<>>

\* Stop-and-wait: no more than one line is under way.
OneLine ==
    Trait.kind = "lockstep" =>
       /\ ~cfin
       /\ server # "died" => Len(rbuf) + Len(s2c) + Len(sbuf) + Len(c2s) + Len(obuf) = IF spc = "in" THEN 0 ELSE 1

AllPrinted ==
    ended = "normal" /\ server # "died" /\ client # "strcliselect01" => PosRbuf = typed

StrInv == /\ TypeOK /\ BackRuns /\ AwayRuns /\ ClientShape /\ FinShape /\ OneLine
          /\ AllPrinted /\ PrematureMeansDied

LEMMA LineLens ==
    ASSUME NEW S, NEW s \in Seq(S)
    PROVE  Len(s) \in Nat /\ (s = <<>> <=> Len(s) = 0)
<1>1. Len(s) \in Nat
  OBVIOUS
<1>2. s = <<>> => Len(s) = 0
  OBVIOUS
<1>3. Len(s) = 0 => s = <<>>
  BY EmptySeq
<1> QED
  BY <1>1, <1>2, <1>3

LEMMA EntriesOf ==
    ASSUME NEW S, NEW s \in Seq(S)
    PROVE  Len(s) \in Nat /\ \A k \in 1 .. Len(s) : s[k] \in S
  OBVIOUS

LEMMA RunTail ==
    ASSUME NEW s \in LineSeq, s # <<>>, NEW a \in Nat, RunAt(s, a)
    PROVE  Head(s) = a + 1 /\ RunAt(Tail(s), a + 1)
<1>1. /\ Head(s) = s[1] /\ Len(s) \in Nat /\ Len(s) > 0 /\ Len(Tail(s)) = Len(s) - 1
      /\ \A k \in 1 .. Len(Tail(s)) : Tail(s)[k] = s[k + 1] /\ k + 1 \in 1 .. Len(s)
  BY TailOf DEF LineSeq
<1>2. \A k \in 1 .. Len(s) : s[k] = a + k
  BY DEF RunAt
<1>3. 1 \in 1 .. Len(s)
  BY <1>1
<1>4. ASSUME NEW k \in 1 .. Len(Tail(s)) PROVE Tail(s)[k] = (a + 1) + k
  <2>1. Tail(s)[k] = a + (k + 1)
    BY <1>1, <1>2
  <2> QED
    BY <2>1
<1> QED
  BY <1>1, <1>2, <1>3, <1>4 DEF RunAt

LEMMA RunAppend ==
    ASSUME NEW s \in LineSeq, NEW a \in Nat, RunAt(s, a), NEW x \in 1 .. Lines, x = a + Len(s) + 1
    PROVE  RunAt(Append(s, x), a)
<1>1. /\ Len(s) \in Nat /\ Len(Append(s, x)) = Len(s) + 1 /\ Append(s, x)[Len(s) + 1] = x
      /\ \A k \in 1 .. Len(s) : Append(s, x)[k] = s[k]
      /\ \A k \in 1 .. Len(s) + 1 : k \in 1 .. Len(s) \/ k = Len(s) + 1
  BY AppendOf DEF LineSeq
<1>2. ASSUME NEW k \in 1 .. Len(s) + 1 PROVE Append(s, x)[k] = a + k
  <2>1. CASE k = Len(s) + 1
    BY <1>1, <2>1
  <2>2. CASE k \in 1 .. Len(s)
    BY <1>1, <2>2 DEF RunAt
  <2> QED
    BY <1>1, <2>1, <2>2
<1> QED
  BY <1>1, <1>2 DEF RunAt

\* What read() takes of a buffer, and what it leaves.
LEMMA SplitOf ==
    ASSUME NEW s \in LineSeq, NEW n \in Nat
    PROVE  /\ First(s, n) \in LineSeq /\ Rest(s, n) \in LineSeq /\ Len(s) \in Nat
           /\ Len(First(s, n)) = (IF n < Len(s) THEN n ELSE Len(s))
           /\ Len(Rest(s, n)) = Len(s) - Len(First(s, n))
           /\ \A k \in 1 .. Len(First(s, n)) : First(s, n)[k] = s[k]
           /\ \A k \in 1 .. Len(Rest(s, n)) : Rest(s, n)[k] = s[n + k]
           /\ \A k \in 1 .. Len(Rest(s, n)) : Len(First(s, n)) = n /\ n + k \in 1 .. Len(s)
<1>1. Len(s) \in Nat /\ \A k \in 1 .. Len(s) : s[k] \in 1 .. Lines
  BY EntriesOf DEF LineSeq
<1>2. PICK m \in Nat : m = (IF n < Len(s) THEN n ELSE Len(s)) /\ m <= Len(s) /\ m <= n
  BY <1>1
<1>3. 1 \in Int /\ m \in Int /\ \A k \in 1 .. m : s[k] \in 1 .. Lines
  BY <1>1, <1>2
<1>4. /\ SubSeq(s, 1, m) \in Seq(1 .. Lines)
      /\ Len(SubSeq(s, 1, m)) = (IF 1 <= m THEN m - 1 + 1 ELSE 0)
      /\ \A k \in 1 .. m - 1 + 1 : SubSeq(s, 1, m)[k] = s[1 + k - 1]
  BY <1>3, SubSeqProperties
<1>5. First(s, n) = SubSeq(s, 1, m)
  BY <1>2 DEF First
<1>6. Len(First(s, n)) = m /\ First(s, n) \in LineSeq
  BY <1>2, <1>4, <1>5 DEF LineSeq
<1>7. ASSUME NEW k \in 1 .. m PROVE First(s, n)[k] = s[k]
  <2>1. k \in 1 .. m - 1 + 1 /\ 1 + k - 1 = k
    BY <1>2
  <2> QED
    BY <2>1, <1>4, <1>5
<1>8. n + 1 \in Int /\ Len(s) \in Int /\ \A k \in n + 1 .. Len(s) : s[k] \in 1 .. Lines
  BY <1>1
<1>9. /\ SubSeq(s, n + 1, Len(s)) \in Seq(1 .. Lines)
      /\ Len(SubSeq(s, n + 1, Len(s))) = (IF n + 1 <= Len(s) THEN Len(s) - (n + 1) + 1 ELSE 0)
      /\ \A k \in 1 .. Len(s) - (n + 1) + 1 : SubSeq(s, n + 1, Len(s))[k] = s[(n + 1) + k - 1]
  BY <1>8, SubSeqProperties
<1>b. n < Len(s) => m = n
  BY <1>2
<1>c. ~(n < Len(s)) => m = Len(s)
  BY <1>2
<1>a. (IF n + 1 <= Len(s) THEN Len(s) - (n + 1) + 1 ELSE 0) = Len(s) - m
  BY <1>1, <1>b, <1>c
<1>10. Len(Rest(s, n)) = Len(s) - m /\ Rest(s, n) \in LineSeq
  BY <1>9, <1>a DEF Rest, LineSeq
<1>11. ASSUME NEW k \in 1 .. Len(Rest(s, n)) PROVE Rest(s, n)[k] = s[n + k] /\ m = n /\ n + k \in 1 .. Len(s)
  <2>1. n < Len(s) /\ m = n /\ n + k \in 1 .. Len(s)
    BY <1>1, <1>2, <1>10
  <2>2. k \in 1 .. Len(s) - (n + 1) + 1 /\ (n + 1) + k - 1 = n + k
    BY <1>1, <1>2, <1>10, <2>1
  <2> QED
    BY <2>1, <2>2, <1>9 DEF Rest
<1> QED
  BY <1>1, <1>2, <1>6, <1>7, <1>10, <1>11

LEMMA RunSplit ==
    ASSUME NEW s \in LineSeq, NEW n \in Nat, NEW a \in Nat, RunAt(s, a)
    PROVE  RunAt(First(s, n), a) /\ RunAt(Rest(s, n), a + Len(First(s, n)))
<1>1. /\ Len(s) \in Nat /\ Len(First(s, n)) \in Nat /\ Len(First(s, n)) <= Len(s)
      /\ \A k \in 1 .. Len(First(s, n)) : First(s, n)[k] = s[k]
      /\ \A k \in 1 .. Len(Rest(s, n)) : Rest(s, n)[k] = s[n + k]
      /\ \A k \in 1 .. Len(Rest(s, n)) : Len(First(s, n)) = n /\ n + k \in 1 .. Len(s)
  BY SplitOf
<1>2. \A k \in 1 .. Len(s) : s[k] = a + k
  BY DEF RunAt
<1>3. ASSUME NEW k \in 1 .. Len(First(s, n)) PROVE First(s, n)[k] = a + k
  <2>1. k \in 1 .. Len(s)
    BY <1>1
  <2> QED
    BY <2>1, <1>1, <1>2
<1>4. ASSUME NEW k \in 1 .. Len(Rest(s, n)) PROVE Rest(s, n)[k] = (a + Len(First(s, n))) + k
  <2>1. Rest(s, n)[k] = a + (n + k)
    BY <1>1, <1>2
  <2>2. Len(First(s, n)) = n /\ k \in Int
    BY <1>1
  <2> QED
    BY <2>1, <2>2
<1> QED
  BY <1>3, <1>4 DEF RunAt

LEMMA RunCat ==
    ASSUME NEW s \in LineSeq, NEW t \in LineSeq, NEW a \in Nat, RunAt(s, a), RunAt(t, a + Len(s))
    PROVE  s \o t \in LineSeq /\ Len(s \o t) = Len(s) + Len(t) /\ RunAt(s \o t, a)
<1>1. /\ s \o t \in Seq(1 .. Lines) /\ Len(s \o t) = Len(s) + Len(t)
      /\ \A k \in 1 .. Len(s) + Len(t) : (s \o t)[k] = IF k <= Len(s) THEN s[k] ELSE t[k - Len(s)]
  BY ConcatProperties DEF LineSeq
<1>2. Len(s) \in Nat /\ Len(t) \in Nat
  BY DEF LineSeq
<1>3. ASSUME NEW k \in 1 .. Len(s) + Len(t) PROVE (s \o t)[k] = a + k
  <2>1. CASE k <= Len(s)
    <3>1. k \in 1 .. Len(s)
      BY <1>2, <2>1
    <3> QED
      BY <1>1, <2>1, <3>1 DEF RunAt
  <2>2. CASE ~(k <= Len(s))
    <3>1. k - Len(s) \in 1 .. Len(t)
      BY <1>2, <2>2
    <3>2. (s \o t)[k] = t[k - Len(s)]
      BY <1>1, <2>2
    <3>3. t[k - Len(s)] = (a + Len(s)) + (k - Len(s))
      BY <3>1 DEF RunAt
    <3> QED
      BY <3>2, <3>3, <1>2
  <2> QED
    BY <2>1, <2>2
<1> QED
  BY <1>1, <1>3 DEF RunAt, LineSeq

LEMMA RunFromStart ==
    ASSUME NEW s \in LineSeq, RunAt(s, 0)
    PROVE  s = Upto(Len(s))
<1>1. \A k \in 1 .. Len(s) : s[k] = k
  <2>1. \A k \in 1 .. Len(s) : s[k] = 0 + k /\ k \in Int
    BY DEF RunAt, LineSeq
  <2> QED
    BY <2>1
<1>2. s = [k \in 1 .. Len(s) |-> s[k]]
  BY DEF LineSeq
<1> QED
  BY <1>1, <1>2 DEF Upto

LEMMA RunIsPrefix ==
    ASSUME NEW s \in LineSeq, RunAt(s, 0), NEW n \in 0 .. Lines, Len(s) <= n
    PROVE  IsPrefix(s, Upto(n))
<1>0. Len(s) \in Nat /\ n \in Nat /\ n \in Int
  BY StrCliAssumption DEF LineSeq
<1>1. Len(Upto(n)) = n /\ \A k \in 1 .. n : Upto(n)[k] = k
  BY <1>0 DEF Upto
<1>2. SubSeq(s, 1, Len(s)) = s
  BY SubSeqFull DEF LineSeq
<1>3. SubSeq(Upto(n), 1, Len(s)) = s
  <2>1. ASSUME NEW k \in 1 .. Len(s) PROVE Upto(n)[k] \in 1 .. Lines
    <3>1. k \in 1 .. n /\ k \in 1 .. Lines
      BY <1>0, StrCliAssumption
    <3> QED
      BY <1>1, <3>1
  <2>2. 1 \in Int /\ Len(s) \in Int
    BY <1>0
  <2>3. /\ SubSeq(Upto(n), 1, Len(s)) \in Seq(1 .. Lines)
        /\ Len(SubSeq(Upto(n), 1, Len(s))) = (IF 1 <= Len(s) THEN Len(s) - 1 + 1 ELSE 0)
        /\ \A k \in 1 .. Len(s) - 1 + 1 : SubSeq(Upto(n), 1, Len(s))[k] = Upto(n)[1 + k - 1]
    BY <2>1, <2>2, SubSeqProperties
  <2>4. PICK t : t = SubSeq(Upto(n), 1, Len(s))
    OBVIOUS
  <2>5. t \in LineSeq /\ Len(t) = Len(s)
    BY <2>3, <2>4, <1>0 DEF LineSeq
  <2>6. ASSUME NEW k \in 1 .. Len(s) PROVE t[k] = 0 + k
    <3>1. k \in 1 .. Len(s) - 1 + 1 /\ 1 + k - 1 = k /\ k \in 1 .. n
      BY <1>0
    <3> QED
      BY <3>1, <2>3, <2>4, <1>1
  <2>7. RunAt(t, 0)
    BY <2>5, <2>6 DEF RunAt
  <2> QED
    BY <2>4, <2>5, <2>7, RunFromStart
<1> QED
  BY <1>0, <1>1, <1>2, <1>3 DEF IsPrefix

\* The twelve versions, kind by kind.
LEMMA TraitFacts ==
    ASSUME NEW c \in Clients
    PROVE  /\ Traits[c].kind \in {"lockstep", "select", "nonb", "two"}
           /\ Traits[c].kind = "nonb" <=> c = "strclinonb"
           /\ Traits[c].kind = "nonb" => ~Traits[c].stdio
           /\ Traits[c].kind \in {"lockstep", "two"} => Traits[c].stdio
           /\ c \in {"strclithread2", "strclifork"} => Traits[c].kind = "two"
           /\ c = "strcliselect01" => Traits[c].kind = "select"
           /\ c = "str_cli_kqueue04" => Traits[c].kind = "select" /\ ~Traits[c].stdio
<1>1. c \in {"str_cli", "str_cli08", "str_cli11", "strcliselect01", "strcliselect02", "str_cli_select02",
             "str_cli_poll03", "str_cli_kqueue04", "strclinonb", "strclifork", "strclithread", "strclithread2"}
  BY ClientsAssumption DEF Traits
<1>2. CASE c \in {"str_cli", "str_cli08", "str_cli11"}
  BY <1>2 DEF Traits, str_cli, str_cli08, str_cli11, stopAndWait
<1>3. CASE c \in {"strcliselect01", "strcliselect02", "str_cli_select02", "str_cli_poll03", "str_cli_kqueue04"}
  BY <1>3 DEF Traits, strcliselect01, strcliselect02, str_cli_select02, str_cli_poll03, str_cli_kqueue04
<1>4. CASE c = "strclinonb"
  BY <1>4 DEF Traits, strclinonb
<1>5. CASE c \in {"strclifork", "strclithread", "strclithread2"}
  BY <1>5 DEF Traits, strclifork, strclithread, strclithread2
<1> QED
  BY <1>1, <1>2, <1>3, <1>4, <1>5

LEMMA ClientFacts ==
    ASSUME TypeOK
    PROVE  /\ Trait.kind \in {"lockstep", "select", "nonb", "two"}
           /\ Trait.kind = "nonb" <=> client = "strclinonb"
           /\ Trait.kind = "nonb" => ~Trait.stdio
           /\ Trait.kind \in {"lockstep", "two"} => Trait.stdio
           /\ client \in {"strclithread2", "strclifork"} => Trait.kind = "two"
           /\ client = "strcliselect01" => Trait.kind = "select"
           /\ client = "str_cli_kqueue04" => Trait.kind = "select" /\ ~Trait.stdio
  BY TraitFacts DEF TypeOK, Trait

\* Every buffer is a sequence of lines, and it is empty when its length is 0.
LEMMA BufferFacts ==
    ASSUME TypeOK
    PROVE  /\ inq \in LineSeq /\ ibuf \in LineSeq /\ obuf \in LineSeq /\ c2s \in LineSeq /\ sbuf \in LineSeq
           /\ s2c \in LineSeq /\ rbuf \in LineSeq /\ fr \in LineSeq /\ out \in LineSeq
           /\ Len(inq) \in Nat /\ Len(ibuf) \in Nat /\ Len(obuf) \in Nat /\ Len(c2s) \in Nat /\ Len(sbuf) \in Nat
           /\ Len(s2c) \in Nat /\ Len(rbuf) \in Nat /\ Len(fr) \in Nat /\ Len(out) \in Nat
           /\ inq = <<>> <=> Len(inq) = 0
           /\ ibuf = <<>> <=> Len(ibuf) = 0
           /\ obuf = <<>> <=> Len(obuf) = 0
           /\ c2s = <<>> <=> Len(c2s) = 0
           /\ sbuf = <<>> <=> Len(sbuf) = 0
           /\ s2c = <<>> <=> Len(s2c) = 0
           /\ rbuf = <<>> <=> Len(rbuf) = 0
           /\ fr = <<>> <=> Len(fr) = 0
           /\ typed \in Nat
<1>1. \A s \in {inq, ibuf, obuf, c2s, sbuf, s2c, rbuf, fr, out} : s \in LineSeq
  BY DEF TypeOK
<1>2. \A s \in LineSeq : Len(s) \in Nat /\ (s = <<>> <=> Len(s) = 0)
  BY LineLens DEF LineSeq
<1>3. typed \in Nat
  BY StrCliAssumption DEF TypeOK
<1> QED
  BY <1>1, <1>2, <1>3

\* The positions of the buffers are natural numbers.
LEMMA Positions ==
    ASSUME TypeOK
    PROVE  /\ PosFr \in Nat /\ PosRbuf \in Nat /\ PosS2c \in Nat /\ PosSbuf \in Nat
           /\ PosC2s \in Nat /\ PosObuf \in Nat /\ PosIbuf \in Nat /\ PosInq \in Nat
  BY BufferFacts DEF PosFr, PosRbuf, PosS2c, PosSbuf, PosC2s, PosObuf, PosIbuf, PosInq

\* A step that leaves the buffers alone leaves the lines where they were.
LEMMA FlowKept ==
    ASSUME StrInv, UNCHANGED <<client, isfile, typed, inq, ibuf, obuf, oused, fused, c2s, server, sbuf, s2c, rbuf, fr, out>>
    PROVE  BackRuns' /\ AwayRuns' /\ Trait' = Trait /\ PosRbuf' = PosRbuf
  BY DEF StrInv, BackRuns, AwayRuns, RunAt, Trait, PosFr, PosRbuf, PosS2c, PosSbuf, PosC2s, PosObuf, PosIbuf,
     PosInq

\* A server that ended in good order has echoed everything, and the client has printed what it has read.
LEMMA DoneMeansAll ==
    ASSUME TypeOK, AwayRuns, FinShape, server = "done", rbuf = <<>>, s2c = <<>>
    PROVE  PosRbuf = typed
<1>1. inq = <<>> /\ ibuf = <<>> /\ obuf = <<>> /\ sbuf = <<>> /\ c2s = <<>>
  BY DEF FinShape
<1>2. PosInq + Len(inq) = typed
  BY DEF AwayRuns
<1> QED
  BY <1>1, <1>2, BufferFacts DEF PosFr, PosRbuf, PosS2c, PosSbuf, PosC2s, PosObuf, PosIbuf, PosInq

LEMMA CopytoShutsKeeps == StrInv /\ CopytoShuts => StrInv'
<1> SUFFICES ASSUME StrInv, CopytoShuts PROVE StrInv'
  OBVIOUS
<1>0. TypeOK /\ BackRuns /\ AwayRuns /\ ClientShape /\ FinShape /\ OneLine /\ AllPrinted /\ PrematureMeansDied
  BY DEF StrInv
<1>1. BackRuns' /\ AwayRuns' /\ Trait' = Trait /\ PosRbuf' = PosRbuf
  BY FlowKept DEF CopytoShuts, inVars, servVars, nonbVars
<1>2. TypeOK'
  BY <1>0 DEF TypeOK, CopytoShuts, AtS, inVars, servVars, nonbVars
<1>3. ClientShape'
  BY <1>0, <1>1, ClientFacts DEF ClientShape, CopytoShuts, AtS, inVars, servVars, nonbVars
<1>4. FinShape'
  BY <1>0, <1>1, ClientFacts DEF FinShape, ClientShape, CopytoShuts, AtS, inVars, servVars, nonbVars
<1>5. OneLine'
  BY <1>0, <1>1, ClientFacts DEF OneLine, ClientShape, CopytoShuts, AtS, inVars, servVars, nonbVars
<1>6. AllPrinted'
  BY <1>0, <1>1, ClientFacts, BufferFacts DEF AllPrinted, AwayRuns, FinShape, ClientShape, OneLine,
     CopytoShuts, AtS, inVars, servVars, nonbVars, PosFr, PosRbuf, PosS2c, PosSbuf, PosC2s, PosObuf, PosIbuf,
     PosInq
<1>7. PrematureMeansDied'
  BY <1>0, <1>1, ClientFacts DEF PrematureMeansDied, FinShape, ClientShape, CopytoShuts, AtS, inVars,
     servVars, nonbVars
<1> QED
  BY <1>1, <1>2, <1>3, <1>4, <1>5, <1>6, <1>7 DEF StrInv

LEMMA CopytoDoneKeeps == StrInv /\ CopytoDone => StrInv'
<1> SUFFICES ASSUME StrInv, CopytoDone PROVE StrInv'
  OBVIOUS
<1>0. TypeOK /\ BackRuns /\ AwayRuns /\ ClientShape /\ FinShape /\ OneLine /\ AllPrinted /\ PrematureMeansDied
  BY DEF StrInv
<1>1. BackRuns' /\ AwayRuns' /\ Trait' = Trait /\ PosRbuf' = PosRbuf
  BY FlowKept DEF CopytoDone, inVars, servVars, nonbVars
<1>2. TypeOK'
  BY <1>0 DEF TypeOK, CopytoDone, AtS, inVars, servVars, nonbVars
<1>3. ClientShape'
  BY <1>0, <1>1, ClientFacts DEF ClientShape, CopytoDone, AtS, inVars, servVars, nonbVars
<1>4. FinShape'
  BY <1>0, <1>1, ClientFacts DEF FinShape, ClientShape, CopytoDone, AtS, inVars, servVars, nonbVars
<1>5. OneLine'
  BY <1>0, <1>1, ClientFacts DEF OneLine, ClientShape, CopytoDone, AtS, inVars, servVars, nonbVars
<1>6. AllPrinted'
  BY <1>0, <1>1, ClientFacts, BufferFacts DEF AllPrinted, AwayRuns, FinShape, ClientShape, OneLine,
     CopytoDone, AtS, inVars, servVars, nonbVars, PosFr, PosRbuf, PosS2c, PosSbuf, PosC2s, PosObuf, PosIbuf,
     PosInq
<1>7. PrematureMeansDied'
  BY <1>0, <1>1, ClientFacts DEF PrematureMeansDied, FinShape, ClientShape, CopytoDone, AtS, inVars,
     servVars, nonbVars
<1> QED
  BY <1>1, <1>2, <1>3, <1>4, <1>5, <1>6, <1>7 DEF StrInv

LEMMA LoopsBackKeeps == StrInv /\ LoopsBack => StrInv'
<1> SUFFICES ASSUME StrInv, LoopsBack PROVE StrInv'
  OBVIOUS
<1>0. TypeOK /\ BackRuns /\ AwayRuns /\ ClientShape /\ FinShape /\ OneLine /\ AllPrinted /\ PrematureMeansDied
  BY DEF StrInv
<1>1. BackRuns' /\ AwayRuns' /\ Trait' = Trait /\ PosRbuf' = PosRbuf
  BY FlowKept DEF LoopsBack, inVars, servVars, nonbVars
<1>2. TypeOK'
  BY <1>0 DEF TypeOK, LoopsBack, AtS, inVars, servVars, nonbVars
<1>3. ClientShape'
  BY <1>0, <1>1, ClientFacts DEF ClientShape, LoopsBack, AtS, inVars, servVars, nonbVars
<1>4. FinShape'
  BY <1>0, <1>1, ClientFacts DEF FinShape, ClientShape, LoopsBack, AtS, inVars, servVars, nonbVars
<1>5. OneLine'
  BY <1>0, <1>1, ClientFacts DEF OneLine, ClientShape, LoopsBack, AtS, inVars, servVars, nonbVars
<1>6. AllPrinted'
  BY <1>0, <1>1, ClientFacts, BufferFacts DEF AllPrinted, AwayRuns, FinShape, ClientShape, OneLine,
     LoopsBack, AtS, inVars, servVars, nonbVars, PosFr, PosRbuf, PosS2c, PosSbuf, PosC2s, PosObuf, PosIbuf,
     PosInq
<1>7. PrematureMeansDied'
  BY <1>0, <1>1, ClientFacts DEF PrematureMeansDied, FinShape, ClientShape, LoopsBack, AtS, inVars, servVars,
     nonbVars
<1> QED
  BY <1>1, <1>2, <1>3, <1>4, <1>5, <1>6, <1>7 DEF StrInv

LEMMA ReadFailsKeeps == StrInv /\ ReadFails => StrInv'
<1> SUFFICES ASSUME StrInv, ReadFails PROVE StrInv'
  OBVIOUS
<1>0. TypeOK /\ BackRuns /\ AwayRuns /\ ClientShape /\ FinShape /\ OneLine /\ AllPrinted /\ PrematureMeansDied
  BY DEF StrInv
<1>1. BackRuns' /\ AwayRuns' /\ Trait' = Trait /\ PosRbuf' = PosRbuf
  BY FlowKept DEF ReadFails, inVars, servVars, nonbVars
<1>2. TypeOK'
  BY <1>0 DEF TypeOK, ReadFails, AtS, inVars, servVars, nonbVars
<1>3. ClientShape'
  BY <1>0, <1>1, ClientFacts DEF ClientShape, ReadFails, AtS, inVars, servVars, nonbVars
<1>4. FinShape'
  BY <1>0, <1>1, ClientFacts DEF FinShape, ClientShape, ReadFails, AtS, inVars, servVars, nonbVars
<1>5. OneLine'
  BY <1>0, <1>1, ClientFacts DEF OneLine, ClientShape, ReadFails, AtS, inVars, servVars, nonbVars
<1>6. AllPrinted'
  BY <1>0, <1>1, ClientFacts, BufferFacts DEF AllPrinted, AwayRuns, FinShape, ClientShape, OneLine,
     ReadFails, AtS, inVars, servVars, nonbVars, PosFr, PosRbuf, PosS2c, PosSbuf, PosC2s, PosObuf, PosIbuf,
     PosInq
<1>7. PrematureMeansDied'
  BY <1>0, <1>1, ClientFacts DEF PrematureMeansDied, FinShape, ClientShape, ReadFails, AtS, inVars, servVars,
     nonbVars
<1> QED
  BY <1>1, <1>2, <1>3, <1>4, <1>5, <1>6, <1>7 DEF StrInv

LEMMA HandlesEofKeeps == StrInv /\ HandlesEof => StrInv'
<1> SUFFICES ASSUME StrInv, HandlesEof PROVE StrInv'
  OBVIOUS
<1>0. TypeOK /\ BackRuns /\ AwayRuns /\ ClientShape /\ FinShape /\ OneLine /\ AllPrinted /\ PrematureMeansDied
  BY DEF StrInv
<1>1. BackRuns' /\ AwayRuns' /\ Trait' = Trait /\ PosRbuf' = PosRbuf
  BY FlowKept DEF HandlesEof, inVars, servVars, nonbVars
<1>2. TypeOK'
  BY <1>0 DEF TypeOK, HandlesEof, AtS, ReplyAtEof, EofVerdict, inVars, servVars, nonbVars
<1>3. ClientShape'
  BY <1>0, <1>1, ClientFacts DEF ClientShape, HandlesEof, AtS, ReplyAtEof, EofVerdict, inVars, servVars,
     nonbVars
<1>4. FinShape'
  BY <1>0, <1>1, ClientFacts DEF FinShape, ClientShape, HandlesEof, AtS, ReplyAtEof, EofVerdict, inVars,
     servVars, nonbVars
<1>5. OneLine'
  BY <1>0, <1>1, ClientFacts DEF OneLine, ClientShape, HandlesEof, AtS, ReplyAtEof, EofVerdict, inVars,
     servVars, nonbVars
<1>a. server # "up" /\ rbuf = <<>> /\ s2c = <<>>
  BY <1>0 DEF HandlesEof, ReplyAtEof
<1>b. server \in {"up", "done", "died"} /\ UNCHANGED <<server, client, typed, spc>> /\ stdineof \in BOOLEAN
  BY <1>0 DEF TypeOK, HandlesEof, servVars, inVars
<1>6. AllPrinted'
  <2>1. server # "died" => PosRbuf = typed
    BY <1>0, <1>a, <1>b, DoneMeansAll
  <2> QED
    BY <1>1, <1>b, <2>1 DEF AllPrinted
<1>7. PrematureMeansDied'
  <2>1. server # "died" => cfin
    BY <1>0, <1>a, <1>b DEF FinShape
  <2>2. ended' = "premature" => ~stdineof
    BY <1>b DEF HandlesEof, EofVerdict
  <2>3. cfin /\ ~stdineof => Trait.kind = "two" /\ spc = "mark"
    BY <1>0, ClientFacts DEF FinShape, OneLine
  <2>4. spc # "mark"
    BY <1>0 DEF HandlesEof, AtS, AtR, ClientShape
  <2> QED
    BY <1>b, <2>1, <2>2, <2>3, <2>4 DEF PrematureMeansDied
<1> QED
  BY <1>1, <1>2, <1>3, <1>4, <1>5, <1>6, <1>7 DEF StrInv

LEMMA WriteFailsKeeps == StrInv /\ WriteFails => StrInv'
<1> SUFFICES ASSUME StrInv, WriteFails PROVE StrInv'
  OBVIOUS
<1>0. TypeOK /\ BackRuns /\ AwayRuns /\ ClientShape /\ FinShape /\ OneLine /\ AllPrinted /\ PrematureMeansDied
  BY DEF StrInv
<1>1. BackRuns' /\ AwayRuns' /\ Trait' = Trait /\ PosRbuf' = PosRbuf
  BY FlowKept DEF WriteFails, inVars, servVars, nonbVars
<1>2. TypeOK'
  BY <1>0 DEF TypeOK, WriteFails, AtS, inVars, servVars, nonbVars
<1>3. ClientShape'
  BY <1>0, <1>1, ClientFacts DEF ClientShape, WriteFails, AtS, inVars, servVars, nonbVars
<1>4. FinShape'
  BY <1>0, <1>1, ClientFacts DEF FinShape, ClientShape, WriteFails, AtS, inVars, servVars, nonbVars
<1>5. OneLine'
  BY <1>0, <1>1, ClientFacts DEF OneLine, ClientShape, WriteFails, AtS, inVars, servVars, nonbVars
<1>6. AllPrinted'
  BY <1>0, <1>1, ClientFacts, BufferFacts DEF AllPrinted, AwayRuns, FinShape, ClientShape, OneLine,
     WriteFails, AtS, inVars, servVars, nonbVars, PosFr, PosRbuf, PosS2c, PosSbuf, PosC2s, PosObuf, PosIbuf,
     PosInq
<1>7. PrematureMeansDied'
  BY <1>0, <1>1, ClientFacts DEF PrematureMeansDied, FinShape, ClientShape, WriteFails, AtS, inVars,
     servVars, nonbVars
<1> QED
  BY <1>1, <1>2, <1>3, <1>4, <1>5, <1>6, <1>7 DEF StrInv

LEMMA SelectsKeeps == StrInv /\ Selects => StrInv'
<1> SUFFICES ASSUME StrInv, Selects PROVE StrInv'
  OBVIOUS
<1>0. TypeOK /\ BackRuns /\ AwayRuns /\ ClientShape /\ FinShape /\ OneLine /\ AllPrinted /\ PrematureMeansDied
  BY DEF StrInv
<1>1. BackRuns' /\ AwayRuns' /\ Trait' = Trait /\ PosRbuf' = PosRbuf
  BY FlowKept DEF Selects, inVars, servVars, nonbVars
<1>2. TypeOK'
  BY <1>0 DEF TypeOK, Selects, AtS, inVars, servVars, nonbVars
<1>3. ClientShape'
  BY <1>0, <1>1, ClientFacts DEF ClientShape, Selects, AtS, inVars, servVars, nonbVars
<1>4. FinShape'
  BY <1>0, <1>1, ClientFacts DEF FinShape, ClientShape, Selects, AtS, inVars, servVars, nonbVars
<1>5. OneLine'
  BY <1>0, <1>1, ClientFacts DEF OneLine, ClientShape, Selects, AtS, inVars, servVars, nonbVars
<1>6. AllPrinted'
  BY <1>0, <1>1, ClientFacts, BufferFacts DEF AllPrinted, AwayRuns, FinShape, ClientShape, OneLine, Selects,
     AtS, inVars, servVars, nonbVars, PosFr, PosRbuf, PosS2c, PosSbuf, PosC2s, PosObuf, PosIbuf, PosInq
<1>7. PrematureMeansDied'
  BY <1>0, <1>1, ClientFacts DEF PrematureMeansDied, FinShape, ClientShape, Selects, AtS, inVars, servVars,
     nonbVars
<1> QED
  BY <1>1, <1>2, <1>3, <1>4, <1>5, <1>6, <1>7 DEF StrInv

LEMMA NonbSelectsKeeps == StrInv /\ NonbSelects => StrInv'
<1> SUFFICES ASSUME StrInv, NonbSelects PROVE StrInv'
  OBVIOUS
<1>0. TypeOK /\ BackRuns /\ AwayRuns /\ ClientShape /\ FinShape /\ OneLine /\ AllPrinted /\ PrematureMeansDied
  BY DEF StrInv
<1>1. BackRuns' /\ AwayRuns' /\ Trait' = Trait /\ PosRbuf' = PosRbuf
  BY FlowKept DEF NonbSelects, inVars, servVars, nonbVars
<1>2. TypeOK'
  BY <1>0 DEF TypeOK, NonbSelects, AtS, StdinReady, inVars, servVars, nonbVars
<1>3. ClientShape'
  BY <1>0, <1>1, ClientFacts DEF ClientShape, NonbSelects, AtS, StdinReady, inVars, servVars, nonbVars
<1>4. FinShape'
  BY <1>0, <1>1, ClientFacts DEF FinShape, ClientShape, NonbSelects, AtS, StdinReady, inVars, servVars, nonbVars
<1>5. OneLine'
  BY <1>0, <1>1, ClientFacts DEF OneLine, ClientShape, NonbSelects, AtS, StdinReady, inVars, servVars, nonbVars
<1>6. AllPrinted'
  BY <1>0, <1>1, ClientFacts, BufferFacts DEF AllPrinted, AwayRuns, FinShape, ClientShape, OneLine,
     NonbSelects, AtS, StdinReady, inVars, servVars, nonbVars, PosFr, PosRbuf, PosS2c, PosSbuf, PosC2s,
     PosObuf, PosIbuf, PosInq
<1>7. PrematureMeansDied'
  BY <1>0, <1>1, ClientFacts DEF PrematureMeansDied, FinShape, ClientShape, NonbSelects, AtS, StdinReady,
     inVars, servVars, nonbVars
<1> QED
  BY <1>1, <1>2, <1>3, <1>4, <1>5, <1>6, <1>7 DEF StrInv

LEMMA ReceiverEofKeeps == StrInv /\ ReceiverEof => StrInv'
<1> SUFFICES ASSUME StrInv, ReceiverEof PROVE StrInv'
  OBVIOUS
<1>0. TypeOK /\ BackRuns /\ AwayRuns /\ ClientShape /\ FinShape /\ OneLine /\ AllPrinted /\ PrematureMeansDied
  BY DEF StrInv
<1>1. BackRuns' /\ AwayRuns' /\ Trait' = Trait /\ PosRbuf' = PosRbuf
  BY FlowKept DEF ReceiverEof, inVars, servVars, nonbVars
<1>2. TypeOK'
  BY <1>0 DEF TypeOK, ReceiverEof, AtR, ReplyAtEof, inVars, servVars, nonbVars
<1>3. ClientShape'
  BY <1>0, <1>1, ClientFacts DEF ClientShape, ReceiverEof, AtR, ReplyAtEof, inVars, servVars, nonbVars
<1>4. FinShape'
  BY <1>0, <1>1, ClientFacts DEF FinShape, ClientShape, ReceiverEof, AtR, ReplyAtEof, inVars, servVars, nonbVars
<1>5. OneLine'
  BY <1>0, <1>1, ClientFacts DEF OneLine, ClientShape, ReceiverEof, AtR, ReplyAtEof, inVars, servVars, nonbVars
<1>6. AllPrinted'
  <2>1. server # "up" /\ server \in {"up", "done", "died"} /\ rbuf = <<>> /\ s2c = <<>> /\ UNCHANGED <<server, client, typed>>
    BY <1>0 DEF TypeOK, ReceiverEof, ReplyAtEof, servVars, inVars
  <2>2. server # "died" => PosRbuf = typed
    BY <1>0, <2>1, DoneMeansAll
  <2> QED
    BY <1>1, <2>1, <2>2 DEF AllPrinted
<1>7. PrematureMeansDied'
  BY <1>0, <1>1, ClientFacts DEF PrematureMeansDied, FinShape, ClientShape, ReceiverEof, AtR, ReplyAtEof,
     inVars, servVars, nonbVars
<1> QED
  BY <1>1, <1>2, <1>3, <1>4, <1>5, <1>6, <1>7 DEF StrInv

LEMMA ReceiverChecksKeeps == StrInv /\ ReceiverChecks => StrInv'
<1> SUFFICES ASSUME StrInv, ReceiverChecks PROVE StrInv'
  OBVIOUS
<1>0. TypeOK /\ BackRuns /\ AwayRuns /\ ClientShape /\ FinShape /\ OneLine /\ AllPrinted /\ PrematureMeansDied
  BY DEF StrInv
<1>1. BackRuns' /\ AwayRuns' /\ Trait' = Trait /\ PosRbuf' = PosRbuf
  BY FlowKept DEF ReceiverChecks, inVars, servVars, nonbVars
<1>2. TypeOK'
  BY <1>0 DEF TypeOK, ReceiverChecks, AtR, EofVerdict, inVars, servVars, nonbVars
<1>3. ClientShape'
  BY <1>0, <1>1, ClientFacts DEF ClientShape, ReceiverChecks, AtR, EofVerdict, inVars, servVars, nonbVars
<1>4. FinShape'
  BY <1>0, <1>1, ClientFacts DEF FinShape, ClientShape, ReceiverChecks, AtR, EofVerdict, inVars, servVars,
     nonbVars
<1>5. OneLine'
  BY <1>0, <1>1, ClientFacts DEF OneLine, ClientShape, ReceiverChecks, AtR, EofVerdict, inVars, servVars,
     nonbVars
<1>a. server # "up" /\ rbuf = <<>> /\ s2c = <<>>
  BY <1>0 DEF ReceiverChecks, AtR, FinShape
<1>b. server \in {"up", "done", "died"} /\ UNCHANGED <<server, client, typed, spc>> /\ stdineof \in BOOLEAN
  BY <1>0 DEF TypeOK, ReceiverChecks, servVars, inVars
<1>6. AllPrinted'
  <2>1. server # "died" => PosRbuf = typed
    BY <1>0, <1>a, <1>b, DoneMeansAll
  <2> QED
    BY <1>1, <1>b, <2>1 DEF AllPrinted
<1>7. PrematureMeansDied'
  <2>1. server # "died" => cfin
    BY <1>0, <1>a, <1>b DEF FinShape
  <2>2. ended' = "premature" => ~stdineof
    BY <1>b DEF ReceiverChecks, EofVerdict
  <2>3. cfin /\ ~stdineof => Trait.kind = "two" /\ spc = "mark"
    BY <1>0, ClientFacts DEF FinShape, OneLine
  <2>4. client = "strclithread2"
    BY <1>0 DEF ReceiverChecks, AtS, AtR, ClientShape
  <2> QED
    BY <1>b, <2>1, <2>2, <2>3, <2>4 DEF PrematureMeansDied
<1> QED
  BY <1>1, <1>2, <1>3, <1>4, <1>5, <1>6, <1>7 DEF StrInv

LEMMA ReceiverFailsKeeps == StrInv /\ ReceiverFails => StrInv'
<1> SUFFICES ASSUME StrInv, ReceiverFails PROVE StrInv'
  OBVIOUS
<1>0. TypeOK /\ BackRuns /\ AwayRuns /\ ClientShape /\ FinShape /\ OneLine /\ AllPrinted /\ PrematureMeansDied
  BY DEF StrInv
<1>1. BackRuns' /\ AwayRuns' /\ Trait' = Trait /\ PosRbuf' = PosRbuf
  BY FlowKept DEF ReceiverFails, inVars, servVars, nonbVars
<1>2. TypeOK'
  BY <1>0 DEF TypeOK, ReceiverFails, AtR, inVars, servVars, nonbVars
<1>3. ClientShape'
  BY <1>0, <1>1, ClientFacts DEF ClientShape, ReceiverFails, AtR, inVars, servVars, nonbVars
<1>4. FinShape'
  BY <1>0, <1>1, ClientFacts DEF FinShape, ClientShape, ReceiverFails, AtR, inVars, servVars, nonbVars
<1>5. OneLine'
  BY <1>0, <1>1, ClientFacts DEF OneLine, ClientShape, ReceiverFails, AtR, inVars, servVars, nonbVars
<1>6. AllPrinted'
  BY <1>0, <1>1, ClientFacts, BufferFacts DEF AllPrinted, AwayRuns, FinShape, ClientShape, OneLine,
     ReceiverFails, AtR, inVars, servVars, nonbVars, PosFr, PosRbuf, PosS2c, PosSbuf, PosC2s, PosObuf,
     PosIbuf, PosInq
<1>7. PrematureMeansDied'
  BY <1>0, <1>1, ClientFacts DEF PrematureMeansDied, FinShape, ClientShape, ReceiverFails, AtR, inVars,
     servVars, nonbVars
<1> QED
  BY <1>1, <1>2, <1>3, <1>4, <1>5, <1>6, <1>7 DEF StrInv

LEMMA InputEofKeeps == StrInv /\ InputEof => StrInv'
<1> SUFFICES ASSUME StrInv, InputEof PROVE StrInv'
  OBVIOUS
<1>0. TypeOK /\ BackRuns /\ AwayRuns /\ ClientShape /\ FinShape /\ OneLine /\ AllPrinted /\ PrematureMeansDied
  BY DEF StrInv
<1>1. BackRuns' /\ AwayRuns' /\ Trait' = Trait /\ PosRbuf' = PosRbuf
  BY FlowKept DEF InputEof, inVars, servVars, nonbVars
<1>2. TypeOK'
  BY <1>0 DEF TypeOK, InputEof, AtS, InputAtEof, ReturnsAtEof, inVars, servVars, nonbVars
<1>3. ClientShape'
  BY <1>0, <1>1, ClientFacts DEF ClientShape, InputEof, AtS, InputAtEof, ReturnsAtEof, inVars, servVars,
     nonbVars
<1>4. FinShape'
  BY <1>0, <1>1, ClientFacts DEF FinShape, ClientShape, InputEof, AtS, InputAtEof, ReturnsAtEof, inVars,
     servVars, nonbVars
<1>5. OneLine'
  BY <1>0, <1>1, ClientFacts DEF OneLine, ClientShape, InputEof, AtS, InputAtEof, ReturnsAtEof, inVars,
     servVars, nonbVars
<1>6. AllPrinted'
  BY <1>0, <1>1, ClientFacts, BufferFacts DEF AllPrinted, AwayRuns, FinShape, ClientShape, OneLine, InputEof,
     AtS, InputAtEof, ReturnsAtEof, inVars, servVars, nonbVars, PosFr, PosRbuf, PosS2c, PosSbuf, PosC2s,
     PosObuf, PosIbuf, PosInq
<1>7. PrematureMeansDied'
  BY <1>0, <1>1, ClientFacts DEF PrematureMeansDied, FinShape, ClientShape, InputEof, AtS, InputAtEof,
     ReturnsAtEof, inVars, servVars, nonbVars
<1> QED
  BY <1>1, <1>2, <1>3, <1>4, <1>5, <1>6, <1>7 DEF StrInv

\* All the lines are somewhere between the way back and stdin.
LEMMA AllAhead ==
    ASSUME TypeOK, AwayRuns, server # "died"
    PROVE  PosSbuf + Len(sbuf) + Len(c2s) + Len(obuf) + Len(ibuf) + Len(inq) = typed
<1>1. PosInq + Len(inq) = typed
  BY DEF AwayRuns
<1> QED
  BY <1>1, BufferFacts, Positions DEF PosInq, PosIbuf, PosObuf, PosC2s

\* One line goes from the front of a buffer to the end of the one before it.
LEMMA MoveOne ==
    ASSUME NEW s \in LineSeq, NEW t \in LineSeq, t # <<>>
    PROVE  /\ Append(s, Head(t)) \in LineSeq /\ Tail(t) \in LineSeq
           /\ Len(Append(s, Head(t))) = Len(s) + 1 /\ Len(Tail(t)) = Len(t) - 1 /\ Len(t) > 0
           /\ \A a \in Nat : RunAt(s, a) /\ RunAt(t, a + Len(s))
                 => RunAt(Append(s, Head(t)), a) /\ RunAt(Tail(t), a + Len(s) + 1)
<1>1. Head(t) \in 1 .. Lines /\ Tail(t) \in LineSeq /\ Len(Tail(t)) = Len(t) - 1 /\ Len(t) > 0
  BY TailOf DEF LineSeq
<1>2. Append(s, Head(t)) \in LineSeq /\ Len(Append(s, Head(t))) = Len(s) + 1 /\ Len(s) \in Nat
  BY <1>1, AppendOf DEF LineSeq
<1>3. ASSUME NEW a \in Nat, RunAt(s, a), RunAt(t, a + Len(s))
      PROVE  RunAt(Append(s, Head(t)), a) /\ RunAt(Tail(t), a + Len(s) + 1)
  <2>1. a + Len(s) \in Nat
    BY <1>2
  <2>2. Head(t) = a + Len(s) + 1 /\ RunAt(Tail(t), a + Len(s) + 1)
    BY <1>3, <2>1, RunTail
  <2> QED
    BY <1>1, <1>3, <2>2, RunAppend
<1> QED
  BY <1>1, <1>2, <1>3

\* The first n lines of a buffer go to the end of the one before it.
LEMMA MoveManyLens ==
    ASSUME NEW s \in LineSeq, NEW t \in LineSeq, NEW n \in Nat
    PROVE  /\ s \o First(t, n) \in LineSeq /\ Rest(t, n) \in LineSeq
           /\ Len(s \o First(t, n)) = Len(s) + Len(First(t, n))
           /\ Len(Rest(t, n)) = Len(t) - Len(First(t, n))
           /\ Len(First(t, n)) = (IF n < Len(t) THEN n ELSE Len(t))
<1>1. /\ First(t, n) \in LineSeq /\ Rest(t, n) \in LineSeq
      /\ Len(First(t, n)) = (IF n < Len(t) THEN n ELSE Len(t))
      /\ Len(Rest(t, n)) = Len(t) - Len(First(t, n))
  BY SplitOf
<1>2. s \o First(t, n) \in LineSeq /\ Len(s \o First(t, n)) = Len(s) + Len(First(t, n))
  BY <1>1, ConcatProperties DEF LineSeq
<1> QED
  BY <1>1, <1>2

LEMMA MoveMany ==
    ASSUME NEW s \in LineSeq, NEW t \in LineSeq, NEW n \in Nat, NEW a \in Nat, RunAt(s, a), RunAt(t, a + Len(s))
    PROVE  RunAt(s \o First(t, n), a) /\ RunAt(Rest(t, n), a + Len(s) + Len(First(t, n)))
<1>1. a + Len(s) \in Nat /\ First(t, n) \in LineSeq
  BY SplitOf, LineLens DEF LineSeq
<1>2. RunAt(First(t, n), a + Len(s)) /\ RunAt(Rest(t, n), a + Len(s) + Len(First(t, n)))
  BY <1>1, RunSplit
<1> QED
  BY <1>1, <1>2, RunCat

\* str_echo() takes a line from its buffer and sends it back.
LEMMA ServerWritesFlow ==
    ASSUME StrInv, ServerWrites, UNCHANGED <<typed, inq, ibuf, obuf, rbuf, fr, out>>
    PROVE  /\ BackRuns' /\ AwayRuns'
           /\ s2c' \in LineSeq /\ sbuf' \in LineSeq /\ Len(s2c') = Len(s2c) + 1 /\ Len(sbuf') = Len(sbuf) - 1
<1>0. TypeOK /\ BackRuns /\ AwayRuns /\ server = "up" /\ sbuf # <<>> /\ c2s' = c2s /\ server' = server
      /\ s2c' = Append(s2c, Head(sbuf)) /\ sbuf' = Tail(sbuf)
  BY DEF StrInv, ServerWrites
<1>1. /\ RunAt(out, 0) /\ RunAt(fr, PosFr) /\ RunAt(rbuf, PosRbuf) /\ RunAt(s2c, PosS2c) /\ RunAt(sbuf, PosSbuf)
      /\ RunAt(c2s, PosC2s) /\ RunAt(obuf, PosObuf) /\ RunAt(ibuf, PosIbuf)
      /\ RunAt(inq, PosInq) /\ PosInq + Len(inq) = typed
  BY <1>0 DEF BackRuns, AwayRuns
<1>2. PosSbuf = PosS2c + Len(s2c) /\ PosS2c \in Nat
  BY <1>0, Positions DEF PosSbuf
<1>3. /\ s2c' \in LineSeq /\ sbuf' \in LineSeq /\ Len(s2c') = Len(s2c) + 1 /\ Len(sbuf') = Len(sbuf) - 1 /\ Len(sbuf) > 0
      /\ RunAt(s2c', PosS2c) /\ RunAt(sbuf', PosSbuf + 1)
  BY <1>0, <1>1, <1>2, MoveOne, BufferFacts
<1>7. /\ PosFr' = PosFr /\ PosRbuf' = PosRbuf /\ PosS2c' = PosS2c /\ PosSbuf' = PosSbuf + 1 /\ PosC2s' = PosC2s
      /\ PosObuf' = PosObuf /\ PosIbuf' = PosIbuf /\ PosInq' = PosInq
  BY <1>0, <1>3, BufferFacts DEF PosFr, PosRbuf, PosS2c, PosSbuf, PosC2s, PosObuf, PosIbuf, PosInq
<1>8. PosSbuf + 1 <= typed
  <2>1. PosSbuf + Len(sbuf) + Len(c2s) + Len(obuf) + Len(ibuf) + Len(inq) = typed
    BY <1>0, AllAhead
  <2>2. PosSbuf \in Nat /\ typed \in Nat /\ Len(sbuf) \in Nat /\ Len(c2s) \in Nat /\ Len(obuf) \in Nat /\ Len(ibuf) \in Nat /\ Len(inq) \in Nat
    BY <1>0, BufferFacts, Positions
  <2>3. Len(sbuf) > 0
    BY <1>3
  <2> QED
    BY <2>1, <2>2, <2>3
<1> QED
  BY <1>0, <1>1, <1>3, <1>7, <1>8 DEF BackRuns, AwayRuns

\* str_echo() reads what there is into its buffer.
LEMMA ServerReadsFlow ==
    ASSUME StrInv, ServerReads, UNCHANGED <<typed, inq, ibuf, obuf, rbuf, fr, out>>
    PROVE  /\ BackRuns' /\ AwayRuns'
           /\ c2s' \in LineSeq /\ sbuf' \in LineSeq /\ Len(sbuf') + Len(c2s') = Len(c2s) /\ Len(c2s') <= Len(c2s)
<1>0. TypeOK /\ BackRuns /\ AwayRuns /\ server = "up" /\ sbuf = <<>> /\ s2c' = s2c /\ server' = server
      /\ sbuf' = First(c2s, MaxRead) /\ c2s' = Rest(c2s, MaxRead) /\ MaxRead \in Nat
  BY StrCliAssumption DEF StrInv, ServerReads
<1>1. /\ RunAt(out, 0) /\ RunAt(fr, PosFr) /\ RunAt(rbuf, PosRbuf) /\ RunAt(s2c, PosS2c) /\ RunAt(c2s, PosC2s)
      /\ RunAt(obuf, PosObuf) /\ RunAt(ibuf, PosIbuf)
      /\ RunAt(inq, PosInq) /\ PosInq + Len(inq) = typed /\ PosSbuf <= typed
  BY <1>0 DEF BackRuns, AwayRuns
<1>2. PosC2s = PosSbuf /\ PosSbuf \in Nat
  BY <1>0, Positions, BufferFacts DEF PosC2s
<1>3. /\ sbuf' \in LineSeq /\ c2s' \in LineSeq /\ Len(c2s') = Len(c2s) - Len(sbuf') /\ Len(sbuf') \in Nat /\ Len(sbuf') <= Len(c2s)
  <2>1. PICK t, u : t = First(c2s, MaxRead) /\ u = Rest(c2s, MaxRead)
    OBVIOUS
  <2>2. /\ t \in LineSeq /\ u \in LineSeq /\ Len(c2s) \in Nat
        /\ Len(t) = (IF MaxRead < Len(c2s) THEN MaxRead ELSE Len(c2s)) /\ Len(u) = Len(c2s) - Len(t)
    BY <1>0, <2>1, SplitOf, BufferFacts
  <2>3. sbuf' = t /\ c2s' = u
    BY <1>0, <2>1
  <2> QED
    BY <1>0, <2>2, <2>3
<1>4. RunAt(sbuf', PosSbuf) /\ RunAt(c2s', PosSbuf + Len(sbuf'))
  BY <1>0, <1>1, <1>2, RunSplit, BufferFacts
<1>7. /\ PosFr' = PosFr /\ PosRbuf' = PosRbuf /\ PosS2c' = PosS2c /\ PosSbuf' = PosSbuf /\ PosC2s' = PosSbuf + Len(sbuf')
      /\ PosObuf' = PosObuf /\ PosIbuf' = PosIbuf /\ PosInq' = PosInq
  BY <1>0, <1>3, BufferFacts DEF PosFr, PosRbuf, PosS2c, PosSbuf, PosC2s, PosObuf, PosIbuf, PosInq
<1> QED
  BY <1>0, <1>1, <1>3, <1>4, <1>7, BufferFacts DEF BackRuns, AwayRuns

LEMMA ServerStepKeeps == StrInv /\ ServerStep => StrInv'
<1> SUFFICES ASSUME StrInv, ServerStep PROVE StrInv'
  OBVIOUS
<1>0. TypeOK /\ BackRuns /\ AwayRuns /\ ClientShape /\ FinShape /\ OneLine /\ AllPrinted /\ PrematureMeansDied
  BY DEF StrInv
<1>1. /\ ended = "no" /\ UNCHANGED <<client, isfile, typed, ineof, inq, ibuf, obuf, oused, fr, fused, cfin, rst, rbuf,
                                    out, spc, rpc, rset, stdineof, ended>>
  BY DEF ServerStep, inVars, nonbVars
<1>2. Trait' = Trait /\ server = "up"
  BY <1>1 DEF Trait, ServerStep, ServerReads, ServerWrites, ServerEof
<1>3. ClientShape' /\ AllPrinted' /\ PrematureMeansDied'
  BY <1>0, <1>1, <1>2 DEF ClientShape, AllPrinted, PrematureMeansDied
<1>4. rpc # "check"
  BY <1>0, <1>2 DEF FinShape
<1>5. CASE ServerReads
  <2>1. /\ BackRuns' /\ AwayRuns' /\ c2s' \in LineSeq /\ sbuf' \in LineSeq
        /\ Len(sbuf') + Len(c2s') = Len(c2s) /\ Len(c2s') <= Len(c2s)
    BY <1>1, <1>5, ServerReadsFlow
  <2>2. Len(c2s') \in Nat /\ Len(sbuf') \in Nat /\ Len(sbuf) = 0 /\ s2c' = s2c /\ server' = server
    BY <1>0, <1>5, <2>1, LineLens, BufferFacts DEF LineSeq, ServerReads
  <2>3. Len(c2s') <= Cap
    BY <1>0, <2>1, <2>2, BufferFacts, StrCliAssumption DEF TypeOK
  <2>4. TypeOK'
    BY <1>0, <1>1, <2>1, <2>2, <2>3 DEF TypeOK
  <2>5. FinShape'
    BY <1>0, <1>1, <1>2, <1>4, <2>2 DEF FinShape
  <2>6. OneLine'
    BY <1>0, <1>1, <1>2, <2>1, <2>2, BufferFacts DEF OneLine
  <2> QED
    BY <1>3, <2>1, <2>4, <2>5, <2>6 DEF StrInv
<1>6. CASE ServerWrites
  <2>1. /\ BackRuns' /\ AwayRuns' /\ s2c' \in LineSeq /\ sbuf' \in LineSeq
        /\ Len(s2c') = Len(s2c) + 1 /\ Len(sbuf') = Len(sbuf) - 1
    BY <1>1, <1>6, ServerWritesFlow
  <2>2. c2s' = c2s /\ server' = server /\ Len(s2c) < Cap
    BY <1>6 DEF ServerWrites
  <2>3. Len(s2c') <= Cap
    BY <1>0, <2>1, <2>2, BufferFacts, StrCliAssumption
  <2>4. TypeOK'
    BY <1>0, <1>1, <2>1, <2>2, <2>3 DEF TypeOK
  <2>5. FinShape'
    BY <1>0, <1>1, <1>2, <1>4, <2>2 DEF FinShape
  <2>6. OneLine'
    BY <1>0, <1>1, <1>2, <2>1, <2>2, BufferFacts DEF OneLine
  <2> QED
    BY <1>3, <2>1, <2>4, <2>5, <2>6 DEF StrInv
<1>7. CASE ServerEof
  <2>1. UNCHANGED <<c2s, sbuf, s2c>> /\ server' = "done" /\ sbuf = <<>> /\ c2s = <<>> /\ cfin
    BY <1>7 DEF ServerEof
  <2>2. BackRuns'
    BY <1>0, <1>1, <2>1 DEF BackRuns, RunAt, PosFr, PosRbuf, PosS2c, PosSbuf
  <2>3. AwayRuns'
    BY <1>0, <1>1, <1>2, <2>1 DEF AwayRuns, RunAt, PosFr, PosRbuf, PosS2c, PosSbuf, PosC2s, PosObuf, PosIbuf,
       PosInq
  <2>4. TypeOK'
    BY <1>0, <1>1, <2>1 DEF TypeOK
  <2>5. FinShape'
    BY <1>0, <1>1, <1>2, <1>4, <2>1 DEF FinShape
  <2>6. OneLine'
    BY <1>0, <1>1, <1>2, <2>1 DEF OneLine
  <2> QED
    BY <1>3, <2>2, <2>3, <2>4, <2>5, <2>6 DEF StrInv
<1> QED
  BY <1>5, <1>6, <1>7 DEF ServerStep

LEMMA EchoServerDiesKeeps == StrInv /\ EchoServerDies => StrInv'
<1> SUFFICES ASSUME StrInv, EchoServerDies PROVE StrInv'
  OBVIOUS
<1>0. TypeOK /\ BackRuns /\ AwayRuns /\ ClientShape /\ FinShape /\ OneLine /\ AllPrinted /\ PrematureMeansDied
  BY DEF StrInv
<1>1. /\ ended = "no" /\ UNCHANGED <<client, isfile, typed, ineof, inq, ibuf, obuf, oused, fr, fused, cfin, s2c, rbuf,
                                    out, spc, rpc, rset, stdineof, ended>>
      /\ server = "up" /\ server' = "died" /\ sbuf' = <<>> /\ c2s' = <<>> /\ rst' \in BOOLEAN
  BY DEF EchoServerDies, inVars, nonbVars
<1>2. Trait' = Trait
  BY <1>1 DEF Trait
<1>3. ClientShape' /\ AllPrinted' /\ PrematureMeansDied' /\ OneLine'
  BY <1>0, <1>1, <1>2 DEF ClientShape, AllPrinted, PrematureMeansDied, OneLine
<1>4. FinShape'
  BY <1>0, <1>1, <1>2 DEF FinShape
<1>5. BackRuns' /\ AwayRuns'
  BY <1>0, <1>1 DEF BackRuns, AwayRuns, RunAt, PosFr, PosRbuf, PosS2c, PosSbuf
<1>6. <<>> \in LineSeq /\ Len(<<>>) = 0
  BY DEF LineSeq
<1>7. TypeOK'
  BY <1>0, <1>1, <1>6, StrCliAssumption DEF TypeOK
<1> QED
  BY <1>3, <1>4, <1>5, <1>7 DEF StrInv

LEMMA UserKeeps == StrInv /\ User => StrInv'
<1> SUFFICES ASSUME StrInv, User PROVE StrInv'
  OBVIOUS
<1>0. TypeOK /\ BackRuns /\ AwayRuns /\ ClientShape /\ FinShape /\ OneLine /\ AllPrinted /\ PrematureMeansDied
  BY DEF StrInv
<1>1. /\ ended = "no" /\ ~ineof /\ UNCHANGED <<client, isfile, ibuf, obuf, oused, fr, fused, c2s, cfin, server, sbuf, s2c,
                                    rst, rbuf, out, spc, rpc, rset, stdineof, ended>>
  BY DEF User, servVars, nonbVars
<1>2. Trait' = Trait
  BY <1>1 DEF Trait
<1>3. ClientShape' /\ AllPrinted' /\ PrematureMeansDied' /\ OneLine'
  BY <1>0, <1>1, <1>2 DEF ClientShape, AllPrinted, PrematureMeansDied, OneLine
<1>4. CASE typed < Lines /\ typed' = typed + 1 /\ inq' = Append(inq, typed + 1) /\ ineof' = ineof
  <2>1. typed + 1 \in 1 .. Lines /\ typed' \in 0 .. Lines
    BY <1>0, <1>4, BufferFacts, StrCliAssumption DEF TypeOK
  <2>2. inq' \in LineSeq /\ Len(inq') = Len(inq) + 1 /\ inq' # <<>>
    <3>1. inq \in Seq(1 .. Lines)
      BY <1>0, BufferFacts DEF LineSeq
    <3>2. Append(inq, typed + 1) \in Seq(1 .. Lines) /\ Append(inq, typed + 1) # <<>> /\ Len(Append(inq, typed + 1)) = Len(inq) + 1
      BY <2>1, <3>1, AppendOf
    <3> QED
      BY <1>4, <3>2 DEF LineSeq
  <2>3. TypeOK'
    BY <1>0, <1>1, <1>4, <2>1, <2>2 DEF TypeOK
  <2>4. FinShape'
    BY <1>0, <1>1, <1>2, <1>4, <2>2 DEF FinShape
  <2>5. PosSbuf' = PosSbuf /\ PosFr' = PosFr /\ PosRbuf' = PosRbuf /\ PosS2c' = PosS2c
        /\ PosC2s' = PosC2s /\ PosObuf' = PosObuf /\ PosIbuf' = PosIbuf /\ PosInq' = PosInq
    BY <1>1 DEF PosFr, PosRbuf, PosS2c, PosSbuf, PosC2s, PosObuf, PosIbuf, PosInq
  <2>6. BackRuns'
    <3>1. PosSbuf <= typed + 1
      BY <1>0, BufferFacts, Positions, SMTT(30) DEF BackRuns
    <3> QED
      BY <1>0, <1>1, <1>4, <2>5, <3>1 DEF BackRuns
  <2>7. ASSUME server # "died" PROVE RunAt(inq', PosInq) /\ PosInq + Len(inq') = typed + 1
    <3>1. RunAt(inq, PosInq) /\ PosInq + Len(inq) = typed
      BY <1>0, <2>7 DEF AwayRuns
    <3>2. typed + 1 = PosInq + Len(inq) + 1 /\ PosInq \in Nat /\ Len(inq) \in Nat
      BY <1>0, <3>1, BufferFacts, Positions
    <3> QED
      BY <1>0, <1>4, <2>1, <2>2, <3>1, <3>2, RunAppend, BufferFacts, SMTT(30)
  <2>8. AwayRuns'
    BY <1>0, <1>1, <1>4, <2>5, <2>7 DEF AwayRuns
  <2> QED
    BY <1>3, <2>3, <2>4, <2>6, <2>8 DEF StrInv
<1>5. CASE ineof' = TRUE /\ UNCHANGED <<typed, inq>>
  <2>1. BackRuns' /\ AwayRuns'
    BY <1>1, <1>5, FlowKept
  <2>2. TypeOK' /\ FinShape'
    BY <1>0, <1>1, <1>2, <1>5 DEF TypeOK, FinShape
  <2> QED
    BY <1>3, <2>1, <2>2 DEF StrInv
<1> QED
  BY <1>4, <1>5 DEF User

LEMMA RunEmpty == <<>> \in LineSeq /\ Len(<<>>) = 0 /\ \A a : RunAt(<<>>, a)
  BY DEF LineSeq, RunAt

\* The way out is what it was when nothing behind the server's buffer moved.
LEMMA AwayKept ==
    ASSUME AwayRuns, PosSbuf' = PosSbuf, UNCHANGED <<typed, inq, ibuf, obuf, c2s, server, sbuf>>
    PROVE  AwayRuns'
<1>1. PosC2s' = PosC2s /\ PosObuf' = PosObuf /\ PosIbuf' = PosIbuf /\ PosInq' = PosInq
  BY DEF PosC2s, PosObuf, PosIbuf, PosInq
<1> QED
  BY <1>1 DEF AwayRuns

\* The way back is what it was when the step is on the way out.
LEMMA BackKept ==
    ASSUME BackRuns, UNCHANGED <<out, fr, rbuf, s2c, typed>>
    PROVE  BackRuns' /\ PosSbuf' = PosSbuf /\ PosRbuf' = PosRbuf
<1>1. PosFr' = PosFr /\ PosRbuf' = PosRbuf /\ PosS2c' = PosS2c /\ PosSbuf' = PosSbuf
  BY DEF PosFr, PosRbuf, PosS2c, PosSbuf
<1> QED
  BY <1>1 DEF BackRuns

\* What readline() or read() returns is printed; the rest waits behind it.
LEMMA TakeReplyFlow ==
    ASSUME StrInv, TakeReply, Trait.kind # "nonb", UNCHANGED <<typed, inq, ibuf, obuf, c2s, server, sbuf, fr>>
    PROVE  /\ BackRuns' /\ AwayRuns' /\ out' \in LineSeq /\ rbuf' \in LineSeq /\ s2c' \in LineSeq
           /\ Len(s2c') <= Len(s2c)
           /\ ~Trait.stdio => rbuf' = rbuf
           /\ Trait.stdio => Len(rbuf') + Len(s2c') = Len(rbuf) + Len(s2c) - 1
<1>0. TypeOK /\ BackRuns /\ AwayRuns /\ fr = <<>> /\ fr' = <<>> /\ (~Trait.stdio => rbuf = <<>>)
  BY DEF StrInv, ClientShape
<1>1. /\ out \in LineSeq /\ rbuf \in LineSeq /\ s2c \in LineSeq
      /\ Len(out) \in Nat /\ Len(rbuf) \in Nat /\ Len(s2c) \in Nat /\ 0 \in Nat /\ 0 + Len(out) = Len(out)
  BY <1>0, BufferFacts
<1>2. PosFr = Len(out) /\ PosRbuf = Len(out) /\ PosS2c = Len(out) + Len(rbuf) /\ PosSbuf = Len(out) + Len(rbuf) + Len(s2c)
  BY <1>0, <1>1 DEF PosFr, PosRbuf, PosS2c, PosSbuf
<1>3. RunAt(out, 0) /\ RunAt(rbuf, Len(out)) /\ RunAt(s2c, Len(out) + Len(rbuf)) /\ PosSbuf <= typed
  BY <1>0, <1>2 DEF BackRuns
<1>4. ASSUME out' \in LineSeq, rbuf' \in LineSeq, s2c' \in LineSeq,
             RunAt(out', 0), RunAt(rbuf', Len(out')), RunAt(s2c', Len(out') + Len(rbuf')),
             Len(out') + Len(rbuf') + Len(s2c') = Len(out) + Len(rbuf) + Len(s2c)
      PROVE  BackRuns' /\ AwayRuns'
  <2>1. Len(out') \in Nat /\ Len(rbuf') \in Nat /\ Len(s2c') \in Nat
    BY <1>4, LineLens DEF LineSeq
  <2>2. Len(fr') = 0
    BY <1>0
  <2>3. PosFr' = Len(out') /\ PosRbuf' = Len(out') /\ PosS2c' = Len(out') + Len(rbuf') /\ PosSbuf' = PosSbuf
    BY <1>2, <1>4, <2>1, <2>2 DEF PosFr, PosRbuf, PosS2c, PosSbuf
  <2>4. RunAt(fr', PosFr')
    BY <1>0, RunEmpty
  <2> QED
    BY <1>0, <1>3, <1>4, <2>3, <2>4, AwayKept DEF BackRuns
<1>5. CASE Trait.stdio /\ rbuf # <<>>
  <2>1. out' = Append(out, Head(rbuf)) /\ rbuf' = Tail(rbuf) /\ s2c' = s2c
    BY <1>5 DEF TakeReply, ReplySource
  <2>2. /\ out' \in LineSeq /\ rbuf' \in LineSeq /\ Len(out') = Len(out) + 1 /\ Len(rbuf') = Len(rbuf) - 1
        /\ RunAt(out', 0) /\ RunAt(rbuf', Len(out) + 1)
    BY <1>1, <1>3, <1>5, <2>1, MoveOne
  <2>3. Len(out') + Len(rbuf') = Len(out) + Len(rbuf)
    BY <1>1, <2>2
  <2> QED
    BY <1>1, <1>3, <1>4, <1>5, <2>1, <2>2, <2>3
<1>6. CASE Trait.stdio /\ rbuf = <<>>
  <2>1. out' = Append(out, Head(s2c)) /\ rbuf' = Tail(s2c) /\ s2c' = <<>> /\ s2c # <<>> /\ Len(rbuf) = 0
    BY <1>6 DEF TakeReply, ReplySource
  <2>2. RunAt(s2c, 0 + Len(out))
    BY <1>1, <1>3, <2>1
  <2>3. /\ out' \in LineSeq /\ rbuf' \in LineSeq /\ Len(out') = Len(out) + 1 /\ Len(rbuf') = Len(s2c) - 1
        /\ RunAt(out', 0) /\ RunAt(rbuf', Len(out) + 1)
    BY <1>1, <1>3, <2>1, <2>2, MoveOne
  <2>4. s2c' \in LineSeq /\ Len(s2c') = 0 /\ RunAt(s2c', Len(out') + Len(rbuf'))
    BY <2>1, RunEmpty
  <2>5. Len(out') + Len(rbuf') + Len(s2c') = Len(out) + Len(rbuf) + Len(s2c) /\ Len(s2c') <= Len(s2c)
    BY <1>1, <2>1, <2>3, <2>4
  <2>6. Len(rbuf') + Len(s2c') = Len(rbuf) + Len(s2c) - 1
    BY <1>1, <2>1, <2>3, <2>4
  <2> QED
    BY <1>4, <1>6, <2>3, <2>4, <2>5, <2>6
<1>7. CASE ~Trait.stdio
  <2>1. out' = out \o First(s2c, MaxRead) /\ s2c' = Rest(s2c, MaxRead) /\ rbuf' = rbuf /\ rbuf = <<>> /\ Len(rbuf) = 0
    BY <1>0, <1>7 DEF TakeReply
  <2>2. RunAt(s2c, 0 + Len(out)) /\ MaxRead \in Nat
    BY <1>1, <1>3, <2>1, StrCliAssumption
  <2>a. out \in LineSeq /\ s2c \in LineSeq /\ MaxRead \in Nat
    BY <1>1, <2>2
  <2>b. /\ out \o First(s2c, MaxRead) \in LineSeq /\ Rest(s2c, MaxRead) \in LineSeq
        /\ Len(out \o First(s2c, MaxRead)) = Len(out) + Len(First(s2c, MaxRead))
        /\ Len(Rest(s2c, MaxRead)) = Len(s2c) - Len(First(s2c, MaxRead))
        /\ Len(First(s2c, MaxRead)) = (IF MaxRead < Len(s2c) THEN MaxRead ELSE Len(s2c))
    BY <2>a, MoveManyLens
  <2>3. PICK n \in Nat : n = Len(First(s2c, MaxRead)) /\ n <= Len(s2c)
    BY <1>1, <2>2, <2>b
  <2>4. /\ out' \in LineSeq /\ s2c' \in LineSeq /\ Len(out') = Len(out) + n /\ Len(s2c') = Len(s2c) - n
    BY <2>1, <2>b, <2>3
  <2>5. RunAt(out', 0) /\ RunAt(s2c', 0 + Len(out) + n)
    BY <1>1, <1>3, <2>1, <2>2, <2>3, MoveMany
  <2>6. /\ Len(out') + Len(rbuf') + Len(s2c') = Len(out) + Len(rbuf) + Len(s2c) /\ Len(s2c') <= Len(s2c)
        /\ 0 + Len(out) + n = Len(out') + Len(rbuf')
    BY <1>1, <2>1, <2>3, <2>4
  <2>7. RunAt(rbuf', Len(out'))
    BY <2>1, RunEmpty
  <2> QED
    BY <1>1, <1>4, <1>7, <2>1, <2>4, <2>5, <2>6, <2>7
<1> QED
  BY <1>5, <1>6, <1>7

LEMMA HandlesReplyKeeps == StrInv /\ HandlesReply => StrInv'
<1> SUFFICES ASSUME StrInv, HandlesReply PROVE StrInv'
  OBVIOUS
<1>0. TypeOK /\ BackRuns /\ AwayRuns /\ ClientShape /\ FinShape /\ OneLine /\ AllPrinted /\ PrematureMeansDied
  BY DEF StrInv
<1>1. /\ ended = "no" /\ TakeReply /\ spc \in {"sock", "handle"} /\ rset' = rset \ {"sock"}
      /\ UNCHANGED <<client, isfile, typed, ineof, inq, ibuf, obuf, oused, fr, fused, c2s, cfin, server, sbuf,
                     rst, rpc, stdineof, ended>>
  BY DEF HandlesReply, AtS, inVars, nonbVars, servVars
<1>a. spc' = IF spc = "sock" THEN "in" ELSE "handle"
  BY DEF HandlesReply
<1>2. Trait' = Trait
  BY <1>1 DEF Trait
<1>3. Trait.kind \in {"lockstep", "select"} /\ (spc = "sock" <=> Trait.kind = "lockstep")
  BY <1>0, <1>1, ClientFacts DEF ClientShape
<1>4. /\ BackRuns' /\ AwayRuns' /\ out' \in LineSeq /\ rbuf' \in LineSeq /\ s2c' \in LineSeq
      /\ Len(s2c') <= Len(s2c)
      /\ ~Trait.stdio => rbuf' = rbuf
      /\ Trait.stdio => Len(rbuf') + Len(s2c') = Len(rbuf) + Len(s2c) - 1
  BY <1>1, <1>3, TakeReplyFlow
<1>b. Len(s2c') \in Nat /\ Len(rbuf') \in Nat
  BY <1>4, LineLens DEF LineSeq
<1>c. Len(s2c') <= Cap
  BY <1>0, <1>4, <1>b, BufferFacts, StrCliAssumption DEF TypeOK
<1>5. TypeOK'
  BY <1>0, <1>1, <1>a, <1>4, <1>c DEF TypeOK
<1>6. ClientShape'
  BY <1>0, <1>1, <1>a, <1>2, <1>3, <1>4 DEF ClientShape
<1>7. FinShape'
  BY <1>0, <1>1, <1>a, <1>2, <1>3 DEF FinShape, ClientShape
<1>8. OneLine'
  BY <1>0, <1>1, <1>a, <1>2, <1>3, <1>4, <1>b, BufferFacts, ClientFacts DEF OneLine
<1>9. AllPrinted' /\ PrematureMeansDied'
  BY <1>1 DEF AllPrinted, PrematureMeansDied
<1> QED
  BY <1>4, <1>5, <1>6, <1>7, <1>8, <1>9 DEF StrInv

LEMMA ReceiverPrintsKeeps == StrInv /\ ReceiverPrints => StrInv'
<1> SUFFICES ASSUME StrInv, ReceiverPrints PROVE StrInv'
  OBVIOUS
<1>0. TypeOK /\ BackRuns /\ AwayRuns /\ ClientShape /\ FinShape /\ OneLine /\ AllPrinted /\ PrematureMeansDied
  BY DEF StrInv
<1>1. /\ ended = "no" /\ TakeReply /\ rpc = "read"
      /\ UNCHANGED <<client, isfile, typed, ineof, inq, ibuf, obuf, oused, fr, fused, c2s, cfin, server, sbuf,
                     rst, spc, rpc, rset, stdineof, ended>>
  BY DEF ReceiverPrints, AtR, inVars, nonbVars, servVars
<1>2. Trait' = Trait
  BY <1>1 DEF Trait
<1>3. Trait.kind = "two" /\ Trait.stdio
  BY <1>0, <1>1, ClientFacts DEF ClientShape
<1>4. /\ BackRuns' /\ AwayRuns' /\ out' \in LineSeq /\ rbuf' \in LineSeq /\ s2c' \in LineSeq
      /\ Len(s2c') <= Len(s2c)
  BY <1>1, <1>3, TakeReplyFlow
<1>b. Len(s2c') \in Nat
  BY <1>4, LineLens DEF LineSeq
<1>c. Len(s2c') <= Cap
  BY <1>0, <1>4, <1>b, BufferFacts, StrCliAssumption DEF TypeOK
<1>5. TypeOK'
  BY <1>0, <1>1, <1>4, <1>c DEF TypeOK
<1>6. ClientShape'
  BY <1>0, <1>1, <1>2, <1>3, <1>4 DEF ClientShape
<1>7. FinShape'
  BY <1>0, <1>1, <1>2, <1>3 DEF FinShape
<1>8. OneLine' /\ AllPrinted' /\ PrematureMeansDied'
  BY <1>1, <1>2, <1>3 DEF OneLine, AllPrinted, PrematureMeansDied
<1> QED
  BY <1>4, <1>5, <1>6, <1>7, <1>8 DEF StrInv

LEMMA RunOne ==
    ASSUME NEW x \in 1 .. Lines
    PROVE  <<x>> \in LineSeq /\ Len(<<x>>) = 1 /\ \A a : x = a + 1 => RunAt(<<x>>, a)
<1>1. <<x>> \in LineSeq /\ Len(<<x>>) = 1
  BY DEF LineSeq
<1>2. <<x>>[1] = x /\ 1 .. 1 = {1}
  OBVIOUS
<1> QED
  BY <1>1, <1>2 DEF RunAt

\* What fgets() or read() returns waits to be written; the rest of the input stays behind it.
LEMMA TakeInputFlow ==
    ASSUME StrInv, TakeInput, obuf = <<>>, UNCHANGED <<typed, c2s, server, sbuf, s2c, rbuf, fr, out>>
    PROVE  /\ BackRuns' /\ AwayRuns' /\ obuf' \in LineSeq /\ ibuf' \in LineSeq /\ inq' \in LineSeq
           /\ obuf' # <<>> /\ (ibuf # <<>> \/ inq # <<>>) /\ (inq = <<>> => inq' = <<>>)
           /\ ~Trait.stdio => ibuf' = ibuf
           /\ Trait.stdio => Len(obuf') = 1
<1>0. TypeOK /\ BackRuns /\ AwayRuns /\ (~Trait.stdio => ibuf = <<>>)
  BY DEF StrInv, ClientShape
<1>1. /\ inq \in LineSeq /\ ibuf \in LineSeq /\ obuf \in LineSeq /\ Len(inq) \in Nat /\ Len(ibuf) \in Nat /\ Len(obuf) = 0
      /\ PosObuf \in Nat
  BY <1>0, BufferFacts, Positions
<1>2. PosIbuf = PosObuf /\ PosInq = PosObuf + Len(ibuf)
  BY <1>1 DEF PosIbuf, PosInq
<1>3. BackRuns' /\ PosObuf' = PosObuf
  <2>1. BackRuns' /\ PosSbuf' = PosSbuf
    BY <1>0, BackKept
  <2> QED
    BY <2>1 DEF PosObuf, PosC2s
<1>4. ASSUME obuf' \in LineSeq, ibuf' \in LineSeq, inq' \in LineSeq,
             server # "died" => /\ RunAt(obuf', PosObuf) /\ RunAt(ibuf', PosObuf + Len(obuf'))
                                /\ RunAt(inq', PosObuf + Len(obuf') + Len(ibuf')),
             Len(obuf') + Len(ibuf') + Len(inq') = Len(ibuf) + Len(inq)
      PROVE  AwayRuns'
  <2>1. Len(obuf') \in Nat /\ Len(ibuf') \in Nat /\ Len(inq') \in Nat
    BY <1>4, LineLens DEF LineSeq
  <2>2. PosIbuf' = PosObuf + Len(obuf') /\ PosInq' = PosObuf + Len(obuf') + Len(ibuf')
    BY <1>3 DEF PosIbuf, PosInq
  <2>3. PosInq' + Len(inq') = PosInq + Len(inq)
    BY <1>1, <1>2, <1>4, <2>1, <2>2
  <2>4. PosSbuf' = PosSbuf /\ PosC2s' = PosC2s
    BY <1>0, BackKept DEF PosC2s
  <2> QED
    BY <1>0, <1>3, <1>4, <2>2, <2>3, <2>4 DEF AwayRuns
<1>r. server # "died" => RunAt(ibuf, PosObuf) /\ RunAt(inq, PosObuf + Len(ibuf))
  BY <1>0, <1>2 DEF AwayRuns
<1>5. CASE Trait.stdio /\ ibuf # <<>>
  <2>1. obuf' = <<Head(ibuf)>> /\ ibuf' = Tail(ibuf) /\ inq' = inq
    BY <1>5 DEF TakeInput
  <2>2. /\ Head(ibuf) \in 1 .. Lines /\ Tail(ibuf) \in LineSeq /\ Len(Tail(ibuf)) = Len(ibuf) - 1
    BY <1>1, <1>5, TailOf DEF LineSeq
  <2>3. server # "died" => Head(ibuf) = PosObuf + 1 /\ RunAt(Tail(ibuf), PosObuf + 1)
    BY <1>1, <1>5, <1>r, RunTail
  <2>4. obuf' \in LineSeq /\ Len(obuf') = 1 /\ (server # "died" => RunAt(obuf', PosObuf)) /\ obuf' # <<>>
    BY <2>1, <2>2, <2>3, RunOne
  <2>5. PosObuf + 1 + (Len(ibuf) - 1) = PosObuf + Len(ibuf) /\ 1 + (Len(ibuf) - 1) + Len(inq) = Len(ibuf) + Len(inq)
    BY <1>1
  <2> QED
    BY <1>1, <1>3, <1>4, <1>5, <1>r, <2>1, <2>2, <2>3, <2>4, <2>5
<1>6. CASE Trait.stdio /\ ibuf = <<>>
  <2>1. obuf' = <<Head(inq)>> /\ ibuf' = Tail(inq) /\ inq' = <<>> /\ inq # <<>> /\ Len(ibuf) = 0
    BY <1>6 DEF TakeInput
  <2>2. /\ Head(inq) \in 1 .. Lines /\ Tail(inq) \in LineSeq /\ Len(Tail(inq)) = Len(inq) - 1
    BY <1>1, <2>1, TailOf DEF LineSeq
  <2>3. server # "died" => Head(inq) = PosObuf + 1 /\ RunAt(Tail(inq), PosObuf + 1)
    <3>1. PosObuf + Len(ibuf) = PosObuf
      BY <1>1, <2>1
    <3> QED
      BY <1>1, <1>r, <2>1, <3>1, RunTail
  <2>4. obuf' \in LineSeq /\ Len(obuf') = 1 /\ (server # "died" => RunAt(obuf', PosObuf)) /\ obuf' # <<>>
    BY <2>1, <2>2, <2>3, RunOne
  <2>5. inq' \in LineSeq /\ Len(inq') = 0 /\ \A a : RunAt(inq', a)
    BY <2>1, RunEmpty
  <2>6. 1 + (Len(inq) - 1) + 0 = Len(ibuf) + Len(inq)
    BY <1>1, <2>1
  <2> QED
    BY <1>3, <1>4, <1>6, <2>1, <2>2, <2>3, <2>4, <2>5, <2>6
<1>7. CASE ~Trait.stdio
  <2>1. /\ obuf' = First(inq, MaxRead) /\ inq' = Rest(inq, MaxRead) /\ ibuf' = ibuf /\ inq # <<>> /\ ibuf = <<>> /\ Len(ibuf) = 0
        /\ MaxRead \in Nat \ {0}
    BY <1>0, <1>7, StrCliAssumption DEF TakeInput
  <2>2. /\ obuf' \in LineSeq /\ inq' \in LineSeq
        /\ Len(obuf') = (IF MaxRead < Len(inq) THEN MaxRead ELSE Len(inq)) /\ Len(inq') = Len(inq) - Len(obuf')
    BY <1>1, <2>1, SplitOf
  <2>3. Len(inq) > 0
    BY <1>0, <2>1, BufferFacts
  <2>4. Len(obuf') \in Nat /\ Len(obuf') > 0 /\ Len(obuf') + Len(ibuf') + Len(inq') = Len(ibuf) + Len(inq)
    BY <1>1, <2>1, <2>2, <2>3
  <2>5. server # "died" => RunAt(obuf', PosObuf) /\ RunAt(inq', PosObuf + Len(obuf'))
    <3>1. PosObuf + Len(ibuf) = PosObuf
      BY <1>1, <2>1
    <3> QED
      BY <1>1, <1>r, <2>1, <3>1, RunSplit
  <2>6. PosObuf + Len(obuf') + Len(ibuf') = PosObuf + Len(obuf') /\ obuf' # <<>>
    BY <1>1, <2>1, <2>4
  <2>7. RunAt(ibuf', PosObuf + Len(obuf'))
    BY <2>1, RunEmpty
  <2> QED
    BY <1>1, <1>3, <1>4, <1>7, <2>1, <2>2, <2>4, <2>5, <2>6, <2>7
<1> QED
  BY <1>5, <1>6, <1>7

LEMMA GetsLineKeeps == StrInv /\ GetsLine => StrInv'
<1> SUFFICES ASSUME StrInv, GetsLine PROVE StrInv'
  OBVIOUS
<1>0. TypeOK /\ BackRuns /\ AwayRuns /\ ClientShape /\ FinShape /\ OneLine /\ AllPrinted /\ PrematureMeansDied
  BY DEF StrInv
<1>1. /\ ended = "no" /\ TakeInput /\ spc \in {"in", "handle"} /\ rset' = rset \ {"in"} /\ spc' = "write"
      /\ UNCHANGED <<client, isfile, typed, ineof, oused, fr, fused, c2s, cfin, server, sbuf, s2c,
                     rst, rbuf, out, rpc, ended>>
  BY DEF GetsLine, AtS, nonbVars, servVars
<1>a. stdineof' = (stdineof \/ (isfile /\ inq' = <<>>))
  BY DEF GetsLine
<1>2. Trait' = Trait
  BY <1>1 DEF Trait
<1>3. Trait.kind # "nonb" /\ obuf = <<>> /\ (Trait.kind = "lockstep" => spc = "in")
  BY <1>0, <1>1, ClientFacts DEF ClientShape
<1>4. /\ BackRuns' /\ AwayRuns' /\ obuf' \in LineSeq /\ ibuf' \in LineSeq /\ inq' \in LineSeq
      /\ obuf' # <<>> /\ (ibuf # <<>> \/ inq # <<>>) /\ (inq = <<>> => inq' = <<>>)
      /\ ~Trait.stdio => ibuf' = ibuf
      /\ Trait.stdio => Len(obuf') = 1
  BY <1>1, <1>3, TakeInputFlow
<1>5. TypeOK'
  BY <1>0, <1>1, <1>a, <1>4 DEF TypeOK
<1>6. ClientShape'
  BY <1>0, <1>1, <1>2, <1>3, <1>4, ClientFacts DEF ClientShape
<1>7. FinShape'
  BY <1>0, <1>1, <1>a, <1>2, <1>3, <1>4, ClientFacts DEF FinShape, ClientShape
<1>8. OneLine'
  <2>1. Trait.kind = "lockstep" => Len(obuf') = 1 /\ Len(obuf) = 0
    BY <1>0, <1>3, <1>4, ClientFacts
  <2>2. ASSUME Trait.kind = "lockstep", server # "died"
        PROVE  Len(rbuf) + Len(s2c) + Len(sbuf) + Len(c2s) + Len(obuf) = 0
    BY <1>0, <1>3, <2>2 DEF OneLine
  <2>3. Len(rbuf) \in Nat /\ Len(s2c) \in Nat /\ Len(sbuf) \in Nat /\ Len(c2s) \in Nat
    BY <1>0, BufferFacts
  <2>4. ASSUME Trait.kind = "lockstep", server # "died"
        PROVE  Len(rbuf) + Len(s2c) + Len(sbuf) + Len(c2s) + Len(obuf') = 1
    <3>1. Len(rbuf) + Len(s2c) + Len(sbuf) + Len(c2s) + Len(obuf) = 0
      BY <2>2, <2>4
    <3>2. Len(obuf) = 0 /\ Len(obuf') = 1
      BY <2>1, <2>4
    <3> QED
      BY <2>3, <3>1, <3>2
  <2> QED
    BY <1>0, <1>1, <1>2, <2>4 DEF OneLine
<1>9. AllPrinted' /\ PrematureMeansDied'
  BY <1>1 DEF AllPrinted, PrematureMeansDied
<1> QED
  BY <1>4, <1>5, <1>6, <1>7, <1>8, <1>9 DEF StrInv

\* A line goes from the client's buffer to the connection, or nowhere once the server has died.
LEMMA PutLineFlow ==
    ASSUME StrInv, PutLine, obuf # <<>>, UNCHANGED <<typed, inq, ibuf, server, sbuf, s2c, rbuf, fr, out>>
    PROVE  /\ BackRuns' /\ AwayRuns' /\ obuf' \in LineSeq /\ c2s' \in LineSeq /\ Len(obuf') = Len(obuf) - 1
           /\ rst' \in BOOLEAN /\ Len(c2s') <= Cap /\ server \in {"up", "died"}
           /\ server = "up" => Len(c2s') = Len(c2s) + 1
<1>0. TypeOK /\ BackRuns /\ AwayRuns /\ server \in {"up", "died"} /\ Len(c2s) <= Cap /\ rst \in BOOLEAN
  BY DEF StrInv, FinShape, TypeOK
<1>1. /\ obuf \in LineSeq /\ c2s \in LineSeq /\ Len(c2s) \in Nat /\ Len(obuf) \in Nat
      /\ PosC2s \in Nat /\ PosObuf = PosC2s + Len(c2s) /\ PosIbuf = PosObuf + Len(obuf)
  BY <1>0, BufferFacts, Positions DEF PosObuf, PosIbuf
<1>2. BackRuns' /\ PosSbuf' = PosSbuf /\ PosC2s' = PosC2s
  <2>1. BackRuns' /\ PosSbuf' = PosSbuf
    BY <1>0, BackKept
  <2> QED
    BY <2>1 DEF PosC2s
<1>3. obuf' = Tail(obuf) /\ Tail(obuf) \in LineSeq /\ Len(Tail(obuf)) = Len(obuf) - 1
  BY <1>1, TailOf DEF PutLine, LineSeq
<1>4. CASE server = "up"
  <2>1. c2s' = Append(c2s, Head(obuf)) /\ Len(c2s) < Cap /\ rst' = rst
    BY <1>4 DEF PutLine
  <2>2. RunAt(sbuf, PosSbuf) /\ RunAt(c2s, PosC2s) /\ RunAt(obuf, PosC2s + Len(c2s)) /\ RunAt(ibuf, PosIbuf)
        /\ RunAt(inq, PosInq) /\ PosInq + Len(inq) = typed
    BY <1>0, <1>1, <1>4 DEF AwayRuns
  <2>3. /\ c2s' \in LineSeq /\ Len(c2s') = Len(c2s) + 1
        /\ RunAt(c2s', PosC2s) /\ RunAt(obuf', PosC2s + Len(c2s) + 1)
    BY <1>1, <1>3, <2>1, <2>2, MoveOne
  <2>4. PosObuf' = PosC2s + Len(c2s) + 1
    BY <1>1, <1>2, <2>3 DEF PosObuf
  <2>5. PosIbuf' = PosIbuf
    BY <1>1, <1>3, <2>4 DEF PosIbuf
  <2>6. PosInq' = PosInq
    BY <2>5 DEF PosInq
  <2>7. AwayRuns'
    BY <1>2, <2>2, <2>3, <2>4, <2>5, <2>6 DEF AwayRuns
  <2>8. Len(c2s') <= Cap
    BY <1>1, <2>1, <2>3, StrCliAssumption
  <2> QED
    BY <1>0, <1>2, <1>3, <2>1, <2>3, <2>7, <2>8
<1>5. CASE server = "died"
  <2>1. rst' = TRUE /\ c2s' = c2s
    BY <1>5 DEF PutLine
  <2>2. AwayRuns'
    BY <1>5 DEF AwayRuns
  <2> QED
    BY <1>0, <1>1, <1>2, <1>3, <1>5, <2>1, <2>2
<1> QED
  BY <1>0, <1>4, <1>5

LEMMA WritesLineKeeps == StrInv /\ WritesLine => StrInv'
<1> SUFFICES ASSUME StrInv, WritesLine PROVE StrInv'
  OBVIOUS
<1>0. TypeOK /\ BackRuns /\ AwayRuns /\ ClientShape /\ FinShape /\ OneLine /\ AllPrinted /\ PrematureMeansDied
  BY DEF StrInv
<1>1. /\ ended = "no" /\ spc = "write" /\ PutLine
      /\ UNCHANGED <<client, isfile, typed, ineof, inq, ibuf, oused, fr, fused, server, sbuf, s2c, rbuf,
                     out, rpc, rset, stdineof, ended>>
  BY DEF WritesLine, AtS, inVars, nonbVars, servVars
<1>2. Trait' = Trait
  BY <1>1 DEF Trait
<1>3. obuf # <<>> /\ Trait.kind \in {"lockstep", "select", "two"}
  BY <1>0, <1>1, ClientFacts DEF ClientShape
<1>4. /\ BackRuns' /\ AwayRuns' /\ obuf' \in LineSeq /\ c2s' \in LineSeq /\ Len(obuf') = Len(obuf) - 1
      /\ rst' \in BOOLEAN /\ Len(c2s') <= Cap /\ server \in {"up", "died"}
      /\ server = "up" => Len(c2s') = Len(c2s) + 1
  BY <1>1, <1>3, PutLineFlow
<1>5. Len(obuf) \in Nat /\ (obuf' = <<>> <=> Len(obuf) = 1)
  <2>1. Len(obuf) \in Nat /\ (obuf' = <<>> <=> Len(obuf') = 0)
    BY <1>0, <1>4, BufferFacts, LineLens DEF LineSeq
  <2>2. Len(obuf') = 0 <=> Len(obuf) = 1
    BY <1>4, <2>1
  <2> QED
    BY <2>1, <2>2
<1>6. /\ Trait.kind = "lockstep" => spc' \in {"sock", "write"}
      /\ Trait.kind = "select" => spc' \in {"handle", "write"}
      /\ Trait.kind = "two" => spc' \in {"in", "write"}
      /\ spc' = "write" <=> Len(obuf) # 1
  BY <1>3 DEF WritesLine, AfterWrite
<1>7. cfin' = (isfile /\ stdineof /\ Len(obuf) = 1) /\ ~cfin
  BY <1>0, <1>3 DEF FinShape, WritesLine, TypeOK
<1>8. TypeOK'
  BY <1>0, <1>1, <1>3, <1>4, <1>6, <1>7 DEF TypeOK
<1>9. ClientShape'
  BY <1>0, <1>1, <1>2, <1>3, <1>5, <1>6 DEF ClientShape
<1>10. isfile => Trait.kind = "select" /\ ibuf = <<>>
  BY <1>0, ClientFacts DEF ClientShape
<1>11. FinShape'
  BY <1>0, <1>1, <1>2, <1>3, <1>4, <1>5, <1>6, <1>7, <1>10 DEF FinShape
<1>12. OneLine'
  <2>1. ASSUME Trait.kind = "lockstep", server # "died"
        PROVE  Len(rbuf) + Len(s2c) + Len(sbuf) + Len(c2s') + Len(obuf') = 1
    <3>1. Len(rbuf) + Len(s2c) + Len(sbuf) + Len(c2s) + Len(obuf) = 1
      BY <1>0, <1>1, <2>1 DEF OneLine
    <3>2. Len(c2s') = Len(c2s) + 1 /\ Len(obuf') = Len(obuf) - 1
      BY <1>4, <2>1
    <3>3. Len(rbuf) \in Nat /\ Len(s2c) \in Nat /\ Len(sbuf) \in Nat /\ Len(c2s) \in Nat /\ Len(obuf) \in Nat
      BY <1>0, BufferFacts
    <3> QED
      BY <3>1, <3>2, <3>3
  <2>2. Trait.kind = "lockstep" => ~cfin' /\ spc' # "in"
    BY <1>6, <1>7, <1>10
  <2> QED
    BY <1>1, <1>2, <2>1, <2>2 DEF OneLine
<1>13. AllPrinted' /\ PrematureMeansDied'
  BY <1>1 DEF AllPrinted, PrematureMeansDied
<1> QED
  BY <1>4, <1>8, <1>9, <1>11, <1>12, <1>13 DEF StrInv

\* strclinonb: what is read from stdin goes behind what to[] holds.
LEMMA NonbInKeeps == StrInv /\ NonbIn => StrInv'
<1> SUFFICES ASSUME StrInv, NonbIn PROVE StrInv'
  OBVIOUS
<1>0. TypeOK /\ BackRuns /\ AwayRuns /\ ClientShape /\ FinShape /\ OneLine /\ AllPrinted /\ PrematureMeansDied
  BY DEF StrInv
<1>1. /\ ended = "no" /\ spc = "nin" /\ spc' = "nsock"
      /\ UNCHANGED <<client, isfile, typed, ineof, ibuf, fr, fused, c2s, server, sbuf, s2c, rst, rbuf, out, rpc, ended>>
  BY DEF NonbIn, AtS, servVars
<1>2. Trait' = Trait /\ Trait.kind = "nonb" /\ ibuf = <<>>
  BY <1>0, <1>1, ClientFacts DEF Trait, ClientShape
<1>3. OneLine' /\ AllPrinted' /\ PrematureMeansDied'
  BY <1>1, <1>2 DEF OneLine, AllPrinted, PrematureMeansDied
<1>4. ClientShape'
  BY <1>0, <1>1, <1>2 DEF ClientShape
<1>5. CASE "in" \in rset /\ inq # <<>>
  <2>1. PICK n : n = Len(First(inq, MaxRead - oused))
    OBVIOUS
  <2>2. /\ obuf' = obuf \o First(inq, n) /\ inq' = Rest(inq, n) /\ oused' = oused + n
        /\ rset' = rset \cup {"net"} /\ stdineof' = stdineof /\ cfin' = cfin
    BY <1>5, <2>1 DEF NonbIn
  <2>3. MaxRead - oused \in Nat /\ oused \in Nat /\ MaxRead \in Nat /\ inq \in LineSeq /\ obuf \in LineSeq
        /\ Len(inq) \in Nat /\ Len(obuf) \in Nat /\ PosObuf \in Nat
    <3>1. inq \in LineSeq /\ obuf \in LineSeq /\ Len(inq) \in Nat /\ Len(obuf) \in Nat /\ PosObuf \in Nat
      BY <1>0, BufferFacts, Positions
    <3>2. oused \in 0 .. MaxRead /\ MaxRead \in Nat
      BY <1>0, StrCliAssumption DEF TypeOK
    <3> QED
      BY <3>1, <3>2
  <2>4. n = (IF MaxRead - oused < Len(inq) THEN MaxRead - oused ELSE Len(inq))
    BY <2>1, <2>3, SplitOf
  <2>5. n \in Nat /\ n <= Len(inq) /\ oused + n \in 0 .. MaxRead
    BY <2>3, <2>4
  <2>6. /\ obuf \o First(inq, n) \in LineSeq /\ Rest(inq, n) \in LineSeq
        /\ Len(obuf \o First(inq, n)) = Len(obuf) + Len(First(inq, n))
        /\ Len(Rest(inq, n)) = Len(inq) - Len(First(inq, n))
        /\ Len(First(inq, n)) = (IF n < Len(inq) THEN n ELSE Len(inq))
    BY <2>3, <2>5, MoveManyLens
  <2>7. Len(First(inq, n)) = n
    BY <2>3, <2>5, <2>6
  <2>8. obuf' \in LineSeq /\ inq' \in LineSeq /\ Len(obuf') = Len(obuf) + n /\ Len(inq') = Len(inq) - n
    BY <2>2, <2>6, <2>7
  <2>9. TypeOK'
    BY <1>0, <1>1, <2>2, <2>5, <2>8 DEF TypeOK
  <2>10. FinShape'
    BY <1>0, <1>1, <1>2, <1>5, <2>2 DEF FinShape
  <2>11. BackRuns' /\ PosSbuf' = PosSbuf
    BY <1>0, <1>1, BackKept
  <2>12. PosC2s' = PosC2s /\ PosObuf' = PosObuf
    BY <1>1, <2>11 DEF PosC2s, PosObuf
  <2>13. PosIbuf = PosObuf + Len(obuf) /\ PosInq = PosIbuf /\ Len(ibuf) = 0
    BY <1>2, <2>3 DEF PosIbuf, PosInq
  <2>14. PosIbuf' = PosObuf + Len(obuf) + n /\ PosInq' = PosObuf + Len(obuf) + n
    BY <1>1, <2>3, <2>5, <2>8, <2>12, <2>13 DEF PosIbuf, PosInq
  <2>15. ASSUME server # "died" PROVE RunAt(obuf', PosObuf) /\ RunAt(inq', PosObuf + Len(obuf) + n)
    <3>1. RunAt(obuf, PosObuf) /\ RunAt(inq, PosObuf + Len(obuf))
      BY <1>0, <2>13, <2>15 DEF AwayRuns
    <3> QED
      BY <2>2, <2>3, <2>5, <2>7, <3>1, MoveMany
  <2>16. PosInq' + Len(inq') = PosInq + Len(inq)
    BY <2>3, <2>5, <2>8, <2>13, <2>14
  <2>17. RunAt(ibuf', PosIbuf')
    BY <1>1, <1>2, RunEmpty
  <2>18. AwayRuns'
    BY <1>0, <1>1, <2>11, <2>12, <2>14, <2>15, <2>16, <2>17 DEF AwayRuns
  <2> QED
    BY <1>3, <1>4, <2>9, <2>10, <2>11, <2>18 DEF StrInv
<1>6. CASE ~("in" \in rset /\ inq # <<>>)
  <2>1. /\ stdineof' = (stdineof \/ "in" \in rset) /\ cfin' = (cfin \/ ("in" \in rset /\ obuf = <<>>))
        /\ UNCHANGED <<obuf, inq, oused, rset>>
    BY <1>6 DEF NonbIn
  <2>2. BackRuns' /\ AwayRuns'
    BY <1>1, <2>1, FlowKept
  <2>3. TypeOK'
    BY <1>0, <1>1, <2>1 DEF TypeOK
  <2>4. FinShape'
    BY <1>0, <1>1, <1>2, <1>6, <2>1 DEF FinShape
  <2> QED
    BY <1>3, <1>4, <2>2, <2>3, <2>4 DEF StrInv
<1> QED
  BY <1>5, <1>6

\* strclinonb: what is read from the socket goes behind what fr[] holds.
LEMMA NonbSockKeeps == StrInv /\ NonbSock => StrInv'
<1> SUFFICES ASSUME StrInv, NonbSock PROVE StrInv'
  OBVIOUS
<1>0. TypeOK /\ BackRuns /\ AwayRuns /\ ClientShape /\ FinShape /\ OneLine /\ AllPrinted /\ PrematureMeansDied
  BY DEF StrInv
<1>1. /\ ended = "no" /\ spc = "nsock" /\ spc' = "nout"
      /\ UNCHANGED <<client, isfile, typed, ineof, inq, ibuf, obuf, oused, c2s, cfin, server, sbuf, rst, rbuf, out,
                     rpc, rset, stdineof, ended>>
  BY DEF NonbSock, AtS, servVars, inVars
<1>2. Trait' = Trait /\ Trait.kind = "nonb" /\ rbuf = <<>> /\ rpc # "check"
  BY <1>0, <1>1, ClientFacts DEF Trait, ClientShape
<1>3. OneLine' /\ AllPrinted' /\ PrematureMeansDied'
  BY <1>1, <1>2 DEF OneLine, AllPrinted, PrematureMeansDied
<1>4. ClientShape' /\ FinShape'
  BY <1>0, <1>1, <1>2 DEF ClientShape, FinShape
<1>5. CASE "sock" \in rset
  <2>1. PICK n : n = Len(First(s2c, MaxRead - fused))
    OBVIOUS
  <2>2. fr' = fr \o First(s2c, n) /\ s2c' = Rest(s2c, n) /\ fused' = fused + n
    BY <1>5, <2>1 DEF NonbSock
  <2>3. MaxRead - fused \in Nat /\ fused \in Nat /\ MaxRead \in Nat /\ s2c \in LineSeq /\ fr \in LineSeq
        /\ Len(s2c) \in Nat /\ Len(fr) \in Nat /\ PosFr \in Nat /\ Len(s2c) <= Cap /\ Cap \in Nat
    <3>1. s2c \in LineSeq /\ fr \in LineSeq /\ Len(s2c) \in Nat /\ Len(fr) \in Nat /\ PosFr \in Nat
      BY <1>0, BufferFacts, Positions
    <3>2. fused \in 0 .. MaxRead /\ MaxRead \in Nat /\ Len(s2c) <= Cap /\ Cap \in Nat
      BY <1>0, StrCliAssumption DEF TypeOK
    <3> QED
      BY <3>1, <3>2
  <2>4. n = (IF MaxRead - fused < Len(s2c) THEN MaxRead - fused ELSE Len(s2c))
    BY <2>1, <2>3, SplitOf
  <2>5. n \in Nat /\ n <= Len(s2c) /\ fused + n \in 0 .. MaxRead
    BY <2>3, <2>4
  <2>6. /\ fr \o First(s2c, n) \in LineSeq /\ Rest(s2c, n) \in LineSeq
        /\ Len(fr \o First(s2c, n)) = Len(fr) + Len(First(s2c, n))
        /\ Len(Rest(s2c, n)) = Len(s2c) - Len(First(s2c, n))
        /\ Len(First(s2c, n)) = (IF n < Len(s2c) THEN n ELSE Len(s2c))
    BY <2>3, <2>5, MoveManyLens
  <2>7. Len(First(s2c, n)) = n
    BY <2>3, <2>5, <2>6
  <2>8. fr' \in LineSeq /\ s2c' \in LineSeq /\ Len(fr') = Len(fr) + n /\ Len(s2c') = Len(s2c) - n
    BY <2>2, <2>6, <2>7
  <2>a. Len(s2c') <= Cap
    BY <2>3, <2>5, <2>8
  <2>9. TypeOK'
    BY <1>0, <1>1, <2>2, <2>5, <2>8, <2>a DEF TypeOK
  <2>10. PosFr' = PosFr /\ PosRbuf = PosFr + Len(fr) /\ PosS2c = PosRbuf /\ PosSbuf = PosS2c + Len(s2c) /\ Len(rbuf) = 0
    BY <1>1, <1>2, <2>3 DEF PosFr, PosRbuf, PosS2c, PosSbuf
  <2>11. PosRbuf' = PosFr + Len(fr) + n /\ PosS2c' = PosFr + Len(fr) + n /\ PosSbuf' = PosSbuf
    <3>1. PosRbuf' = PosFr + Len(fr) + n
      BY <2>3, <2>5, <2>8, <2>10 DEF PosRbuf
    <3>2. PosS2c' = PosFr + Len(fr) + n
      BY <1>1, <2>3, <2>5, <2>10, <3>1 DEF PosS2c
    <3>3. PosSbuf' = PosSbuf
      BY <2>3, <2>5, <2>8, <2>10, <3>2 DEF PosSbuf
    <3> QED
      BY <3>1, <3>2, <3>3
  <2>12. RunAt(fr', PosFr) /\ RunAt(s2c', PosFr + Len(fr) + n)
    <3>1. RunAt(fr, PosFr) /\ RunAt(s2c, PosFr + Len(fr))
      BY <1>0, <2>10 DEF BackRuns
    <3> QED
      BY <2>2, <2>3, <2>5, <2>7, <3>1, MoveMany
  <2>13. RunAt(rbuf', PosRbuf')
    BY <1>1, <1>2, RunEmpty
  <2>14. BackRuns'
    BY <1>0, <1>1, <2>10, <2>11, <2>12, <2>13 DEF BackRuns
  <2>15. AwayRuns'
    BY <1>0, <1>1, <2>11, AwayKept
  <2> QED
    BY <1>3, <1>4, <2>9, <2>14, <2>15 DEF StrInv
<1>6. CASE "sock" \notin rset
  <2>1. UNCHANGED <<fr, s2c, fused>>
    BY <1>6 DEF NonbSock
  <2>2. BackRuns' /\ AwayRuns'
    BY <1>1, <2>1, FlowKept
  <2>3. TypeOK'
    BY <1>0, <1>1, <2>1 DEF TypeOK
  <2> QED
    BY <1>3, <1>4, <2>2, <2>3 DEF StrInv
<1> QED
  BY <1>5, <1>6

\* strclinonb: what write() takes of fr[] is printed.
LEMMA NonbOutKeeps == StrInv /\ NonbOut => StrInv'
<1> SUFFICES ASSUME StrInv, NonbOut PROVE StrInv'
  OBVIOUS
<1>0. TypeOK /\ BackRuns /\ AwayRuns /\ ClientShape /\ FinShape /\ OneLine /\ AllPrinted /\ PrematureMeansDied
  BY DEF StrInv
<1>1. /\ ended = "no" /\ spc = "nout" /\ spc' = "nnet"
      /\ UNCHANGED <<client, isfile, typed, ineof, inq, ibuf, obuf, oused, c2s, cfin, server, sbuf, s2c, rst, rbuf,
                     rpc, rset, stdineof, ended>>
  BY DEF NonbOut, AtS, servVars, inVars
<1>2. Trait' = Trait /\ Trait.kind = "nonb" /\ rpc # "check"
  BY <1>0, <1>1, ClientFacts DEF Trait, ClientShape
<1>3. OneLine' /\ AllPrinted' /\ PrematureMeansDied'
  BY <1>1, <1>2 DEF OneLine, AllPrinted, PrematureMeansDied
<1>4. ClientShape' /\ FinShape'
  BY <1>0, <1>1, <1>2 DEF ClientShape, FinShape
<1>5. PICK n \in 0 .. Len(fr) : out' = out \o First(fr, n) /\ fr' = Rest(fr, n) /\ fused' = FrReset(n)
  BY DEF NonbOut
<1>6. /\ fr \in LineSeq /\ out \in LineSeq /\ Len(fr) \in Nat /\ Len(out) \in Nat /\ n \in Nat /\ n <= Len(fr)
      /\ 0 \in Nat /\ 0 + Len(out) = Len(out)
  BY <1>0, <1>5, BufferFacts
<1>7. fused' \in 0 .. MaxRead
  BY <1>0, <1>5, StrCliAssumption DEF TypeOK, FrReset
<1>8. /\ out \o First(fr, n) \in LineSeq /\ Rest(fr, n) \in LineSeq
      /\ Len(out \o First(fr, n)) = Len(out) + Len(First(fr, n))
      /\ Len(Rest(fr, n)) = Len(fr) - Len(First(fr, n))
      /\ Len(First(fr, n)) = (IF n < Len(fr) THEN n ELSE Len(fr))
  BY <1>6, MoveManyLens
<1>9. Len(First(fr, n)) = n
  BY <1>6, <1>8
<1>10. out' \in LineSeq /\ fr' \in LineSeq /\ Len(out') = Len(out) + n /\ Len(fr') = Len(fr) - n
  BY <1>5, <1>8, <1>9
<1>11. TypeOK'
  BY <1>0, <1>1, <1>7, <1>10 DEF TypeOK
<1>12. PosFr' = Len(out) + n /\ PosRbuf' = PosRbuf /\ PosS2c' = PosS2c /\ PosSbuf' = PosSbuf
  <2>1. PosFr' = Len(out) + n
    BY <1>10 DEF PosFr
  <2>2. PosRbuf' = PosRbuf
    BY <1>6, <1>10, <2>1 DEF PosRbuf, PosFr
  <2>3. PosS2c' = PosS2c /\ PosSbuf' = PosSbuf
    BY <1>1, <2>2 DEF PosS2c, PosSbuf
  <2> QED
    BY <2>1, <2>2, <2>3
<1>13. RunAt(out', 0) /\ RunAt(fr', Len(out) + n)
  <2>1. RunAt(out, 0) /\ RunAt(fr, 0 + Len(out))
    BY <1>0, <1>6 DEF BackRuns, PosFr
  <2>2. RunAt(out \o First(fr, n), 0) /\ RunAt(Rest(fr, n), 0 + Len(out) + Len(First(fr, n)))
    BY <1>6, <2>1, MoveMany
  <2> QED
    BY <1>5, <1>6, <1>9, <2>2
<1>14. BackRuns'
  BY <1>0, <1>1, <1>12, <1>13 DEF BackRuns
<1>15. AwayRuns'
  BY <1>0, <1>1, <1>12, AwayKept
<1> QED
  BY <1>3, <1>4, <1>11, <1>14, <1>15 DEF StrInv

\* strclinonb: what write() takes of to[] is on its way to the server.
LEMMA NonbNetKeeps == StrInv /\ NonbNet => StrInv'
<1> SUFFICES ASSUME StrInv, NonbNet PROVE StrInv'
  OBVIOUS
<1>0. TypeOK /\ BackRuns /\ AwayRuns /\ ClientShape /\ FinShape /\ OneLine /\ AllPrinted /\ PrematureMeansDied
  BY DEF StrInv
<1>1. /\ ended = "no" /\ spc = "nnet" /\ spc' = "select" /\ rset' = {}
      /\ UNCHANGED <<client, isfile, typed, ineof, inq, ibuf, fr, fused, server, sbuf, s2c, rbuf, out,
                     rpc, stdineof, ended>>
  BY DEF NonbNet, AtS, servVars, inVars
<1>2. Trait' = Trait /\ Trait.kind = "nonb" /\ rpc # "check" /\ ibuf = <<>>
  BY <1>0, <1>1, ClientFacts DEF Trait, ClientShape
<1>3. OneLine' /\ AllPrinted' /\ PrematureMeansDied'
  BY <1>1, <1>2 DEF OneLine, AllPrinted, PrematureMeansDied
<1>4. ClientShape'
  BY <1>0, <1>1, <1>2 DEF ClientShape
<1>5. CASE "net" \in rset /\ obuf # <<>>
  <2>1. PICK n : n = IF server = "up" THEN Len(First(obuf, Cap - Len(c2s))) ELSE Len(obuf)
    OBVIOUS
  <2>2. /\ obuf' = Rest(obuf, n) /\ c2s' = (IF server = "up" THEN c2s \o First(obuf, n) ELSE c2s)
        /\ rst' = (server # "up") /\ oused' = (IF n = Len(obuf) THEN 0 ELSE oused)
        /\ cfin' = (cfin \/ (n = Len(obuf) /\ stdineof))
    BY <1>5, <2>1 DEF NonbNet, NonbFin
  <2>3. /\ obuf \in LineSeq /\ c2s \in LineSeq /\ Len(obuf) \in Nat /\ Len(c2s) \in Nat /\ PosC2s \in Nat
        /\ Cap \in Nat /\ Len(c2s) <= Cap /\ Cap - Len(c2s) \in Nat
    <3>1. obuf \in LineSeq /\ c2s \in LineSeq /\ Len(obuf) \in Nat /\ Len(c2s) \in Nat /\ PosC2s \in Nat
      BY <1>0, BufferFacts, Positions
    <3>2. Cap \in Nat /\ Len(c2s) <= Cap
      BY <1>0, StrCliAssumption DEF TypeOK
    <3> QED
      BY <3>1, <3>2
  <2>4. server \in {"up", "died"} /\ ~cfin
    BY <1>0, <1>5 DEF FinShape, TypeOK
  <2>5. server = "up" => n = (IF Cap - Len(c2s) < Len(obuf) THEN Cap - Len(c2s) ELSE Len(obuf))
    BY <2>1, <2>3, SplitOf
  <2>6. n \in Nat /\ n <= Len(obuf) /\ (server = "up" => Len(c2s) + n <= Cap)
    <3>1. CASE server = "up"
      BY <2>3, <2>5, <3>1
    <3>2. CASE server # "up"
      BY <2>1, <2>3, <3>2
    <3> QED
      BY <3>1, <3>2
  <2>7. /\ c2s \o First(obuf, n) \in LineSeq /\ Rest(obuf, n) \in LineSeq
        /\ Len(c2s \o First(obuf, n)) = Len(c2s) + Len(First(obuf, n))
        /\ Len(Rest(obuf, n)) = Len(obuf) - Len(First(obuf, n))
        /\ Len(First(obuf, n)) = (IF n < Len(obuf) THEN n ELSE Len(obuf))
    BY <2>3, <2>6, MoveManyLens
  <2>8. Len(First(obuf, n)) = n
    BY <2>3, <2>6, <2>7
  <2>9. /\ obuf' \in LineSeq /\ c2s' \in LineSeq /\ Len(obuf') = Len(obuf) - n
        /\ server = "up" => Len(c2s') = Len(c2s) + n
        /\ server # "up" => c2s' = c2s
    BY <2>2, <2>3, <2>7, <2>8
  <2>10. Len(c2s') <= Cap
    BY <2>3, <2>6, <2>9
  <2>11. oused' \in 0 .. MaxRead
    BY <1>0, <2>2, StrCliAssumption DEF TypeOK
  <2>12. TypeOK'
    BY <1>0, <1>1, <2>2, <2>9, <2>10, <2>11 DEF TypeOK
  <2>13. n = Len(obuf) => obuf' = <<>>
    <3>1. obuf' = <<>> <=> Len(obuf') = 0
      BY <2>9, LineLens DEF LineSeq
    <3> QED
      BY <2>3, <2>9, <3>1
  <2>14. FinShape'
    BY <1>0, <1>1, <1>2, <2>2, <2>4, <2>13 DEF FinShape
  <2>15. BackRuns' /\ PosSbuf' = PosSbuf
    BY <1>0, <1>1, BackKept
  <2>16. ASSUME server = "up" PROVE AwayRuns'
    <3>1. PosC2s' = PosC2s /\ PosObuf = PosC2s + Len(c2s) /\ PosIbuf = PosObuf + Len(obuf)
      BY <1>1, <2>15 DEF PosC2s, PosObuf, PosIbuf
    <3>2. PosObuf' = PosC2s + Len(c2s) + n
      BY <2>3, <2>6, <2>9, <2>16, <3>1 DEF PosObuf
    <3>3. PosIbuf' = PosIbuf
      BY <2>3, <2>6, <2>9, <3>1, <3>2 DEF PosIbuf
    <3>4. PosInq' = PosInq
      BY <1>1, <3>3 DEF PosInq
    <3>5. RunAt(c2s, PosC2s) /\ RunAt(obuf, PosC2s + Len(c2s))
      BY <1>0, <2>16, <3>1 DEF AwayRuns
    <3>6. RunAt(c2s \o First(obuf, n), PosC2s) /\ RunAt(Rest(obuf, n), PosC2s + Len(c2s) + Len(First(obuf, n)))
      BY <2>3, <2>6, <3>5, MoveMany
    <3>7. RunAt(c2s', PosC2s) /\ RunAt(obuf', PosC2s + Len(c2s) + n)
      BY <2>2, <2>8, <2>16, <3>6
    <3> QED
      BY <1>0, <1>1, <2>15, <2>16, <3>1, <3>2, <3>3, <3>4, <3>7 DEF AwayRuns
  <2>17. ASSUME server = "died" PROVE AwayRuns'
    BY <1>1, <2>17 DEF AwayRuns
  <2> QED
    BY <1>3, <1>4, <2>4, <2>12, <2>14, <2>15, <2>16, <2>17 DEF StrInv
<1>6. CASE ~("net" \in rset /\ obuf # <<>>)
  <2>1. UNCHANGED <<obuf, c2s, rst, oused, cfin>>
    BY <1>6 DEF NonbNet
  <2>2. BackRuns' /\ AwayRuns'
    BY <1>1, <2>1, FlowKept
  <2>3. TypeOK' /\ FinShape'
    BY <1>0, <1>1, <1>2, <2>1 DEF TypeOK, FinShape
  <2> QED
    BY <1>3, <1>4, <2>2, <2>3 DEF StrInv
<1> QED
  BY <1>5, <1>6

LEMMA StrInvInit == Init => StrInv
<1> SUFFICES ASSUME Init PROVE StrInv
  OBVIOUS
<1>1. /\ client \in Clients /\ isfile \in BOOLEAN /\ (isfile => client = "str_cli_kqueue04")
      /\ ibuf = <<>> /\ obuf = <<>> /\ oused = 0 /\ c2s = <<>> /\ cfin = FALSE
      /\ server = "up" /\ sbuf = <<>> /\ s2c = <<>> /\ rst = FALSE
      /\ rbuf = <<>> /\ fr = <<>> /\ fused = 0 /\ out = <<>>
      /\ rset = {} /\ stdineof = FALSE /\ ended = "no"
  BY DEF Init
<1>2. Upto(Lines) \in LineSeq /\ Len(Upto(Lines)) = Lines /\ RunAt(Upto(Lines), 0)
  <2>1. Lines \in Nat
    BY StrCliAssumption
  <2>2. Upto(Lines) \in [1 .. Lines -> 1 .. Lines] /\ Len(Upto(Lines)) = Lines
    BY <2>1 DEF Upto
  <2>3. Upto(Lines) \in LineSeq
    BY <2>1, <2>2 DEF LineSeq
  <2>4. \A k \in 1 .. Lines : Upto(Lines)[k] = 0 + k
    BY <2>1 DEF Upto
  <2> QED
    BY <2>2, <2>3, <2>4 DEF RunAt
<1>3. /\ inq \in LineSeq /\ typed \in 0 .. Lines /\ RunAt(inq, 0) /\ Len(inq) = typed /\ ineof \in BOOLEAN /\ (isfile => ineof)
  <2>1. CASE isfile
    BY <1>2, <2>1, StrCliAssumption DEF Init
  <2>2. CASE ~isfile
    <3>1. typed = 0 /\ inq = <<>> /\ ineof = FALSE
      BY <2>2 DEF Init
    <3>2. inq \in LineSeq /\ Len(inq) = 0 /\ RunAt(inq, 0)
      BY <3>1, RunEmpty
    <3>3. 0 \in 0 .. Lines
      BY StrCliAssumption
    <3> QED
      BY <2>2, <3>1, <3>2, <3>3
  <2> QED
    BY <2>1, <2>2
<1>4. /\ Traits[client].kind \in {"lockstep", "select", "nonb", "two"}
      /\ client = "str_cli_kqueue04" => Traits[client].kind = "select"
      /\ client = "strclithread2" => Traits[client].kind = "two"
  BY <1>1, TraitFacts
<1>5. spc = (IF Trait.kind \in {"lockstep", "two"} THEN "in" ELSE "select") /\ rpc = IF Trait.kind = "two" THEN "read" ELSE "off"
  BY DEF Init, Top
<1>6. TypeOK
  <2>1. \A s \in {inq, ibuf, obuf, c2s, sbuf, s2c, rbuf, fr, out} : s \in LineSeq
    BY <1>1, <1>3, RunEmpty
  <2>2. oused \in 0 .. MaxRead /\ fused \in 0 .. MaxRead /\ Len(c2s) <= Cap /\ Len(s2c) <= Cap
    BY <1>1, RunEmpty, StrCliAssumption
  <2> QED
    BY <1>1, <1>3, <1>5, <2>1, <2>2 DEF TypeOK
<1>7. ClientShape /\ FinShape
  BY <1>1, <1>3, <1>4, <1>5 DEF ClientShape, FinShape, Trait
<1>8. /\ PosFr = 0 /\ PosRbuf = 0 /\ PosS2c = 0 /\ PosSbuf = 0 /\ PosC2s = 0
      /\ PosObuf = 0 /\ PosIbuf = 0 /\ PosInq = 0
  BY <1>1, RunEmpty DEF PosFr, PosRbuf, PosS2c, PosSbuf, PosC2s, PosObuf, PosIbuf, PosInq
<1>9. BackRuns /\ AwayRuns
  BY <1>1, <1>3, <1>8, RunEmpty DEF BackRuns, AwayRuns
<1>10. OneLine /\ AllPrinted /\ PrematureMeansDied
  BY <1>1, <1>5, RunEmpty DEF OneLine, AllPrinted, PrematureMeansDied
<1> QED
  BY <1>6, <1>7, <1>9, <1>10 DEF StrInv

LEMMA StrInvStep == StrInv /\ [Next]_vars => StrInv'
<1> SUFFICES ASSUME StrInv, [Next]_vars PROVE StrInv'
  OBVIOUS
<1>1. CASE User
  BY <1>1, UserKeeps
<1>2. CASE ServerStep
  BY <1>2, ServerStepKeeps
<1>3. CASE EchoServerDies
  BY <1>3, EchoServerDiesKeeps
<1>4. CASE SenderStep
  BY <1>4, GetsLineKeeps, WritesLineKeeps, WriteFailsKeeps, InputEofKeeps, CopytoShutsKeeps, CopytoDoneKeeps,
     SelectsKeeps, LoopsBackKeeps, HandlesReplyKeeps, HandlesEofKeeps, ReadFailsKeeps,
     NonbSelectsKeeps, NonbInKeeps, NonbSockKeeps, NonbOutKeeps, NonbNetKeeps DEF SenderStep
<1>5. CASE ReceiverStep
  BY <1>5, ReceiverPrintsKeeps, ReceiverEofKeeps, ReceiverChecksKeeps, ReceiverFailsKeeps DEF ReceiverStep
<1>6. CASE UNCHANGED vars
  <2>1. TypeOK' /\ ClientShape' /\ FinShape' /\ OneLine' /\ PrematureMeansDied'
    BY <1>6 DEF StrInv, vars, TypeOK, ClientShape, FinShape, OneLine, PrematureMeansDied, Trait
  <2>2. BackRuns' /\ AwayRuns' /\ PosRbuf' = PosRbuf
    BY <1>6, FlowKept DEF vars
  <2>3. AllPrinted'
    BY <1>6, <2>2 DEF StrInv, AllPrinted, vars
  <2> QED
    BY <2>1, <2>2, <2>3 DEF StrInv
<1> QED
  BY <1>1, <1>2, <1>3, <1>4, <1>5, <1>6 DEF Next

\* No line is lost, repeated or reordered, in any of the twelve versions, for any number of lines,
\* any size of the buffers and of the connection (readline.c, strclinonb.c, str_echo.c).
THEOREM LinesFlowIntact == Spec => []FlowIntact
<1>1. StrInv => FlowIntact
  <2> SUFFICES ASSUME StrInv PROVE FlowIntact
    OBVIOUS
  <2>0. TypeOK /\ BackRuns /\ AwayRuns
    BY DEF StrInv
  <2>1. /\ out \in LineSeq /\ fr \in LineSeq /\ rbuf \in LineSeq /\ s2c \in LineSeq /\ sbuf \in LineSeq
        /\ c2s \in LineSeq /\ obuf \in LineSeq /\ ibuf \in LineSeq /\ inq \in LineSeq /\ 0 \in Nat
        /\ Len(out) \in Nat /\ Len(fr) \in Nat /\ Len(rbuf) \in Nat /\ Len(s2c) \in Nat /\ Len(sbuf) \in Nat
        /\ Len(c2s) \in Nat /\ Len(obuf) \in Nat /\ Len(ibuf) \in Nat /\ Len(inq) \in Nat
    BY <2>0, BufferFacts
  <2>2. /\ RunAt(out, 0) /\ RunAt(fr, PosFr) /\ RunAt(rbuf, PosRbuf) /\ RunAt(s2c, PosS2c) /\ PosSbuf <= typed
    BY <2>0 DEF BackRuns
  <2>3. out \o fr \in LineSeq /\ Len(out \o fr) = PosRbuf /\ RunAt(out \o fr, 0)
    <3>1. 0 + Len(out) = PosFr /\ PosRbuf = Len(out) + Len(fr)
      BY <2>1 DEF PosFr, PosRbuf
    <3> QED
      BY <2>1, <2>2, <3>1, RunCat
  <2>4. (out \o fr) \o rbuf \in LineSeq /\ Len((out \o fr) \o rbuf) = PosS2c /\ RunAt((out \o fr) \o rbuf, 0)
    <3>1. 0 + Len(out \o fr) = PosRbuf /\ PosS2c = Len(out \o fr) + Len(rbuf)
      BY <2>0, <2>3, Positions DEF PosS2c
    <3> QED
      BY <2>1, <2>2, <2>3, <3>1, RunCat
  <2>5. PICK b : b = out \o fr \o rbuf \o s2c
    OBVIOUS
  <2>6. b \in LineSeq /\ Len(b) = PosSbuf /\ RunAt(b, 0)
    <3>1. 0 + Len((out \o fr) \o rbuf) = PosS2c /\ PosSbuf = Len((out \o fr) \o rbuf) + Len(s2c)
      BY <2>0, <2>4, Positions DEF PosSbuf
    <3> QED
      BY <2>1, <2>2, <2>4, <2>5, <3>1, RunCat
  <2>7. CASE server = "died"
    <3>1. typed \in 0 .. Lines
      BY <2>0 DEF TypeOK
    <3>2. IsPrefix(b, Upto(typed))
      BY <2>2, <2>6, <3>1, RunIsPrefix
    <3> QED
      BY <2>0, <2>5, <2>7, <3>2 DEF FlowIntact
  <2>8. CASE server # "died"
    <3>1. /\ RunAt(sbuf, PosSbuf) /\ RunAt(c2s, PosC2s) /\ RunAt(obuf, PosObuf) /\ RunAt(ibuf, PosIbuf)
          /\ RunAt(inq, PosInq) /\ PosInq + Len(inq) = typed
      BY <2>0, <2>8 DEF AwayRuns
    <3>2. b \o sbuf \in LineSeq /\ Len(b \o sbuf) = PosC2s /\ RunAt(b \o sbuf, 0)
      <4>1. 0 + Len(b) = PosSbuf /\ PosC2s = Len(b) + Len(sbuf)
        BY <2>0, <2>6, Positions DEF PosC2s
      <4> QED
        BY <2>1, <2>6, <3>1, <4>1, RunCat
    <3>3. PICK c : c = b \o sbuf
      OBVIOUS
    <3>4. c \o c2s \in LineSeq /\ Len(c \o c2s) = PosObuf /\ RunAt(c \o c2s, 0)
      <4>1. 0 + Len(c) = PosC2s /\ PosObuf = Len(c) + Len(c2s) /\ c \in LineSeq /\ RunAt(c, 0)
        BY <2>0, <3>2, <3>3, Positions DEF PosObuf
      <4> QED
        BY <2>1, <3>1, <4>1, RunCat
    <3>5. PICK d : d = c \o c2s
      OBVIOUS
    <3>6. d \o obuf \in LineSeq /\ Len(d \o obuf) = PosIbuf /\ RunAt(d \o obuf, 0)
      <4>1. 0 + Len(d) = PosObuf /\ PosIbuf = Len(d) + Len(obuf) /\ d \in LineSeq /\ RunAt(d, 0)
        BY <2>0, <3>4, <3>5, Positions DEF PosIbuf
      <4> QED
        BY <2>1, <3>1, <4>1, RunCat
    <3>7. PICK e : e = d \o obuf
      OBVIOUS
    <3>8. e \o ibuf \in LineSeq /\ Len(e \o ibuf) = PosInq /\ RunAt(e \o ibuf, 0)
      <4>1. 0 + Len(e) = PosIbuf /\ PosInq = Len(e) + Len(ibuf) /\ e \in LineSeq /\ RunAt(e, 0)
        BY <2>0, <3>6, <3>7, Positions DEF PosInq
      <4> QED
        BY <2>1, <3>1, <4>1, RunCat
    <3>9. PICK f : f = e \o ibuf
      OBVIOUS
    <3>10. f \o inq \in LineSeq /\ Len(f \o inq) = typed /\ RunAt(f \o inq, 0)
      <4>1. 0 + Len(f) = PosInq /\ typed = Len(f) + Len(inq) /\ f \in LineSeq /\ RunAt(f, 0)
        BY <2>0, <3>1, <3>8, <3>9, Positions
      <4> QED
        BY <2>1, <3>1, <4>1, RunCat
    <3>11. f \o inq = Upto(typed)
      BY <3>10, RunFromStart
    <3>12. out \o fr \o rbuf \o s2c \o sbuf \o c2s \o obuf \o ibuf \o inq = Upto(typed)
      BY <2>5, <3>3, <3>5, <3>7, <3>9, <3>11
    <3> QED
      BY <2>0, <2>8, <3>12 DEF FlowIntact
  <2> QED
    BY <2>7, <2>8
<1> QED
  BY <1>1, StrInvInit, StrInvStep, PTL DEF Spec

\* A client that ends normally with a server that did not die has printed every line, and the server
\* is called terminated prematurely only when it died, but for the versions the property names
\* (strcliselect01.c, strclinonb.c, strclithread2.c).
THEOREM EndIsTruthful == Spec => []EndsTruthful
<1>1. StrInv => EndsTruthful
  <2> SUFFICES ASSUME StrInv PROVE EndsTruthful
    OBVIOUS
  <2>0. TypeOK /\ BackRuns /\ ClientShape /\ AllPrinted /\ PrematureMeansDied
    BY DEF StrInv
  <2>1. ASSUME ended = "normal", server # "died", client # "strcliselect01" PROVE out \o fr = Upto(typed)
    <3>1. out \in LineSeq /\ fr \in LineSeq /\ Len(out) \in Nat /\ 0 \in Nat /\ 0 + Len(out) = PosFr /\ PosRbuf = Len(out) + Len(fr)
      BY <2>0, BufferFacts DEF PosFr, PosRbuf
    <3>2. RunAt(out, 0) /\ RunAt(fr, PosFr) /\ PosRbuf = typed
      BY <2>0, <2>1 DEF BackRuns, AllPrinted
    <3>3. out \o fr \in LineSeq /\ Len(out \o fr) = typed /\ RunAt(out \o fr, 0)
      BY <3>1, <3>2, RunCat
    <3> QED
      BY <3>3, RunFromStart
  <2>2. fr # <<>> => client = "strclinonb"
    BY <2>0, ClientFacts DEF ClientShape
  <2>3. NormalMeansAll
    BY <2>1, <2>2 DEF NormalMeansAll
  <2> QED
    BY <2>0, <2>3 DEF EndsTruthful
<1> QED
  BY <1>1, StrInvInit, StrInvStep, PTL DEF Spec
-----------------------------------------------------------------------------
(* The daytime programs                                                     *)

DayPcs == {"lookup", "quit", "socket", "name", "gaveup", "died", "request", "run", "done"}

DayTypeOK ==
    /\ dPc \in [Sides -> DayPcs]
    /\ dAddrs \in [Sides -> Nat]
    /\ dTried \in [Sides -> Seq({"nosock", "failed", "ok"})]
    /\ dOpen \in [Sides -> SUBSET Nat]
    /\ dList \in [Sides -> {"none", "held", "freed"}]

\* No address of a walk that goes on has worked, and its only socket is for the next one.
WalkGoesOn(p) ==
    /\ Len(dTried[p]) < dAddrs[p]
    /\ \A k \in 1 .. Len(dTried[p]) : dTried[p][k] # "ok"

\* What a program has tried and holds open at each place
WalkAt(p) ==
    LET last == Len(dTried[p]) IN
    /\ dPc[p] \in {"lookup", "quit"} => dTried[p] = <<>> /\ dOpen[p] = {}
    /\ dPc[p] = "socket" => WalkGoesOn(p) /\ dOpen[p] = {}
    /\ dPc[p] = "name" => WalkGoesOn(p) /\ dOpen[p] = {last + 1}
    /\ dPc[p] \in {"request", "run", "done"} =>
          last > 0 /\ dTried[p][last] = "ok" /\ dOpen[p] = {last} /\ dList[p] # "held"
    /\ dPc[p] = "gaveup" =>
          last > 0 /\ last = dAddrs[p] /\ dTried[p][last] # "ok" /\ dOpen[p] = {}
    /\ \A k \in 1 .. last : dTried[p][k] = "ok" => k = last

\* The end of file comes behind the day.
DayComesFirst ==
    /\ dEnd = "fin" => dData \/ dGot
    /\ dPc["client"] = "done" => dGot

DayInv == DayTypeOK /\ (\A p \in Sides : WalkAt(p)) /\ DayComesFirst

LEMMA DayInitial == DayInit => DayInv
<1> SUFFICES ASSUME DayInit PROVE DayInv
  OBVIOUS
<1>1. PICK cli \in DayClients, srv \in DayServers : DayStart(cli, srv, "lookup")
  BY DEF DayInit
<1>2. DayTypeOK
  BY <1>1 DEF DayStart, DayTypeOK, DayPcs
<1>3. \A p \in Sides : WalkAt(p)
  BY <1>1 DEF DayStart, WalkAt
<1>4. DayComesFirst
  BY <1>1 DEF DayStart, DayComesFirst, Sides
<1> QED
  BY <1>2, <1>3, <1>4 DEF DayInv

\* A program whose part of the state does not change keeps what is said of it.
LEMMA WalkKept ==
    ASSUME NEW p \in Sides, WalkAt(p), dTried'[p] = dTried[p], dOpen'[p] = dOpen[p], dAddrs'[p] = dAddrs[p],
           dList'[p] = dList[p], dPc'[p] = dPc[p]
    PROVE  WalkAt(p)'
BY DEF WalkAt, WalkGoesOn

\* What a failed attempt adds to the list of attempts
LEMMA OneMoreTried ==
    ASSUME NEW s \in Seq({"nosock", "failed", "ok"}), NEW e \in {"nosock", "failed", "ok"},
           \A k \in 1 .. Len(s) : s[k] # "ok"
    PROVE  /\ Append(s, e) \in Seq({"nosock", "failed", "ok"})
           /\ Len(Append(s, e)) = Len(s) + 1
           /\ Append(s, e)[Len(s) + 1] = e
           /\ \A k \in 1 .. Len(s) : Append(s, e)[k] # "ok"
<1>1. Len(s) \in Nat
  OBVIOUS
<1>2. Append(s, e) \in Seq({"nosock", "failed", "ok"}) /\ Len(Append(s, e)) = Len(s) + 1
  OBVIOUS
<1>3. Append(s, e)[Len(s) + 1] = e
  OBVIOUS
<1>4. \A k \in 1 .. Len(s) : Append(s, e)[k] = s[k]
  OBVIOUS
<1> QED
  BY <1>2, <1>3, <1>4

LEMMA SkipKeeps ==
    ASSUME DayInv, NEW p \in Sides, NEW why \in {"nosock", "failed"}, WalkGoesOn(p), Skip(p, why),
           dOpen' \in [Sides -> SUBSET Nat], dOpen'[p] = {}, UNCHANGED <<dAddrs, dList>>,
           \A q \in Sides \ {p} : dOpen'[q] = dOpen[q]
    PROVE  DayTypeOK' /\ \A q \in Sides : WalkAt(q)'
<1> DEFINE s == dTried[p]
<1>1. s \in Seq({"nosock", "failed", "ok"}) /\ Len(s) \in Nat /\ dAddrs[p] \in Nat
  BY DEF DayInv, DayTypeOK
<1>2. dTried'[p] = Append(s, why) /\ \A q \in Sides \ {p} : dTried'[q] = dTried[q] /\ dPc'[q] = dPc[q]
  BY DEF Skip, DayInv, DayTypeOK
<1>3. /\ Append(s, why) \in Seq({"nosock", "failed", "ok"})
      /\ Len(Append(s, why)) = Len(s) + 1
      /\ Append(s, why)[Len(s) + 1] = why
      /\ \A k \in 1 .. Len(s) : Append(s, why)[k] # "ok"
  BY <1>1, OneMoreTried DEF WalkGoesOn
<1>4. dPc'[p] = IF Len(s) + 1 = dAddrs[p] THEN "gaveup" ELSE "socket"
  BY DEF Skip, DayInv, DayTypeOK
<1>5. DayTypeOK'
  <2>1. dPc' \in [Sides -> DayPcs]
    BY DEF Skip, DayInv, DayTypeOK, DayPcs
  <2>2. dTried' \in [Sides -> Seq({"nosock", "failed", "ok"})]
    BY <1>3 DEF Skip, DayInv, DayTypeOK
  <2> QED
    BY <2>1, <2>2 DEF DayInv, DayTypeOK
<1>6. WalkAt(p)'
  <2>1. Len(dTried'[p]) = Len(s) + 1 /\ \A k \in 1 .. Len(s) + 1 : dTried'[p][k] # "ok"
    BY <1>1, <1>2, <1>3
  <2>2. dAddrs'[p] = dAddrs[p] /\ Len(s) < dAddrs[p]
    BY DEF WalkGoesOn
  <2> QED
    BY <1>1, <1>4, <2>1, <2>2 DEF WalkAt, WalkGoesOn
<1>7. \A q \in Sides \ {p} : WalkAt(q)'
  BY <1>2, WalkKept DEF DayInv
<1> QED
  BY <1>5, <1>6, <1>7

\* Every walking step keeps the walk right.
LEMMA WalksKeep ==
    ASSUME DayInv, NEW p \in Sides, DayWalks(p)
    PROVE  DayInv'
<1>t. DayTypeOK /\ (\A q \in Sides : WalkAt(q)) /\ DayComesFirst
  BY DEF DayInv
<1>s. dTried[p] \in Seq({"nosock", "failed", "ok"}) /\ Len(dTried[p]) \in Nat /\ dAddrs[p] \in Nat
  BY <1>t DEF DayTypeOK
<1>1. CASE Lookup(p)
  <2>1. PICK n \in 0 .. DayAddrs :
          /\ dPc' = [dPc EXCEPT ![p] = IF n = 0 THEN "quit" ELSE "socket"]
          /\ dAddrs' = [dAddrs EXCEPT ![p] = n]
          /\ dList' = [dList EXCEPT ![p] = IF n > 0 /\ dProg[p].list THEN "held" ELSE "none"]
    BY <1>1 DEF Lookup
  <2>2. n \in Nat /\ UNCHANGED <<dTried, dOpen>> /\ dPc[p] = "lookup" /\ UNCHANGED exchange
    BY <1>1, DayAssumption DEF Lookup
  <2>3. DayTypeOK'
    BY <1>t, <2>1, <2>2 DEF DayTypeOK, DayPcs
  <2>4. WalkAt(p)'
    <3>1. dTried'[p] = <<>> /\ dOpen'[p] = {} /\ Len(<<>>) = 0
      BY <1>t, <2>2 DEF WalkAt
    <3>2. dPc'[p] = (IF n = 0 THEN "quit" ELSE "socket") /\ dAddrs'[p] = n
      BY <1>t, <2>1 DEF DayTypeOK
    <3> QED
      BY <3>1, <3>2, <2>2 DEF WalkAt, WalkGoesOn
  <2>5. \A q \in Sides \ {p} : WalkAt(q)'
    BY <1>t, <2>1, <2>2, WalkKept DEF DayTypeOK
  <2>6. DayComesFirst'
    BY <1>t, <2>1, <2>2, <2>3 DEF DayComesFirst, exchange, DayTypeOK, Sides
  <2> QED
    BY <2>3, <2>4, <2>5, <2>6 DEF DayInv
<1>2. CASE NoSocket(p)
  <2>1. dPc[p] = "socket" /\ UNCHANGED <<dAddrs, dOpen, dList>> /\ UNCHANGED exchange
    BY <1>2 DEF NoSocket
  <2>2. WalkGoesOn(p) /\ dOpen[p] = {}
    BY <1>t, <2>1 DEF WalkAt
  <2>3. CASE dProg[p].must
    <3>1. dPc' = [dPc EXCEPT ![p] = "died"] /\ UNCHANGED dTried
      BY <1>2, <2>3 DEF NoSocket
    <3>2. DayTypeOK'
      BY <1>t, <2>1, <3>1 DEF DayTypeOK, DayPcs
    <3>3. WalkAt(p)'
      <4>1. dPc'[p] = "died"
        BY <1>t, <3>1 DEF DayTypeOK
      <4> QED
        BY <1>t, <2>1, <3>1, <4>1 DEF WalkAt
    <3>4. \A q \in Sides \ {p} : WalkAt(q)'
      BY <1>t, <2>1, <3>1, WalkKept DEF DayTypeOK
    <3>5. DayComesFirst'
      BY <1>t, <2>1, <3>1 DEF DayComesFirst, exchange, DayTypeOK, Sides
    <3> QED
      BY <3>2, <3>3, <3>4, <3>5 DEF DayInv
  <2>4. CASE ~dProg[p].must
    <3>1. Skip(p, "nosock")
      BY <1>2, <2>4 DEF NoSocket
    <3>2. DayTypeOK' /\ \A q \in Sides : WalkAt(q)'
      BY <1>t, <2>1, <2>2, <3>1, SkipKeeps DEF DayTypeOK
    <3>3. DayComesFirst'
      BY <1>t, <2>1, <3>1 DEF Skip, DayComesFirst, exchange, DayTypeOK, Sides
    <3> QED
      BY <3>2, <3>3 DEF DayInv
  <2> QED
    BY <2>3, <2>4
<1>3. CASE GetSocket(p)
  <2>1. /\ dPc[p] = "socket" /\ dPc' = [dPc EXCEPT ![p] = "name"] /\ UNCHANGED <<dAddrs, dTried, dList>>
        /\ dOpen' = [dOpen EXCEPT ![p] = @ \cup {Len(dTried[p]) + 1}] /\ UNCHANGED exchange
    BY <1>3 DEF GetSocket
  <2>2. WalkGoesOn(p) /\ dOpen[p] = {}
    BY <1>t, <2>1 DEF WalkAt
  <2>3. DayTypeOK'
    <3>1. Len(dTried[p]) + 1 \in Nat
      BY <1>s
    <3>2. dOpen' \in [Sides -> SUBSET Nat]
      BY <1>t, <2>1, <3>1 DEF DayTypeOK
    <3> QED
      BY <1>t, <2>1, <3>2 DEF DayTypeOK, DayPcs
  <2>4. WalkAt(p)'
    <3>1. dPc'[p] = "name" /\ dOpen'[p] = {Len(dTried[p]) + 1}
      BY <1>t, <2>1, <2>2 DEF DayTypeOK
    <3> QED
      BY <1>t, <2>1, <2>2, <3>1 DEF WalkAt, WalkGoesOn
  <2>5. \A q \in Sides \ {p} : WalkAt(q)'
    BY <1>t, <2>1, WalkKept DEF DayTypeOK
  <2>6. DayComesFirst'
    BY <1>t, <2>1 DEF DayComesFirst, exchange, DayTypeOK, Sides
  <2> QED
    BY <2>3, <2>4, <2>5, <2>6 DEF DayInv
<1>4. CASE Unusable(p)
  <2>1. /\ dPc[p] = "name" /\ Skip(p, "failed") /\ UNCHANGED <<dAddrs, dList>> /\ UNCHANGED exchange
        /\ dOpen' = [dOpen EXCEPT ![p] = @ \ {Len(dTried[p]) + 1}]
    BY <1>4 DEF Unusable
  <2>2. WalkGoesOn(p) /\ dOpen[p] = {Len(dTried[p]) + 1}
    BY <1>t, <2>1 DEF WalkAt
  <2>3. /\ dOpen' \in [Sides -> SUBSET Nat] /\ dOpen'[p] = {}
        /\ \A q \in Sides \ {p} : dOpen'[q] = dOpen[q]
    BY <1>t, <2>1, <2>2 DEF DayTypeOK
  <2>4. DayTypeOK' /\ \A q \in Sides : WalkAt(q)'
    BY <2>1, <2>2, <2>3, SkipKeeps
  <2>5. DayComesFirst'
    BY <1>t, <2>1 DEF Skip, DayComesFirst, exchange, DayTypeOK, Sides
  <2> QED
    BY <2>4, <2>5 DEF DayInv
<1>5. CASE Usable(p)
  <2> DEFINE s == dTried[p]
  <2>1. /\ dPc[p] = "name" /\ UNCHANGED <<dAddrs, dOpen>> /\ UNCHANGED exchange
        /\ dTried' = [dTried EXCEPT ![p] = Append(@, "ok")]
        /\ dPc' = [dPc EXCEPT ![p] = IF p = "client" /\ dProg[p].udp THEN "request" ELSE "run"]
        /\ dList' = [dList EXCEPT ![p] = IF @ = "held" THEN "freed" ELSE @]
    BY <1>5 DEF Usable
  <2>2. WalkGoesOn(p) /\ dOpen[p] = {Len(s) + 1}
    BY <1>t, <2>1 DEF WalkAt
  <2>3. /\ Append(s, "ok") \in Seq({"nosock", "failed", "ok"})
        /\ Len(Append(s, "ok")) = Len(s) + 1
        /\ Append(s, "ok")[Len(s) + 1] = "ok"
        /\ \A k \in 1 .. Len(s) : Append(s, "ok")[k] # "ok"
    BY <1>s, <2>2, OneMoreTried DEF WalkGoesOn
  <2>4. DayTypeOK'
    BY <1>t, <2>1, <2>3 DEF DayTypeOK, DayPcs
  <2>5. WalkAt(p)'
    <3>1. /\ dTried'[p] = Append(s, "ok") /\ dPc'[p] \in {"request", "run"} /\ dOpen'[p] = {Len(s) + 1}
          /\ dList'[p] # "held"
      BY <1>t, <2>1, <2>2 DEF DayTypeOK
    <3>2. \A k \in 1 .. Len(s) + 1 : dTried'[p][k] = "ok" => k = Len(s) + 1
      BY <1>s, <2>3, <3>1
    <3> QED
      BY <1>s, <2>3, <3>1, <3>2 DEF WalkAt
  <2>6. \A q \in Sides \ {p} : WalkAt(q)'
    BY <1>t, <2>1, WalkKept DEF DayTypeOK
  <2>7. DayComesFirst'
    BY <1>t, <2>1 DEF DayComesFirst, exchange, DayTypeOK, Sides
  <2> QED
    BY <2>4, <2>5, <2>6, <2>7 DEF DayInv
<1> QED
  BY <1>1, <1>2, <1>3, <1>4, <1>5 DEF DayWalks

\* In the exchange a program stays where its walk is over, or dies.
LEMMA ExchangeWalks ==
    ASSUME DayInv, UNCHANGED walk, dPc' \in [Sides -> DayPcs],
           \A q \in Sides : \/ dPc'[q] = dPc[q] \/ dPc'[q] = "died"
                            \/ dPc[q] \in {"request", "run"} /\ dPc'[q] \in {"run", "done"}
    PROVE  DayTypeOK' /\ \A q \in Sides : WalkAt(q)'
<1>1. DayTypeOK'
  BY DEF DayInv, DayTypeOK, walk
<1>2. \A q \in Sides : WalkAt(q)'
  <2> TAKE q \in Sides
  <2>1. WalkAt(q) /\ UNCHANGED <<dTried, dOpen, dAddrs, dList>>
    BY DEF DayInv, walk
  <2>2. CASE dPc'[q] = dPc[q]
    BY <2>1, <2>2, WalkKept
  <2>3. CASE dPc'[q] = "died"
    BY <2>1, <2>3 DEF WalkAt
  <2>4. CASE dPc[q] \in {"request", "run"} /\ dPc'[q] \in {"run", "done"}
    BY <2>1, <2>4 DEF WalkAt
  <2> QED
    BY <2>2, <2>3, <2>4
<1> QED
  BY <1>1, <1>2

LEMMA DayStep ==
    ASSUME DayInv, [DayNext]_dayVars
    PROVE  DayInv'
<1>t. DayTypeOK /\ DayComesFirst /\ dPc \in [Sides -> DayPcs] /\ "client" \in Sides /\ "server" \in Sides
  BY DEF DayInv, DayTypeOK, Sides
<1>1. CASE UNCHANGED dayVars
  BY <1>1 DEF DayInv, DayTypeOK, WalkAt, WalkGoesOn, DayComesFirst, dayVars
<1>2. ASSUME NEW p \in Sides, DayWalks(p) PROVE DayInv'
  BY <1>2, WalksKeep
<1>3. CASE SendRequest
  <2>1. /\ dPc["client"] = "request" /\ dPc' = [dPc EXCEPT !["client"] = "run"] /\ UNCHANGED walk
        /\ UNCHANGED <<dData, dGot>> /\ (dEnd' = dEnd \/ dEnd' = "rst")
    BY <1>3 DEF SendRequest
  <2>2. DayTypeOK' /\ \A q \in Sides : WalkAt(q)'
    BY <1>t, <2>1, ExchangeWalks DEF DayPcs
  <2>3. DayComesFirst'
    BY <1>t, <2>1 DEF DayComesFirst
  <2> QED
    BY <2>2, <2>3 DEF DayInv
<1>4. CASE OtherClient \/ OtherResets \/ TakeClient
  <2>1. UNCHANGED walk /\ UNCHANGED <<dPc, dData, dEnd, dGot>>
    BY <1>4 DEF OtherClient, OtherResets, TakeClient
  <2>2. DayTypeOK' /\ \A q \in Sides : WalkAt(q)'
    BY <1>t, <2>1, ExchangeWalks
  <2>3. DayComesFirst'
    BY <1>t, <2>1 DEF DayComesFirst
  <2> QED
    BY <2>2, <2>3 DEF DayInv
<1>5. CASE ServerDies
  <2>1. /\ dPc' = [dPc EXCEPT !["server"] = "died"] /\ UNCHANGED walk
        /\ UNCHANGED <<dData, dGot>> /\ (dEnd' = dEnd \/ dEnd' = "rst")
    BY <1>5 DEF ServerDies
  <2>2. DayTypeOK' /\ \A q \in Sides : WalkAt(q)'
    BY <1>t, <2>1, ExchangeWalks DEF DayPcs
  <2>3. DayComesFirst'
    BY <1>t, <2>1 DEF DayComesFirst
  <2> QED
    BY <2>2, <2>3 DEF DayInv
<1>6. CASE Answer
  <2>1. UNCHANGED walk /\ UNCHANGED <<dPc, dGot>>
    BY <1>6 DEF Answer
  <2>2. DayTypeOK' /\ \A q \in Sides : WalkAt(q)'
    BY <1>t, <2>1, ExchangeWalks
  <2>3. dEnd' = "fin" => dData' \/ (dEnd = "fin" /\ dData' = dData)
    BY <1>6 DEF Answer
  <2>4. DayComesFirst'
    BY <1>t, <2>1, <2>3 DEF DayComesFirst
  <2> QED
    BY <2>2, <2>4 DEF DayInv
<1>7. CASE ReadDay
  <2>1. dPc["client"] = "run" /\ UNCHANGED walk /\ UNCHANGED dEnd
    BY <1>7 DEF ReadDay
  <2>2. CASE dData /\ dData' = FALSE /\ dGot' = TRUE
             /\ dPc' = IF dProg["client"].udp THEN [dPc EXCEPT !["client"] = "done"] ELSE dPc
    <3>1. DayTypeOK' /\ \A q \in Sides : WalkAt(q)'
      BY <1>t, <2>1, <2>2, ExchangeWalks DEF DayPcs
    <3> QED
      BY <2>2, <3>1 DEF DayInv, DayComesFirst
  <2>3. CASE ~dData /\ dEnd # "open" /\ dPc' = [dPc EXCEPT !["client"] = IF dEnd = "fin" THEN "done" ELSE "died"]
             /\ UNCHANGED <<dData, dGot>>
    <3>1. DayTypeOK' /\ \A q \in Sides : WalkAt(q)'
      BY <1>t, <2>1, <2>3, ExchangeWalks DEF DayPcs
    <3>2. DayComesFirst'
      BY <1>t, <2>1, <2>3 DEF DayComesFirst
    <3> QED
      BY <3>1, <3>2 DEF DayInv
  <2> QED
    BY <1>7, <2>2, <2>3 DEF ReadDay
<1>8. ASSUME NEW p \in Sides, WrapperFails(p) PROVE DayInv'
  <2>1. /\ dPc' = [dPc EXCEPT ![p] = "died"] /\ UNCHANGED walk
        /\ UNCHANGED <<dData, dEnd, dGot>>
    BY <1>8 DEF WrapperFails, exchange
  <2>2. DayTypeOK' /\ \A q \in Sides : WalkAt(q)'
    BY <1>t, <2>1, ExchangeWalks DEF DayPcs
  <2>3. DayComesFirst'
    BY <1>t, <2>1 DEF DayComesFirst
  <2> QED
    BY <2>2, <2>3 DEF DayInv
<1> QED
  BY <1>1, <1>2, <1>3, <1>4, <1>5, <1>6, <1>7, <1>8 DEF DayNext, DayServes, DayReads

\* WalkRight, the safety half of DayRight, for any number of addresses and of other
\* clients: tcp_connect(), tcp_listen(), the udp_ functions and the loops written out in
\* names/ use the first address that works, leave no other socket open, give up only when
\* every address has failed, and free the list before they return; and a client that ends
\* normally has read the day.
THEOREM WalkIsRight == DaySpec => []WalkRight
<1>1. DayInit => DayInv
  BY DayInitial
<1>2. DayInv /\ [DayNext]_dayVars => DayInv'
  BY DayStep
<1>3. DayInv => WalkRight
  <2> SUFFICES ASSUME DayInv PROVE WalkRight
    OBVIOUS
  <2>1. \A p \in Sides :
          LET last == Len(dTried[p]) IN
          /\ \A k \in 1 .. last : dTried[p][k] = "ok" => k = last
          /\ dPc[p] \in {"request", "run", "done"} => dTried[p][last] = "ok" /\ dOpen[p] = {last} /\ dList[p] # "held"
          /\ dPc[p] = "gaveup" => last = dAddrs[p] /\ dTried[p][last] # "ok" /\ dOpen[p] = {}
    BY DEF DayInv, WalkAt
  <2> QED
    BY <2>1 DEF DayInv, DayComesFirst, WalkRight
<1> QED
  BY <1>1, <1>2, <1>3, PTL DEF DaySpec
-----------------------------------------------------------------------------
(* The heartbeat                                                            *)

HbPcs == {"start", "run", "off", "shut", "sigpipe", "recverr", "unreachable", "noprobes", "premature", "normal"}
HbProcess == [pc : HbPcs, top : {"main", "urg", "alrm"}, urgpc : {"none", "recv", "send", "reset"}, loaded : Nat \cup {-1},
              nprobes : Nat, alarm : {"off", "set", "pending"}, urg : BOOLEAN, oob : {"none", "mark", "byte"}, in : Nat]

HbTypeOK == hEnd \in [Ends -> HbProcess] /\ hCut \in BOOLEAN /\ hSpoilt \in BOOLEAN /\ hLate \in BOOLEAN

\* A probe or its answer is on its way to a handler that will send it on or count it.  The
\* server's handler is not such a place any more when it has echoed the byte.
Pending ==
    \/ \E p \in Ends : hEnd[p].in > 0 \/ hEnd[p].urg
    \/ hEnd["cli"].urgpc # "none" \/ hEnd["srv"].urgpc \in {"recv", "send"}

\* A client that has counted a probe, or is about to, has not been answered yet.
CountedIsPending ==
    Alive("cli") /\ Alive("srv") /\ ~hCut /\ ~hSpoilt /\ ~Pending =>
       hEnd["cli"].nprobes = 0 /\ hEnd["cli"].loaded \in {-1, 0}

\* main() does not run while sig_alrm() does, and after alarm(0) there is no SIGALRM.
AlarmOver ==
    /\ Alive("cli") /\ hEnd["cli"].top = "main" => hEnd["cli"].loaded = -1
    /\ hEnd["cli"].pc \in {"off", "shut"} /\ ~hLate =>
          hEnd["cli"].alarm = "off" /\ hEnd["cli"].loaded = -1 /\ hEnd["cli"].top # "alrm"

HbInv == HbTypeOK /\ CountedIsPending /\ AlarmOver

LEMMA HbInitial == HbInit => HbInv
<1> SUFFICES ASSUME HbInit PROVE HbInv
  OBVIOUS
<1>1. hEnd \in [Ends -> HbProcess]
  BY DEF HbInit, HbStart, heartbeat_cli, Process, HbProcess, HbPcs, Ends
<1>2. hEnd["cli"] = Process("run", "set")
  BY DEF HbInit, HbStart, heartbeat_cli, Ends
<1>3. HbTypeOK
  BY <1>1 DEF HbInit, HbStart, HbTypeOK
<1>4. hEnd["cli"].nprobes = 0 /\ hEnd["cli"].loaded = -1 /\ hEnd["cli"].pc = "run"
  BY <1>2 DEF Process
<1> QED
  BY <1>3, <1>4 DEF HbInv, CountedIsPending, AlarmOver

\* The two processes by name
LEMMA HbParts ==
    ASSUME HbInv
    PROVE  /\ Ends = {"cli", "srv"} /\ Peer("cli") = "srv" /\ Peer("srv") = "cli"
           /\ hEnd \in [Ends -> HbProcess] /\ hEnd["cli"] \in HbProcess /\ hEnd["srv"] \in HbProcess
BY DEF HbInv, HbTypeOK, Ends, Peer

\* A process that has ended for whatever reason is like no other.
LEMMA HbEnded ==
    ASSUME NEW why \in HbPcs
    PROVE  Process(why, "off") \in HbProcess /\ Process(why, "off").pc = why
BY DEF Process, HbProcess

\* CountedIsPending and AlarmOver as said of a client c and a server s
StillAlive(e) == e.pc \in {"start", "run", "off", "shut"}
Idle(c, s) == c.in = 0 /\ s.in = 0 /\ ~c.urg /\ ~s.urg /\ c.urgpc = "none" /\ s.urgpc \notin {"recv", "send"}
CountsOf(c, s, cut, raced) ==
    StillAlive(c) /\ StillAlive(s) /\ ~cut /\ ~raced /\ Idle(c, s) => c.nprobes = 0 /\ c.loaded \in {-1, 0}
AlarmOf(c, late) ==
    /\ StillAlive(c) /\ c.top = "main" => c.loaded = -1
    /\ c.pc \in {"off", "shut"} /\ ~late => c.alarm = "off" /\ c.loaded = -1 /\ c.top # "alrm"

LEMMA HbFromParts ==
    ASSUME NEW c \in HbProcess, NEW s \in HbProcess, hEnd' = [p \in Ends |-> IF p = "cli" THEN c ELSE s],
           hCut' \in BOOLEAN, hSpoilt' \in BOOLEAN, hLate' \in BOOLEAN,
           CountsOf(c, s, hCut', hSpoilt'), AlarmOf(c, hLate')
    PROVE  HbInv'
<1>1. hEnd'["cli"] = c /\ hEnd'["srv"] = s
  BY DEF Ends
<1>2. HbTypeOK'
  BY DEF HbTypeOK, Ends
<1>3. CountedIsPending'
  <2>1. c.in \in Nat /\ s.in \in Nat
    BY DEF HbProcess
  <2>2. ~Pending' => Idle(c, s)
    BY <1>1, <2>1 DEF Pending, Ends, Idle
  <2> QED
    BY <1>1, <2>2 DEF CountedIsPending, Alive, CountsOf, StillAlive
<1>4. AlarmOver'
  BY <1>1 DEF AlarmOver, Alive, AlarmOf, StillAlive
<1> QED
  BY <1>2, <1>3, <1>4 DEF HbInv

LEMMA HbToParts ==
    ASSUME HbInv
    PROVE  CountsOf(hEnd["cli"], hEnd["srv"], hCut, hSpoilt) /\ AlarmOf(hEnd["cli"], hLate)
<1>1. Idle(hEnd["cli"], hEnd["srv"]) => ~Pending
  BY DEF Pending, Idle, Ends
<1>2. CountsOf(hEnd["cli"], hEnd["srv"], hCut, hSpoilt)
  BY <1>1 DEF HbInv, CountedIsPending, Alive, CountsOf, StillAlive
<1>3. AlarmOf(hEnd["cli"], hLate)
  BY DEF HbInv, AlarmOver, Alive, AlarmOf, StillAlive
<1> QED
  BY <1>2, <1>3

\* A step of the network or of a handler on the way of a notice
LEMMA HbNoticeSteps ==
    ASSUME HbInv, NEW p \in Ends, NEW oob \in {"byte", "mark"},
           UrgArrives(p, oob) \/ ByteArrives(p) \/ DeliverUrg(p)
    PROVE  HbInv' /\ hEnd'["cli"].pc = hEnd["cli"].pc
<1> DEFINE e == hEnd[p]
<1>1. /\ Ends = {"cli", "srv"} /\ hEnd \in [Ends -> HbProcess] /\ e \in HbProcess
      /\ hEnd["cli"] \in HbProcess /\ hEnd["srv"] \in HbProcess
  BY HbParts
<1>u. UNCHANGED <<hCut, hSpoilt, hLate>> /\ hCut \in BOOLEAN /\ hSpoilt \in BOOLEAN /\ hLate \in BOOLEAN
  BY DEF UrgArrives, ByteArrives, DeliverUrg, HbInv, HbTypeOK
<1>2. PICK f \in HbProcess :
        /\ hEnd' = [hEnd EXCEPT ![p] = f]
        /\ f.pc = e.pc /\ f.nprobes = e.nprobes /\ f.loaded = e.loaded /\ f.alarm = e.alarm
        /\ f.top = e.top \/ f.top = "urg"
        /\ e.in > 0 \/ e.urg => f.in > 0 \/ f.urg \/ f.urgpc = "recv"
        /\ f.urgpc = e.urgpc \/ f.urgpc = "recv"
  <2>1. CASE UrgArrives(p, oob)
    <3> DEFINE f == [e EXCEPT !.in = @ - 1, !.urg = TRUE, !.oob = oob]
    <3>1. hEnd' = [hEnd EXCEPT ![p] = f]
      BY <1>1, <2>1 DEF UrgArrives
    <3>2. e.in \in Nat /\ e.in - 1 \in Nat
      BY <1>1, <2>1 DEF UrgArrives, HbProcess
    <3>3. f \in HbProcess
      BY <1>1, <3>2, ZenonT(60) DEF HbProcess
    <3>4. /\ f.pc = e.pc /\ f.nprobes = e.nprobes /\ f.loaded = e.loaded /\ f.alarm = e.alarm
          /\ f.top = e.top /\ f.urg /\ f.urgpc = e.urgpc
      BY <1>1 DEF HbProcess
    <3> QED
      BY <3>1, <3>3, <3>4
  <2>2. CASE ByteArrives(p)
    <3> DEFINE f == [e EXCEPT !.oob = "byte"]
    <3>1. hEnd' = [hEnd EXCEPT ![p] = f]
      BY <1>1, <2>2 DEF ByteArrives
    <3>2. f \in HbProcess
      BY <1>1 DEF HbProcess
    <3>3. /\ f.pc = e.pc /\ f.nprobes = e.nprobes /\ f.loaded = e.loaded /\ f.alarm = e.alarm
          /\ f.top = e.top /\ f.urg = e.urg /\ f.urgpc = e.urgpc /\ f.in = e.in
      BY <1>1 DEF HbProcess
    <3> QED
      BY <3>1, <3>2, <3>3
  <2>3. CASE DeliverUrg(p)
    <3> DEFINE f == [e EXCEPT !.urg = FALSE, !.top = "urg", !.urgpc = "recv"]
    <3>1. hEnd' = [hEnd EXCEPT ![p] = f]
      BY <1>1, <2>3 DEF DeliverUrg
    <3>2. f \in HbProcess
      BY <1>1, ZenonT(60) DEF HbProcess
    <3> QED
      BY <1>1, <3>1, <3>2 DEF HbProcess
  <2> QED
    BY <2>1, <2>2, <2>3
<1> DEFINE c == IF p = "cli" THEN f ELSE hEnd["cli"]
           s == IF p = "srv" THEN f ELSE hEnd["srv"]
<1>3. hEnd' = [q \in Ends |-> IF q = "cli" THEN c ELSE s] /\ c \in HbProcess /\ s \in HbProcess
  BY <1>1, <1>2
<1>4. c.pc = hEnd["cli"].pc /\ s.pc = hEnd["srv"].pc
  BY <1>1, <1>2
<1>5. c.nprobes = hEnd["cli"].nprobes /\ c.loaded = hEnd["cli"].loaded /\ c.alarm = hEnd["cli"].alarm
      /\ (c.top = hEnd["cli"].top \/ c.top = "urg")
  BY <1>1, <1>2
<1>6. c.in = 0 /\ s.in = 0 /\ ~c.urg /\ ~s.urg /\ c.urgpc = "none" /\ s.urgpc \notin {"recv", "send"} =>
        hEnd["cli"].in = 0 /\ hEnd["srv"].in = 0 /\ ~hEnd["cli"].urg /\ ~hEnd["srv"].urg
        /\ hEnd["cli"].urgpc = "none" /\ hEnd["srv"].urgpc \notin {"recv", "send"}
  <2>1. hEnd["cli"].in \in Nat /\ hEnd["srv"].in \in Nat
    BY <1>1 DEF HbProcess
  <2> QED
    BY <1>1, <1>2, <2>1
<1> HIDE DEF c, s
<1>7. CountsOf(c, s, hCut', hSpoilt')
  BY <1>4, <1>5, <1>6, <1>u, HbToParts DEF CountsOf, StillAlive, Idle
<1>8. AlarmOf(c, hLate')
  BY <1>4, <1>5, <1>u, HbToParts DEF AlarmOf, StillAlive
<1>9. HbInv'
  BY <1>3, <1>7, <1>8, <1>u, HbFromParts
<1> QED
  BY <1>1, <1>3, <1>4, <1>9


\* Cut and the steps of main() with the heartbeat
LEMMA HbQuietSteps ==
    ASSUME HbInv, Cut \/ AlarmOff \/ Shutdown
    PROVE  HbInv' /\ (hEnd'["cli"].pc = hEnd["cli"].pc \/ hEnd'["cli"].pc \notin {"unreachable", "sigpipe"})
<1> DEFINE e == hEnd["cli"]
           b == hEnd["srv"]
<1>1. /\ Ends = {"cli", "srv"} /\ hEnd \in [Ends -> HbProcess] /\ e \in HbProcess /\ b \in HbProcess
      /\ hCut \in BOOLEAN /\ hSpoilt \in BOOLEAN /\ hLate \in BOOLEAN
  BY HbParts DEF HbInv, HbTypeOK
<1>2. CASE Cut
  <2> DEFINE c == [e EXCEPT !.in = 0]
             s == [b EXCEPT !.in = 0]
  <2>1. hEnd' = [p \in Ends |-> IF p = "cli" THEN c ELSE s]
    BY <1>1, <1>2 DEF Cut
  <2>2. c \in HbProcess /\ s \in HbProcess /\ c.pc = e.pc /\ c.top = e.top /\ c.loaded = e.loaded /\ c.alarm = e.alarm
    BY <1>1 DEF HbProcess
  <2>3. hCut' = TRUE /\ UNCHANGED <<hSpoilt, hLate>>
    BY <1>2 DEF Cut
  <2> HIDE DEF c, s
  <2>4. CountsOf(c, s, hCut', hSpoilt') /\ AlarmOf(c, hLate')
    BY <2>2, <2>3, HbToParts DEF CountsOf, AlarmOf, StillAlive
  <2>5. HbInv'
    BY <1>1, <2>1, <2>2, <2>3, <2>4, HbFromParts
  <2> QED
    BY <1>1, <2>1, <2>2, <2>5
<1>3. CASE AlarmOff \/ Shutdown
  <2>1. PICK pc \in {"off", "shut"}, alarm \in {"off", "set", "pending"} :
          /\ hEnd' = [hEnd EXCEPT !["cli"] = [e EXCEPT !.pc = pc, !.alarm = alarm]]
          /\ e.pc \in {"run", "off"} /\ e.top = "main"
          /\ ~hLate' => alarm = "off"
          /\ UNCHANGED <<hCut, hSpoilt>> /\ hLate' \in BOOLEAN
    <3>2. CASE AlarmOff
      <4>1. hEnd' = [hEnd EXCEPT !["cli"] = [e EXCEPT !.pc = "off", !.alarm = IF hLate' THEN "pending" ELSE "off"]]
        BY <1>1, <3>2 DEF AlarmOff
      <4> QED
        BY <3>2, <4>1 DEF AlarmOff, InMain
    <3>3. CASE Shutdown
      <4>1. e.alarm \in {"off", "set", "pending"} /\ [e EXCEPT !.pc = "shut", !.alarm = e.alarm] = [e EXCEPT !.pc = "shut"]
        BY <1>1 DEF HbProcess
      <4>2. hEnd' = [hEnd EXCEPT !["cli"] = [e EXCEPT !.pc = "shut", !.alarm = e.alarm]]
        BY <1>1, <3>3, <4>1 DEF Shutdown
      <4>3. e.pc = "off" /\ e.top = "main" /\ UNCHANGED <<hCut, hSpoilt, hLate>>
        BY <3>3 DEF Shutdown, InMain
      <4>4. ~hLate' => e.alarm = "off"
        BY <4>3, HbToParts DEF AlarmOf
      <4> QED
        BY <1>1, <4>1, <4>2, <4>3, <4>4
    <3> QED
      BY <1>3, <3>2, <3>3
  <2> DEFINE c == [e EXCEPT !.pc = pc, !.alarm = alarm]
  <2>2. hEnd' = [p \in Ends |-> IF p = "cli" THEN c ELSE b]
    BY <1>1, <2>1
  <2>3. /\ c \in HbProcess /\ c.pc = pc /\ c.alarm = alarm /\ c.top = e.top /\ c.loaded = e.loaded
        /\ c.in = e.in /\ c.urg = e.urg /\ c.urgpc = e.urgpc /\ c.nprobes = e.nprobes
    BY <1>1 DEF HbProcess, HbPcs
  <2> HIDE DEF c
  <2>4. e.loaded = -1
    BY <2>1, HbToParts DEF AlarmOf, StillAlive
  <2>5. CountsOf(c, b, hCut', hSpoilt')
    <3>1. Idle(c, b) = Idle(e, b)
      BY <2>3 DEF Idle
    <3>2. StillAlive(e)
      BY <2>1 DEF StillAlive
    <3> QED
      BY <2>1, <2>3, <3>1, <3>2, HbToParts DEF CountsOf
  <2>6. AlarmOf(c, hLate')
    BY <2>1, <2>3, <2>4 DEF AlarmOf
  <2>7. HbInv'
    BY <1>1, <2>1, <2>2, <2>3, <2>5, <2>6, HbFromParts
  <2> QED
    BY <1>1, <2>1, <2>2, <2>3, <2>7
<1> QED
  BY <1>2, <1>3

\* A process that ends, and nothing else
LEMMA HbEnds ==
    ASSUME HbInv, NEW p \in Ends, NEW why \in HbPcs \ {"start", "run", "off", "shut"},
           hEnd' = [hEnd EXCEPT ![p] = Process(why, "off")], UNCHANGED <<hCut, hSpoilt, hLate>>
    PROVE  HbInv' /\ hEnd'["cli"].pc = IF p = "cli" THEN why ELSE hEnd["cli"].pc
<1> DEFINE f == Process(why, "off")
           c == IF p = "cli" THEN f ELSE hEnd["cli"]
           s == IF p = "srv" THEN f ELSE hEnd["srv"]
<1>1. /\ Ends = {"cli", "srv"} /\ hEnd \in [Ends -> HbProcess] /\ hEnd["cli"] \in HbProcess /\ hEnd["srv"] \in HbProcess
      /\ hCut \in BOOLEAN /\ hSpoilt \in BOOLEAN /\ hLate \in BOOLEAN
  BY HbParts DEF HbInv, HbTypeOK
<1>2. f \in HbProcess /\ f.pc = why
  BY HbEnded
<1>3. hEnd' = [q \in Ends |-> IF q = "cli" THEN c ELSE s] /\ c \in HbProcess /\ s \in HbProcess
  BY <1>1, <1>2
<1>4. CASE p = "cli"
  <2>1. c.pc = why /\ why \notin {"start", "run", "off", "shut"}
    BY <1>2, <1>4
  <2> HIDE DEF c, s, f
  <2>2. CountsOf(c, s, hCut', hSpoilt') /\ AlarmOf(c, hLate')
    BY <2>1 DEF CountsOf, AlarmOf, StillAlive
  <2>3. HbInv'
    BY <1>1, <1>3, <2>2, HbFromParts
  <2> QED
    BY <1>1, <1>3, <1>4, <2>1, <2>3
<1>5. CASE p = "srv"
  <2>1. s.pc = why /\ c = hEnd["cli"] /\ why \notin {"start", "run", "off", "shut"}
    BY <1>2, <1>5
  <2> HIDE DEF c, s, f
  <2>2. CountsOf(c, s, hCut', hSpoilt') /\ AlarmOf(c, hLate')
    BY <2>1, HbToParts DEF CountsOf, StillAlive
  <2>3. HbInv'
    BY <1>1, <1>3, <2>2, HbFromParts
  <2> QED
    BY <1>1, <1>3, <1>5, <2>1, <2>3
<1> QED
  BY <1>1, <1>4, <1>5

\* What sig_urg() leaves of a process is one.
LEMMA HbReset ==
    ASSUME NEW e \in HbProcess, NEW t \in {"main", "urg", "alrm"}
    PROVE  [e EXCEPT !.nprobes = 0, !.urgpc = "none", !.top = t] \in HbProcess
<1> DEFINE g == [e EXCEPT !.nprobes = 0]
           h == [g EXCEPT !.urgpc = "none"]
<1>1. g \in HbProcess
  BY DEF HbProcess
<1>2. h \in HbProcess
  <2> HIDE DEF g
  <2> QED
    BY <1>1 DEF HbProcess
<1>3. [h EXCEPT !.top = t] \in HbProcess
  <2> HIDE DEF h
  <2> QED
    BY <1>2 DEF HbProcess
<1> QED
  BY <1>3, Zenon

LEMMA HbRecvSteps ==
    ASSUME HbInv, NEW p \in Ends, RecvOob(p) \/ UrgReturns(p) \/ ReadEof(p)
    PROVE  HbInv' /\ (hEnd'["cli"].pc = hEnd["cli"].pc \/ hEnd'["cli"].pc \notin {"unreachable", "sigpipe"})
<1> DEFINE e == hEnd[p]
<1>1. /\ Ends = {"cli", "srv"} /\ hEnd \in [Ends -> HbProcess] /\ hEnd["cli"] \in HbProcess /\ hEnd["srv"] \in HbProcess
      /\ e \in HbProcess /\ hCut \in BOOLEAN /\ hSpoilt \in BOOLEAN /\ hLate \in BOOLEAN
  BY HbParts DEF HbInv, HbTypeOK
<1>2. CASE RecvOob(p) /\ e.oob \in {"byte", "mark"}
  <2> DEFINE f == [e EXCEPT !.urgpc = IF p = "srv" THEN "send" ELSE "reset", !.oob = IF @ = "byte" THEN "none" ELSE @]
             c == IF p = "cli" THEN f ELSE hEnd["cli"]
             s == IF p = "srv" THEN f ELSE hEnd["srv"]
  <2>1. hEnd' = [hEnd EXCEPT ![p] = f] /\ UNCHANGED <<hCut, hSpoilt, hLate>>
    BY <1>2 DEF RecvOob
  <2>2. f \in HbProcess /\ f.urgpc = (IF p = "srv" THEN "send" ELSE "reset") /\ f.pc = e.pc /\ f.alarm = e.alarm
        /\ f.loaded = e.loaded /\ f.top = e.top
    <3> DEFINE g == IF p = "srv" THEN "send" ELSE "reset"
               o == IF e.oob = "byte" THEN "none" ELSE e.oob
    <3>1. g \in {"send", "reset"} /\ o \in {"none", "mark", "byte"} /\ f = [e EXCEPT !.urgpc = g, !.oob = o]
      BY <1>1 DEF HbProcess
    <3> HIDE DEF f, g, o
    <3>2. f \in HbProcess /\ f.urgpc = g /\ f.pc = e.pc /\ f.alarm = e.alarm /\ f.loaded = e.loaded /\ f.top = e.top
      BY <1>1, <3>1 DEF HbProcess
    <3> QED
      BY <3>2 DEF g
  <2>3. hEnd' = [q \in Ends |-> IF q = "cli" THEN c ELSE s] /\ c \in HbProcess /\ s \in HbProcess
    BY <1>1, <2>1, <2>2
  <2>4. /\ c.urgpc # "none" \/ s.urgpc = "send"
        /\ c.pc = hEnd["cli"].pc /\ c.alarm = hEnd["cli"].alarm /\ c.loaded = hEnd["cli"].loaded /\ c.top = hEnd["cli"].top
    BY <1>1, <2>2
  <2> HIDE DEF c, s, f
  <2>5. CountsOf(c, s, hCut', hSpoilt')
    BY <2>4 DEF CountsOf, Idle
  <2>6. AlarmOf(c, hLate')
    BY <2>1, <2>4, HbToParts DEF AlarmOf, StillAlive
  <2>7. HbInv'
    BY <1>1, <2>1, <2>3, <2>5, <2>6, HbFromParts
  <2> QED
    BY <1>1, <2>3, <2>4, <2>7
<1>3. CASE RecvOob(p) /\ e.oob \notin {"byte", "mark"}
  <2>1. hEnd' = [hEnd EXCEPT ![p] = Process("recverr", "off")] /\ UNCHANGED <<hCut, hSpoilt, hLate>>
    BY <1>3 DEF RecvOob
  <2>2. HbInv' /\ hEnd'["cli"].pc = IF p = "cli" THEN "recverr" ELSE hEnd["cli"].pc
    BY <2>1, HbEnds DEF HbPcs
  <2> QED
    BY <2>2
<1>4. CASE UrgReturns(p)
  <2> DEFINE f == [e EXCEPT !.nprobes = 0, !.urgpc = "none", !.top = Below(e, "urg")]
             c == IF p = "cli" THEN f ELSE hEnd["cli"]
             s == IF p = "srv" THEN f ELSE hEnd["srv"]
  <2>1. /\ hEnd' = [hEnd EXCEPT ![p] = f] /\ UNCHANGED <<hCut, hLate>>
        /\ hSpoilt' = (IF p = "cli" THEN e.loaded > 0 ELSE hSpoilt) /\ e.urgpc = "reset"
    BY <1>4 DEF UrgReturns, Zero
  <2>2. Below(e, "urg") = (IF e.loaded # -1 THEN "alrm" ELSE "main") /\ hSpoilt' \in BOOLEAN
    <3>1. Below(e, "urg") = (IF e.loaded # -1 THEN "alrm" ELSE "main")
      BY DEF Below
    <3>2. (e.loaded > 0) \in BOOLEAN
      OBVIOUS
    <3>3. hSpoilt' \in BOOLEAN
      BY <1>1, <2>1, <3>2, Zenon
    <3> QED
      BY <3>1, <3>3
  <2>3. /\ f \in HbProcess /\ f.urgpc = "none" /\ f.pc = e.pc /\ f.alarm = e.alarm /\ f.in = e.in /\ f.urg = e.urg
        /\ f.loaded = e.loaded /\ f.top = (IF e.loaded # -1 THEN "alrm" ELSE "main") /\ f.nprobes = 0
    <3> DEFINE t == IF e.loaded # -1 THEN "alrm" ELSE "main"
    <3>1. t \in {"main", "urg", "alrm"} /\ f = [e EXCEPT !.nprobes = 0, !.urgpc = "none", !.top = t]
      BY <2>2
    <3> HIDE DEF f, t
    <3>2. f \in HbProcess
      BY <1>1, <3>1, HbReset
    <3>3. f.urgpc = "none" /\ f.pc = e.pc /\ f.alarm = e.alarm /\ f.in = e.in /\ f.urg = e.urg
      BY <1>1, <3>1 DEF HbProcess
    <3>4. f.loaded = e.loaded /\ f.top = t /\ f.nprobes = 0
      BY <1>1, <3>1 DEF HbProcess
    <3> QED
      BY <3>2, <3>3, <3>4 DEF t
  <2>4. hEnd' = [q \in Ends |-> IF q = "cli" THEN c ELSE s] /\ c \in HbProcess /\ s \in HbProcess
    BY <1>1, <2>1, <2>3
  <2>5. CASE p = "cli"
    <3>1. c = f /\ s = hEnd["srv"]
      BY <2>5
    <3> HIDE DEF c, s, f
    <3>2. CountsOf(c, s, hCut', hSpoilt')
      <4>1. e.loaded \in Nat \cup {-1}
        BY <1>1 DEF HbProcess
      <4>2. ~hSpoilt' => e.loaded \in {-1, 0}
        <5>1. ~hSpoilt' => ~(e.loaded > 0)
          BY <2>1, <2>5, Zenon
        <5> QED
          BY <4>1, <5>1
      <4> QED
        BY <2>3, <3>1, <4>2 DEF CountsOf
    <3>3. AlarmOf(c, hLate')
      <4>1. c.top = "main" => c.loaded = -1
        BY <2>3, <3>1
      <4>2. c.pc = e.pc /\ c.alarm = e.alarm /\ c.loaded = e.loaded /\ (c.loaded = -1 => c.top = "main")
        BY <2>3, <3>1
      <4> QED
        BY <2>1, <2>5, <4>1, <4>2, HbToParts DEF AlarmOf
    <3>4. HbInv'
      BY <1>1, <2>1, <2>2, <2>4, <3>2, <3>3, HbFromParts
    <3> QED
      BY <1>1, <2>3, <2>4, <2>5, <3>1, <3>4
  <2>6. CASE p = "srv"
    <3>1. c = hEnd["cli"] /\ s = f
      BY <2>6
    <3> HIDE DEF c, s, f
    <3>2. CountsOf(c, s, hCut', hSpoilt')
      <4>1. Idle(c, s) => Idle(hEnd["cli"], hEnd["srv"])
        BY <2>1, <2>3, <2>6, <3>1 DEF Idle
      <4>2. hSpoilt' = hSpoilt /\ hCut' = hCut /\ (StillAlive(s) => StillAlive(hEnd["srv"]))
        BY <2>1, <2>3, <2>6, <3>1 DEF StillAlive
      <4> QED
        BY <3>1, <4>1, <4>2, HbToParts DEF CountsOf
    <3>3. AlarmOf(c, hLate')
      BY <2>1, <3>1, HbToParts
    <3>4. HbInv'
      BY <1>1, <2>1, <2>2, <2>4, <3>2, <3>3, HbFromParts
    <3> QED
      BY <1>1, <2>4, <3>1, <3>4
  <2> QED
    BY <1>1, <2>5, <2>6
<1>5. CASE ReadEof(p)
  <2>1. PICK why \in {"premature", "normal"} : hEnd' = [hEnd EXCEPT ![p] = Process(why, "off")]
    BY <1>1, <1>5 DEF ReadEof
  <2>2. UNCHANGED <<hCut, hSpoilt, hLate>>
    BY <1>5 DEF ReadEof
  <2>3. HbInv' /\ hEnd'["cli"].pc = IF p = "cli" THEN why ELSE hEnd["cli"].pc
    BY <2>1, <2>2, HbEnds DEF HbPcs
  <2> QED
    BY <2>1, <2>3
<1> QED
  BY <1>2, <1>3, <1>4, <1>5


\* Send() with MSG_OOB: the notice is under way, or the sender has ended.
LEMMA HbSends ==
    ASSUME HbInv, NEW p \in Ends, NEW e \in HbProcess, SendOob(p, e), UNCHANGED <<hCut, hSpoilt, hLate>>
    PROVE  \/ /\ hEnd' = [hEnd EXCEPT ![p] = Process("sigpipe", "off")]
              /\ e.pc = "shut" \/ ~Alive(Peer(p))
           \/ \E b \in HbProcess :
                 /\ hEnd' = [q \in Ends |-> IF q = p THEN e ELSE b]
                 /\ \E n \in Nat : b = [hEnd[Peer(p)] EXCEPT !.in = n]
                 /\ StillAlive(b) /\ ~hCut => b.in > 0
<1>1. /\ Ends = {"cli", "srv"} /\ hEnd \in [Ends -> HbProcess] /\ Peer(p) \in Ends /\ Peer(p) # p
      /\ hEnd[Peer(p)] \in HbProcess /\ \A q \in Ends : q # p => q = Peer(p)
  BY HbParts
<1>2. CASE hEnd' = [hEnd EXCEPT ![p] = e, ![Peer(p)].in = IF hCut \/ ~Alive(Peer(p)) \/ @ = HbFlight THEN @ ELSE @ + 1]
  <2> DEFINE a == hEnd[Peer(p)]
             n == IF hCut \/ ~Alive(Peer(p)) \/ a.in = HbFlight THEN a.in ELSE a.in + 1
             b == [a EXCEPT !.in = n]
  <2>1. hEnd' = [q \in Ends |-> IF q = p THEN e ELSE b]
    BY <1>1, <1>2
  <2>2. a.in \in Nat
    BY <1>1 DEF HbProcess
  <2>3. n \in Nat
    BY <2>2
  <2>4. Alive(Peer(p)) /\ ~hCut => n > 0
    BY <2>2, HbAssumption
  <2> HIDE DEF n
  <2>5. b \in HbProcess /\ b.pc = a.pc /\ b.in = n
    BY <1>1, <2>3 DEF HbProcess
  <2>6. StillAlive(b) => Alive(Peer(p))
    BY <2>5 DEF StillAlive, Alive
  <2> QED
    BY <2>1, <2>3, <2>4, <2>5, <2>6
<1> QED
  BY <1>2 DEF SendOob

\* The server changes nothing that a notice depends on.
LEMMA HbServerMoves ==
    ASSUME HbInv, NEW f \in HbProcess, hEnd' = [hEnd EXCEPT !["srv"] = f], UNCHANGED <<hCut, hSpoilt, hLate>>,
           StillAlive(f) => StillAlive(hEnd["srv"]), f.in = hEnd["srv"].in, f.urg = hEnd["srv"].urg,
           f.urgpc = hEnd["srv"].urgpc
    PROVE  HbInv' /\ hEnd'["cli"].pc = hEnd["cli"].pc
<1> DEFINE a == hEnd["cli"]
           e == hEnd["srv"]
<1>1. /\ Ends = {"cli", "srv"} /\ hEnd \in [Ends -> HbProcess] /\ a \in HbProcess
      /\ hCut \in BOOLEAN /\ hSpoilt \in BOOLEAN /\ hLate \in BOOLEAN
  BY HbParts DEF HbInv, HbTypeOK
<1>2. hEnd' = [q \in Ends |-> IF q = "cli" THEN a ELSE f]
  BY <1>1
<1>3. CountsOf(a, f, hCut', hSpoilt')
  <2>1. Idle(a, f) = Idle(a, e)
    BY DEF Idle
  <2> QED
    BY <2>1, HbToParts DEF CountsOf
<1>4. AlarmOf(a, hLate')
  BY HbToParts
<1>5. HbInv'
  BY <1>1, <1>2, <1>3, <1>4, HbFromParts
<1> QED
  BY <1>1, <1>2, <1>5

\* A process in sig_alrm() after the reading of nprobes, and at its end
LEMMA HbLoads ==
    ASSUME NEW e \in HbProcess
    PROVE  LET f == [e EXCEPT !.alarm = "off", !.top = "alrm", !.loaded = e.nprobes] IN
           /\ f \in HbProcess /\ f.pc = e.pc /\ f.in = e.in /\ f.urg = e.urg /\ f.urgpc = e.urgpc /\ f.top = "alrm"
           /\ f.loaded = e.nprobes /\ f.nprobes = e.nprobes
BY DEF HbProcess

LEMMA HbCounts ==
    ASSUME NEW e \in HbProcess
    PROVE  /\ Counted(e) \in HbProcess /\ Counted(e).pc = e.pc /\ Counted(e).in = e.in /\ Counted(e).urg = e.urg
           /\ Counted(e).urgpc = e.urgpc /\ Counted(e).loaded = -1 /\ Counted(e).nprobes = e.loaded + 1
           /\ Counted(e).top # "alrm"
<1> DEFINE t == Below(e, "alrm")
           f == Counted(e)
<1>1. t \in {"main", "urg"}
  BY DEF Below
<1>2. f = [e EXCEPT !.nprobes = e.loaded + 1, !.loaded = -1, !.top = t, !.alarm = "set"]
  BY DEF Counted
<1>3. e.loaded + 1 \in Nat /\ -1 \in Nat \cup {-1}
  BY DEF HbProcess
<1> HIDE DEF f, t
<1>4. f \in HbProcess /\ f.pc = e.pc /\ f.in = e.in /\ f.urg = e.urg
  <2> DEFINE n == e.loaded + 1
             m == -1
             g == [e EXCEPT !.nprobes = n, !.loaded = m]
  <2>1. f = [g EXCEPT !.top = t, !.alarm = "set"]
    BY <1>2, Zenon
  <2>2. n \in Nat /\ m \in Nat \cup {-1}
    BY <1>3
  <2> HIDE DEF n, m
  <2>3. g \in HbProcess /\ g.pc = e.pc /\ g.in = e.in /\ g.urg = e.urg
    BY <2>2 DEF HbProcess
  <2> HIDE DEF g
  <2> QED
    BY <1>1, <2>1, <2>3 DEF HbProcess
<1>5. f.urgpc = e.urgpc /\ f.loaded = -1 /\ f.nprobes = e.loaded + 1 /\ f.top # "alrm"
  BY <1>1, <1>2, <1>3, SMTT(30) DEF HbProcess
<1> QED
  BY <1>4, <1>5 DEF f

\* The server's start, its handlers and its alarm
LEMMA HbServerSteps ==
    ASSUME HbInv, EchoOob \/ DeliverAlrm("srv") \/ sig_alrm_serv \/ heartbeat_serv \/ UnheardProbe
    PROVE  HbInv' /\ hEnd'["cli"].pc = hEnd["cli"].pc
<1> DEFINE a == hEnd["cli"]
           e == hEnd["srv"]
<1>1. /\ Ends = {"cli", "srv"} /\ hEnd \in [Ends -> HbProcess] /\ a \in HbProcess /\ e \in HbProcess /\ Peer("srv") = "cli"
      /\ hCut \in BOOLEAN /\ hSpoilt \in BOOLEAN /\ hLate \in BOOLEAN
  BY HbParts DEF HbInv, HbTypeOK
<1>u. UnheardProbe \/ UNCHANGED <<hCut, hSpoilt, hLate>>
  BY DEF EchoOob, sig_alrm_serv, DeliverAlrm, heartbeat_serv
<1>2. CASE EchoOob
  <2>u. UNCHANGED <<hCut, hSpoilt, hLate>>
    BY <1>2 DEF EchoOob
  <2> DEFINE f == [e EXCEPT !.urgpc = "reset"]
  <2>1. f \in HbProcess
    BY <1>1 DEF HbProcess
  <2>2. SendOob("srv", f)
    BY <1>2 DEF EchoOob
  <2> HIDE DEF f
  <2>3. CASE hEnd' = [hEnd EXCEPT !["srv"] = Process("sigpipe", "off")]
    <3>1. HbInv' /\ hEnd'["cli"].pc = IF "srv" = "cli" THEN "sigpipe" ELSE a.pc
      BY <1>1, <2>u, <2>3, HbEnds DEF HbPcs
    <3> QED
      BY <3>1
  <2>4. ASSUME NEW b \in HbProcess, hEnd' = [q \in Ends |-> IF q = "srv" THEN f ELSE b],
               \E n \in Nat : b = [a EXCEPT !.in = n], StillAlive(b) /\ ~hCut => b.in > 0
        PROVE  HbInv' /\ hEnd'["cli"].pc = a.pc
    <3>1. /\ b.pc = a.pc /\ b.alarm = a.alarm /\ b.loaded = a.loaded /\ b.top = a.top
      BY <1>1, <2>4 DEF HbProcess
    <3>2. hEnd' = [q \in Ends |-> IF q = "cli" THEN b ELSE f]
      BY <1>1, <2>4
    <3>3. CountsOf(b, f, hCut', hSpoilt')
      <4>1. Idle(b, f) => b.in = 0
        BY DEF Idle
      <4> QED
        BY <2>u, <2>4, <4>1 DEF CountsOf
    <3>4. AlarmOf(b, hLate')
      BY <2>u, <3>1, HbToParts DEF AlarmOf, StillAlive
    <3>5. HbInv'
      BY <1>1, <2>u, <2>1, <3>2, <3>3, <3>4, HbFromParts
    <3> QED
      BY <1>1, <3>1, <3>2, <3>5
  <2>5. \/ hEnd' = [hEnd EXCEPT !["srv"] = Process("sigpipe", "off")]
        \/ \E b \in HbProcess :
              /\ hEnd' = [q \in Ends |-> IF q = "srv" THEN f ELSE b]
              /\ \E n \in Nat : b = [a EXCEPT !.in = n]
              /\ StillAlive(b) /\ ~hCut => b.in > 0
    BY <1>1, <2>u, <2>1, <2>2, HbSends
  <2> QED
    BY <2>3, <2>4, <2>5
<1>3. CASE sig_alrm_serv /\ e.loaded + 1 > HbMaxServ
  <2>1. hEnd' = [hEnd EXCEPT !["srv"] = Process("noprobes", "off")] /\ UNCHANGED <<hCut, hSpoilt, hLate>>
    BY <1>3 DEF sig_alrm_serv
  <2>2. HbInv' /\ hEnd'["cli"].pc = IF "srv" = "cli" THEN "noprobes" ELSE a.pc
    BY <1>1, <2>1, HbEnds DEF HbPcs
  <2> QED
    BY <2>2
<1>4. CASE sig_alrm_serv /\ ~(e.loaded + 1 > HbMaxServ)
  <2>1. hEnd' = [hEnd EXCEPT !["srv"] = Counted(e)] /\ UNCHANGED <<hCut, hSpoilt, hLate>>
    BY <1>4 DEF sig_alrm_serv
  <2>2. StillAlive(Counted(e)) = StillAlive(e)
    BY <1>1, HbCounts DEF StillAlive
  <2> QED
    BY <1>1, <2>1, <2>2, HbCounts, HbServerMoves
<1>5. CASE DeliverAlrm("srv")
  <2> DEFINE f == [e EXCEPT !.alarm = "off", !.top = "alrm", !.loaded = e.nprobes]
  <2>1. hEnd' = [hEnd EXCEPT !["srv"] = f] /\ UNCHANGED <<hCut, hSpoilt, hLate>>
    BY <1>1, <1>5 DEF DeliverAlrm
  <2>2. f \in HbProcess /\ f.pc = e.pc /\ f.in = e.in /\ f.urg = e.urg /\ f.urgpc = e.urgpc
    BY <1>1, HbLoads
  <2> HIDE DEF f
  <2>3. StillAlive(f) = StillAlive(e)
    BY <2>2 DEF StillAlive
  <2> QED
    BY <2>1, <2>2, <2>3, HbServerMoves
<1>6. CASE heartbeat_serv
  <2> DEFINE f == [e EXCEPT !.pc = "run", !.alarm = "set"]
  <2>1. hEnd' = [hEnd EXCEPT !["srv"] = f] /\ UNCHANGED <<hCut, hSpoilt, hLate>> /\ StillAlive(e)
    BY <1>1, <1>6 DEF heartbeat_serv, StillAlive
  <2>2. f \in HbProcess /\ f.in = e.in /\ f.urg = e.urg /\ f.urgpc = e.urgpc
    BY <1>1 DEF HbProcess, HbPcs
  <2> HIDE DEF f
  <2> QED
    BY <2>1, <2>2, HbServerMoves
<1>7. CASE UnheardProbe
  <2> DEFINE f == [e EXCEPT !.in = @ - 1, !.oob = "byte"]
  <2>1. hEnd' = [q \in Ends |-> IF q = "cli" THEN a ELSE f] /\ hSpoilt' = TRUE /\ UNCHANGED <<hCut, hLate>>
    BY <1>1, <1>7 DEF UnheardProbe
  <2>2. e.in - 1 \in Nat
    BY <1>1, <1>7 DEF UnheardProbe, HbProcess
  <2>3. f \in HbProcess
    BY <1>1, <2>2, ZenonT(60) DEF HbProcess
  <2> HIDE DEF f
  <2>4. CountsOf(a, f, hCut', hSpoilt')
    BY <2>1 DEF CountsOf
  <2>5. AlarmOf(a, hLate')
    BY <2>1, HbToParts
  <2>6. HbInv'
    BY <1>1, <2>1, <2>3, <2>4, <2>5, HbFromParts
  <2> QED
    BY <1>1, <2>1, <2>6
<1> QED
  BY <1>2, <1>3, <1>4, <1>5, <1>6, <1>7

\* The client's verdicts of a step, and the server's
Verdicts ==
    /\ Becomes("cli", "unreachable") =>
          \/ hCut \/ ~Alive("srv") \/ hSpoilt
          \/ \E p \in Ends : hEnd[p].in > 0 \/ hEnd[p].urg \/ hEnd[p].urgpc # "none"
    /\ Becomes("cli", "sigpipe") => ~Alive("srv") \/ hLate

SrvVerdict == Becomes("srv", "noprobes") => hQuiet = -1 \/ hQuiet >= HbMaxServ

\* The client's sig_alrm()
LEMMA HbAlarmSteps ==
    ASSUME HbInv, DeliverAlrm("cli") \/ sig_alrm_cli
    PROVE  HbInv' /\ Verdicts
<1> DEFINE e == hEnd["cli"]
           a == hEnd["srv"]
<1>1. /\ Ends = {"cli", "srv"} /\ hEnd \in [Ends -> HbProcess] /\ a \in HbProcess /\ e \in HbProcess /\ Peer("cli") = "srv"
      /\ hCut \in BOOLEAN /\ hSpoilt \in BOOLEAN /\ hLate \in BOOLEAN /\ StillAlive(e) /\ Alive("cli")
  BY HbParts DEF HbInv, HbTypeOK, DeliverAlrm, sig_alrm_cli, StillAlive, Alive
<1>u. UNCHANGED <<hCut, hSpoilt, hLate>>
  BY DEF DeliverAlrm, sig_alrm_cli
<1>2. CASE DeliverAlrm("cli")
  <2> DEFINE f == [e EXCEPT !.alarm = "off", !.top = "alrm", !.loaded = e.nprobes]
  <2>1. hEnd' = [hEnd EXCEPT !["cli"] = f] /\ e.alarm # "off"
    BY <1>1, <1>2 DEF DeliverAlrm
  <2>2. /\ f \in HbProcess /\ f.pc = e.pc /\ f.in = e.in /\ f.urg = e.urg /\ f.urgpc = e.urgpc /\ f.top = "alrm"
        /\ f.loaded = e.nprobes /\ f.nprobes = e.nprobes
    BY <1>1, HbLoads
  <2> HIDE DEF f
  <2>3. hEnd' = [q \in Ends |-> IF q = "cli" THEN f ELSE a]
    BY <1>1, <2>1
  <2>4. CountsOf(f, a, hCut', hSpoilt')
    <3>1. Idle(f, a) = Idle(e, a)
      BY <2>2 DEF Idle
    <3>2. StillAlive(a) /\ ~hCut /\ ~hSpoilt /\ Idle(e, a) => e.nprobes = 0
      BY <1>1, HbToParts DEF CountsOf
    <3> QED
      BY <1>u, <2>2, <3>1, <3>2 DEF CountsOf
  <2>5. AlarmOf(f, hLate')
    <3>1. e.pc \in {"off", "shut"} => hLate
      BY <2>1, HbToParts DEF AlarmOf
    <3> QED
      BY <1>u, <2>2, <3>1 DEF AlarmOf
  <2>6. HbInv'
    BY <1>1, <1>u, <2>2, <2>3, <2>4, <2>5, HbFromParts
  <2>7. hEnd'["cli"].pc = hEnd["cli"].pc
    BY <1>1, <2>2, <2>3
  <2> QED
    BY <2>6, <2>7 DEF Verdicts, Becomes
<1>3. CASE sig_alrm_cli /\ e.loaded + 1 > HbMaxCli
  <2>1. hEnd' = [hEnd EXCEPT !["cli"] = Process("unreachable", "off")]
    BY <1>3 DEF sig_alrm_cli
  <2>2. HbInv' /\ hEnd'["cli"].pc = IF "cli" = "cli" THEN "unreachable" ELSE e.pc
    BY <1>1, <1>u, <2>1, HbEnds DEF HbPcs
  <2>3. e.loaded \notin {-1, 0}
    <3>1. e.loaded \in Nat \cup {-1}
      BY <1>1 DEF HbProcess
    <3> QED
      BY <1>3, <3>1, HbAssumption
  <2>4. ~Alive("srv") \/ hCut \/ hSpoilt \/ Pending
    BY <1>1, <2>3 DEF HbInv, CountedIsPending
  <2>5. Pending => \E p \in Ends : hEnd[p].in > 0 \/ hEnd[p].urg \/ hEnd[p].urgpc # "none"
    BY <1>1 DEF Pending
  <2> QED
    BY <2>2, <2>4, <2>5 DEF Verdicts, Becomes
<1>4. CASE sig_alrm_cli /\ ~(e.loaded + 1 > HbMaxCli)
  <2> DEFINE f == Counted(e)
  <2>1. SendOob("cli", f) /\ e.top = "alrm"
    BY <1>4 DEF sig_alrm_cli
  <2>2. f \in HbProcess /\ f.pc = e.pc /\ f.loaded = -1
    BY <1>1, HbCounts
  <2> HIDE DEF f
  <2>3. e.pc \in {"off", "shut"} => hLate
    BY <2>1, HbToParts DEF AlarmOf
  <2>4. CASE hEnd' = [hEnd EXCEPT !["cli"] = Process("sigpipe", "off")] /\ (f.pc = "shut" \/ ~Alive("srv"))
    <3>1. HbInv' /\ hEnd'["cli"].pc = IF "cli" = "cli" THEN "sigpipe" ELSE e.pc
      BY <1>1, <1>u, <2>4, HbEnds DEF HbPcs
    <3> QED
      BY <2>2, <2>3, <2>4, <3>1 DEF Verdicts, Becomes
  <2>5. ASSUME NEW b \in HbProcess, hEnd' = [q \in Ends |-> IF q = "cli" THEN f ELSE b],
               StillAlive(b) /\ ~hCut => b.in > 0
        PROVE  HbInv' /\ Verdicts
    <3>1. CountsOf(f, b, hCut', hSpoilt')
      <4>1. Idle(f, b) => b.in = 0
        BY DEF Idle
      <4> QED
        BY <1>u, <2>5, <4>1 DEF CountsOf
    <3>2. AlarmOf(f, hLate')
      BY <1>u, <2>2, <2>3 DEF AlarmOf
    <3>3. HbInv'
      BY <1>1, <1>u, <2>2, <2>5, <3>1, <3>2, HbFromParts
    <3>4. hEnd'["cli"].pc = e.pc
      BY <1>1, <2>2, <2>5
    <3> QED
      BY <3>3, <3>4 DEF Verdicts, Becomes
  <2>6. \/ hEnd' = [hEnd EXCEPT !["cli"] = Process("sigpipe", "off")] /\ (f.pc = "shut" \/ ~Alive("srv"))
        \/ \E b \in HbProcess :
              /\ hEnd' = [q \in Ends |-> IF q = "cli" THEN f ELSE b]
              /\ StillAlive(b) /\ ~hCut => b.in > 0
    BY <1>1, <1>u, <2>1, <2>2, HbSends
  <2> QED
    BY <2>4, <2>5, <2>6
<1> QED
  BY <1>2, <1>3, <1>4

LEMMA HbStep ==
    ASSUME HbInv, [HbNext]_hbVars
    PROVE  HbInv' /\ (Verdicts \/ UNCHANGED hbVars)
<1>q. ASSUME hEnd'["cli"].pc = hEnd["cli"].pc \/ hEnd'["cli"].pc \notin {"unreachable", "sigpipe"}
      PROVE  Verdicts
  BY <1>q DEF Verdicts, Becomes
<1>1. CASE UNCHANGED hbVars
  <2>1. HbTypeOK' /\ CountedIsPending' /\ AlarmOver'
    BY <1>1 DEF HbInv, HbTypeOK, CountedIsPending, AlarmOver, Alive, Pending, hbVars
  <2> QED
    BY <1>1, <2>1 DEF HbInv
<1>2. ASSUME NEW p \in Ends, DeliverUrg(p) \/ ByteArrives(p) \/ UrgArrives(p, "byte") \/ UrgArrives(p, "mark")
      PROVE  HbInv' /\ Verdicts
  BY <1>2, <1>q, HbNoticeSteps
<1>3. ASSUME NEW p \in Ends, RecvOob(p) \/ UrgReturns(p) \/ ReadEof(p)
      PROVE  HbInv' /\ Verdicts
  BY <1>3, <1>q, HbRecvSteps
<1>4. CASE Cut \/ AlarmOff \/ Shutdown
  BY <1>4, <1>q, HbQuietSteps
<1>5. CASE EchoOob \/ DeliverAlrm("srv") \/ sig_alrm_serv \/ heartbeat_serv \/ UnheardProbe
  BY <1>5, <1>q, HbServerSteps
<1>6. CASE DeliverAlrm("cli") \/ sig_alrm_cli
  BY <1>6, HbAlarmSteps
<1> QED
  BY <1>1, <1>2, <1>3, <1>4, <1>5, <1>6 DEF HbNext, HbHandlers, HbMain, Ends

\* The server's nprobes is the number of its alarms since the last probe, unless sig_urg() was
\* undone, and sig_alrm() has read no other number.
QuietOf(s, q) ==
    StillAlive(s) =>
       /\ s.top = "alrm" => s.loaded # -1
       /\ q = -1 \/ (q \in Nat /\ s.nprobes = q /\ s.loaded \in {-1, q})
SrvInv == hQuiet \in Nat \cup {-1} /\ QuietOf(hEnd["srv"], hQuiet)

LEMMA SrvInitial == HbInit => SrvInv
<1> SUFFICES ASSUME HbInit PROVE SrvInv
  OBVIOUS
<1>1. hEnd["srv"] = Process("start", "off") /\ hQuiet = 0
  BY DEF HbInit, HbStart, Ends
<1>2. hEnd["srv"].top = "main" /\ hEnd["srv"].loaded = -1 /\ hEnd["srv"].nprobes = 0
  BY <1>1 DEF Process
<1> QED
  BY <1>1, <1>2 DEF SrvInv, QuietOf

\* A step that leaves the server's count alone, or ends the server, and not for want of probes
SrvKeeps ==
    /\ UNCHANGED hQuiet
    /\ \/ /\ hEnd'["srv"].nprobes = hEnd["srv"].nprobes /\ hEnd'["srv"].loaded = hEnd["srv"].loaded
          /\ StillAlive(hEnd'["srv"]) => StillAlive(hEnd["srv"])
          /\ hEnd'["srv"].pc = hEnd["srv"].pc \/ hEnd'["srv"].pc # "noprobes"
          /\ hEnd'["srv"].top = hEnd["srv"].top \/ hEnd'["srv"].top # "alrm"
       \/ hEnd'["srv"].pc \in {"sigpipe", "recverr", "premature", "normal"}

LEMMA SrvKept ==
    ASSUME SrvInv, SrvKeeps
    PROVE  SrvInv' /\ SrvVerdict
<1>1. SrvVerdict
  BY DEF SrvKeeps, SrvVerdict, Becomes
<1>2. QuietOf(hEnd["srv"], hQuiet)' = QuietOf(hEnd'["srv"], hQuiet')
  BY DEF QuietOf, StillAlive
<1> DEFINE s == hEnd["srv"]
           t == hEnd'["srv"]
<1>3. QuietOf(s, hQuiet) => QuietOf(t, hQuiet)
  <2>1. SrvKeeps
    OBVIOUS
  <2>2. CASE t.pc \in {"sigpipe", "recverr", "premature", "normal"}
    BY <2>2 DEF QuietOf, StillAlive
  <2>3. CASE /\ t.nprobes = s.nprobes /\ t.loaded = s.loaded
             /\ StillAlive(t) => StillAlive(s)
             /\ t.top = s.top \/ t.top # "alrm"
    BY <2>3 DEF QuietOf
  <2> QED
    BY <2>1, <2>2, <2>3 DEF SrvKeeps
<1> QED
  BY <1>1, <1>2, <1>3 DEF SrvInv, SrvKeeps

\* The server's part in a step of the client, of the network, or of sig_urg() before its end
LEMMA SrvQuietSteps ==
    ASSUME HbInv, NEW p \in Ends, NEW oob \in {"byte", "mark"},
           \/ UrgArrives(p, oob) \/ ByteArrives(p) \/ DeliverUrg(p) \/ RecvOob(p) \/ ReadEof(p)
           \/ UnheardProbe \/ Cut \/ AlarmOff \/ Shutdown \/ heartbeat_serv
    PROVE  SrvKeeps
<1> DEFINE s == hEnd["srv"]
           t == hEnd'["srv"]
<1>1. /\ Ends = {"cli", "srv"} /\ hEnd \in [Ends -> HbProcess] /\ hEnd["cli"] \in HbProcess /\ s \in HbProcess
      /\ hEnd[p] \in HbProcess
  BY HbParts
<1>2. UNCHANGED hQuiet
  BY DEF UrgArrives, ByteArrives, DeliverUrg, RecvOob, ReadEof, UnheardProbe, Cut, AlarmOff, Shutdown, heartbeat_serv
<1>3. CASE UrgArrives(p, oob) \/ ByteArrives(p) \/ DeliverUrg(p)
  <2>1. t.nprobes = s.nprobes /\ t.loaded = s.loaded /\ t.pc = s.pc
    BY <1>1, <1>3 DEF UrgArrives, ByteArrives, DeliverUrg, HbProcess
  <2>2. t.top = s.top \/ t.top # "alrm"
    BY <1>1, <1>3 DEF UrgArrives, ByteArrives, DeliverUrg, HbProcess
  <2> QED
    BY <1>2, <2>1, <2>2 DEF SrvKeeps, StillAlive
<1>4. CASE UnheardProbe \/ Cut \/ AlarmOff \/ Shutdown \/ heartbeat_serv
  <2>1. t.nprobes = s.nprobes /\ t.loaded = s.loaded /\ t.top = s.top
    BY <1>1, <1>4 DEF UnheardProbe, Cut, AlarmOff, Shutdown, heartbeat_serv, HbProcess
  <2>2. t.pc = s.pc \/ (s.pc = "start" /\ t.pc = "run")
    BY <1>1, <1>4 DEF UnheardProbe, Cut, AlarmOff, Shutdown, heartbeat_serv, HbProcess
  <2> QED
    BY <1>2, <2>1, <2>2 DEF SrvKeeps, StillAlive
<1>5. CASE RecvOob(p) /\ hEnd[p].oob \in {"byte", "mark"}
  <2>1. t.nprobes = s.nprobes /\ t.loaded = s.loaded /\ t.top = s.top /\ t.pc = s.pc
    BY <1>1, <1>5 DEF RecvOob, HbProcess
  <2> QED
    BY <1>2, <2>1 DEF SrvKeeps, StillAlive
<1>6. CASE RecvOob(p) /\ hEnd[p].oob \notin {"byte", "mark"}
  <2>1. hEnd' = [hEnd EXCEPT ![p] = Process("recverr", "off")]
    BY <1>6 DEF RecvOob
  <2>2. t = s \/ t.pc = "recverr"
    BY <1>1, <2>1, HbEnded DEF HbPcs
  <2> QED
    BY <1>2, <2>2 DEF SrvKeeps
<1>7. CASE ReadEof(p)
  <2>1. PICK why \in {"premature", "normal"} : hEnd' = [hEnd EXCEPT ![p] = Process(why, "off")]
    BY <1>1, <1>7 DEF ReadEof
  <2>2. t = s \/ t.pc = why
    BY <1>1, <2>1, HbEnded DEF HbPcs
  <2> QED
    BY <1>2, <2>1, <2>2 DEF SrvKeeps
<1> QED
  BY <1>3, <1>4, <1>5, <1>6, <1>7

LEMMA SrvSends ==
    ASSUME HbInv, EchoOob \/ DeliverAlrm("cli") \/ sig_alrm_cli \/ UrgReturns("cli")
    PROVE  SrvKeeps
<1> DEFINE s == hEnd["srv"]
           t == hEnd'["srv"]
           c == hEnd["cli"]
<1>1. /\ Ends = {"cli", "srv"} /\ hEnd \in [Ends -> HbProcess] /\ c \in HbProcess /\ s \in HbProcess
      /\ Peer("cli") = "srv" /\ Peer("srv") = "cli"
  BY HbParts
<1>2. UNCHANGED hQuiet
  BY DEF EchoOob, DeliverAlrm, sig_alrm_cli, UrgReturns
<1>3. CASE DeliverAlrm("cli") \/ UrgReturns("cli")
  <2>1. t = s
    BY <1>1, <1>3 DEF DeliverAlrm, UrgReturns
  <2> QED
    BY <1>2, <2>1 DEF SrvKeeps
<1>4. CASE EchoOob
  <2> DEFINE f == [s EXCEPT !.urgpc = "reset"]
  <2>1. f.nprobes = s.nprobes /\ f.loaded = s.loaded /\ f.top = s.top /\ f.pc = s.pc
    BY <1>1 DEF HbProcess
  <2>2. SendOob("srv", f)
    BY <1>4 DEF EchoOob
  <2> HIDE DEF f
  <2>3. t = f \/ t.pc = "sigpipe"
    BY <1>1, <2>2, HbEnded DEF SendOob, HbPcs
  <2> QED
    BY <1>2, <2>1, <2>3 DEF SrvKeeps, StillAlive
<1>5. CASE sig_alrm_cli
  <2>1. CASE hEnd' = [hEnd EXCEPT !["cli"] = Process("unreachable", "off")]
             \/ hEnd' = [hEnd EXCEPT !["cli"] = Process("sigpipe", "off")]
    <3>1. t = s
      BY <1>1, <2>1
    <3> QED
      BY <1>2, <3>1 DEF SrvKeeps
  <2>2. ASSUME NEW b \in HbProcess, hEnd' = [q \in Ends |-> IF q = "cli" THEN Counted(c) ELSE b],
               \E n \in Nat : b = [s EXCEPT !.in = n]
        PROVE  SrvKeeps
    <3>1. b.nprobes = s.nprobes /\ b.loaded = s.loaded /\ b.top = s.top /\ b.pc = s.pc
      BY <1>1, <2>2 DEF HbProcess
    <3>2. t = b
      BY <1>1, <2>2
    <3> QED
      BY <1>2, <3>1, <3>2 DEF SrvKeeps, StillAlive
  <2>3. ASSUME SendOob("cli", Counted(c)) PROVE SrvKeeps
    <3>1. UNCHANGED <<hCut, hSpoilt, hLate>> /\ Counted(c) \in HbProcess
      BY <1>1, <1>5, HbCounts DEF sig_alrm_cli
    <3>2. \/ hEnd' = [hEnd EXCEPT !["cli"] = Process("sigpipe", "off")]
          \/ \E b \in HbProcess :
                /\ hEnd' = [q \in Ends |-> IF q = "cli" THEN Counted(c) ELSE b]
                /\ \E n \in Nat : b = [s EXCEPT !.in = n]
      BY <1>1, <2>3, <3>1, HbSends
    <3> QED
      BY <2>1, <2>2, <3>2
  <2> QED
    BY <1>5, <2>1, <2>3 DEF sig_alrm_cli
<1> QED
  BY <1>3, <1>4, <1>5

\* The server's sig_alrm(), and sig_urg() that sets nprobes back
LEMMA SrvAlarmSteps ==
    ASSUME HbInv, SrvInv, DeliverAlrm("srv") \/ UrgReturns("srv") \/ sig_alrm_serv
    PROVE  SrvInv' /\ SrvVerdict
<1> DEFINE s == hEnd["srv"]
           t == hEnd'["srv"]
<1>1. /\ Ends = {"cli", "srv"} /\ hEnd \in [Ends -> HbProcess] /\ s \in HbProcess /\ StillAlive(s)
      /\ s.loaded \in Nat \cup {-1} /\ s.nprobes \in Nat /\ hQuiet \in Nat \cup {-1}
      /\ hQuiet = -1 \/ (hQuiet \in Nat /\ s.nprobes = hQuiet /\ s.loaded \in {-1, hQuiet})
      /\ s.top = "alrm" => s.loaded # -1
  <2>1. s \in HbProcess /\ StillAlive(s)
    BY HbParts DEF DeliverAlrm, UrgReturns, sig_alrm_serv, Alive, StillAlive
  <2>2. s.loaded \in Nat \cup {-1} /\ s.nprobes \in Nat
    BY <2>1 DEF HbProcess
  <2> QED
    BY <2>1, <2>2, HbParts DEF SrvInv, QuietOf
<1>2. CASE DeliverAlrm("srv")
  <2>1. t = [s EXCEPT !.alarm = "off", !.top = "alrm", !.loaded = s.nprobes] /\ UNCHANGED hQuiet
    BY <1>1, <1>2 DEF DeliverAlrm
  <2>2. t.pc = s.pc /\ t.top = "alrm" /\ t.loaded = s.nprobes /\ t.nprobes = s.nprobes
    BY <1>1, <2>1 DEF HbProcess
  <2>3. QuietOf(t, hQuiet')
    BY <1>1, <2>1, <2>2 DEF QuietOf
  <2> QED
    BY <1>1, <2>1, <2>2, <2>3 DEF SrvInv, SrvVerdict, Becomes, QuietOf, StillAlive
<1>3. CASE UrgReturns("srv")
  <2>1. t = [s EXCEPT !.nprobes = 0, !.urgpc = "none", !.top = Below(s, "urg")]
        /\ hQuiet' = IF s.loaded > 0 THEN -1 ELSE 0
    BY <1>1, <1>3 DEF UrgReturns, Zero
  <2>2. t.pc = s.pc /\ t.top = Below(s, "urg") /\ t.loaded = s.loaded /\ t.nprobes = 0
    BY <1>1, <2>1 DEF HbProcess
  <2>3. t.top = "alrm" => s.loaded # -1
    BY <2>2 DEF Below
  <2>4. hQuiet' = -1 \/ (hQuiet' = 0 /\ s.loaded \in {-1, 0})
    BY <1>1, <2>1
  <2>5. QuietOf(t, hQuiet')
    BY <2>2, <2>3, <2>4 DEF QuietOf
  <2> QED
    BY <1>1, <2>2, <2>4, <2>5 DEF SrvInv, SrvVerdict, Becomes, QuietOf, StillAlive
<1>4. CASE sig_alrm_serv
  <2>1. t = (IF s.loaded + 1 > HbMaxServ THEN Process("noprobes", "off") ELSE Counted(s)) /\ s.top = "alrm"
        /\ hQuiet' = IF hQuiet = -1 THEN -1 ELSE hQuiet + 1
    BY <1>1, <1>4 DEF sig_alrm_serv
  <2>2. s.loaded \in Nat /\ (hQuiet = -1 \/ s.loaded = hQuiet) /\ hQuiet' \in Nat \cup {-1}
    BY <1>1, <2>1
  <2>3. CASE s.loaded + 1 > HbMaxServ
    <3>1. t.pc = "noprobes"
      BY <2>1, <2>3, HbEnded DEF HbPcs
    <3>2. hQuiet = -1 \/ hQuiet >= HbMaxServ
      BY <2>2, <2>3, HbAssumption
    <3> QED
      BY <2>2, <3>1, <3>2 DEF SrvInv, SrvVerdict, QuietOf, StillAlive
  <2>4. CASE ~(s.loaded + 1 > HbMaxServ)
    <3>1. t = Counted(s)
      BY <2>1, <2>4
    <3>2. t.pc = s.pc /\ t.loaded = -1 /\ t.nprobes = s.loaded + 1 /\ t.top # "alrm"
      BY <1>1, <3>1, HbCounts
    <3>3. hQuiet' = -1 \/ (hQuiet' \in Nat /\ s.loaded + 1 = hQuiet')
      BY <2>1, <2>2
    <3> QED
      BY <1>1, <2>2, <3>2, <3>3 DEF SrvInv, SrvVerdict, Becomes, QuietOf, StillAlive
  <2> QED
    BY <2>3, <2>4
<1> QED
  BY <1>2, <1>3, <1>4

LEMMA SrvStep ==
    ASSUME HbInv, SrvInv, [HbNext]_hbVars
    PROVE  SrvInv' /\ SrvVerdict
<1>1. CASE UNCHANGED hbVars
  BY <1>1 DEF SrvInv, SrvVerdict, Becomes, QuietOf, StillAlive, hbVars
<1>2. ASSUME NEW p \in Ends,
             \/ DeliverUrg(p) \/ ByteArrives(p) \/ UrgArrives(p, "byte") \/ UrgArrives(p, "mark")
             \/ RecvOob(p) \/ ReadEof(p)
      PROVE  SrvInv' /\ SrvVerdict
  BY <1>2, SrvQuietSteps, SrvKept
<1>3. CASE UnheardProbe \/ Cut \/ AlarmOff \/ Shutdown \/ heartbeat_serv
  <2>1. "cli" \in Ends
    BY DEF Ends
  <2> QED
    BY <1>3, <2>1, SrvQuietSteps, SrvKept
<1>4. CASE EchoOob \/ DeliverAlrm("cli") \/ sig_alrm_cli \/ UrgReturns("cli")
  BY <1>4, SrvSends, SrvKept
<1>5. CASE DeliverAlrm("srv") \/ UrgReturns("srv") \/ sig_alrm_serv
  BY <1>5, SrvAlarmSteps
<1> QED
  BY <1>1, <1>2, <1>3, <1>4, <1>5 DEF HbNext, HbHandlers, HbMain, Ends

\* HbTruthful, the safety half of HbVerdicts, for any number of probes and any number of
\* notices under way: a client that says the server is unreachable has an answer
\* outstanding, or the network has failed, the server has ended, a probe came before
\* F_SETOWN, or SIGURG came in the middle of ++nprobes; a server that says there are no
\* probes has had maxnalarms alarms and one more since the last one, unless its ++nprobes was
\* interrupted; and SIGPIPE ends the client only when the server has gone or SIGALRM came
\* during alarm(0).
THEOREM VerdictsAreTruthful == HbSpec => HbTruthful
<1>1. HbInit => HbInv /\ SrvInv
  BY HbInitial, SrvInitial
<1>2. HbInv /\ SrvInv /\ [HbNext]_hbVars => HbInv' /\ SrvInv'
  BY HbStep, SrvStep
<1>3. HbInv /\ SrvInv /\ [HbNext]_hbVars => [Verdicts /\ SrvVerdict]_hbVars
  BY HbStep, SrvStep
<1>4. HbSpec => [][Verdicts /\ SrvVerdict]_hbVars
  BY <1>1, <1>2, <1>3, PTL DEF HbSpec
<1>5. [Verdicts /\ SrvVerdict]_hbVars =>
        [/\ Becomes("cli", "unreachable") =>
              \/ hCut \/ ~Alive("srv") \/ hSpoilt
              \/ \E p \in Ends : hEnd[p].in > 0 \/ hEnd[p].urg \/ hEnd[p].urgpc # "none"
         /\ Becomes("srv", "noprobes") => hQuiet = -1 \/ hQuiet >= HbMaxServ
         /\ Becomes("cli", "sigpipe") => ~Alive("srv") \/ hLate]_hbVars
  BY DEF Verdicts, SrvVerdict
<1> QED
  BY <1>4, <1>5, PTL DEF HbTruthful

-----------------------------------------------------------------------------
(* The SCTP servers and clients                                             *)

SctpMsgs == [c : SctpClients, line : Nat, of : 0 .. SctpStreams - 1, s : Nat, len : Nat, note : BOOLEAN]
SctpKinds == [incr : BOOLEAN, eof : BOOLEAN, auto : BOOLEAN, events : BOOLEAN, pdapi : BOOLEAN, fork : BOOLEAN]

SctpTypeOK ==
    /\ xSrv \in SctpKinds /\ xOut \in Nat \ {0} /\ xMode \in [SctpClients -> Modes \cup {"big"}]
    /\ xUp \in [SctpClients -> {"none", "up", "closing"}] /\ xPeeled \in SUBSET SctpClients
    /\ xIn \in SUBSET SctpMsgs /\ xBack \in SUBSET SctpMsgs /\ xEchoes \in SUBSET SctpMsgs
    /\ xPc \in {"recv", "more", "stream", "send", "peel", "died", "died_stream"}
    /\ xCur \in SctpMsgs \cup {NoMsg} /\ xBuf \in Nat
    /\ xCli \in [SctpClients -> {"idle", "wait", "gone"}] /\ xLine \in [SctpClients -> Nat]
    /\ xShown \in [SctpClients -> SUBSET SctpMsgs] /\ xMixed \in BOOLEAN

\* What each server can and cannot do, and where it has a message in hand
ServerShape ==
    /\ xPc \in {"more", "stream", "send", "peel"} => xCur \in SctpMsgs /\ ~xCur.note
    /\ xPc = "more" => xCur.len <= xBuf /\ xSrv.pdapi
    /\ xPc = "send" /\ xSrv.incr => xCur.s < xOut
    /\ xPc = "died_stream" => ~xSrv.incr
    /\ xPeeled # {} \/ xPc = "peel" => xSrv.fork
    /\ xSrv.fork => ~xSrv.events /\ ~xSrv.pdapi /\ ~xSrv.incr
    /\ (\A m \in xIn : m.note => xSrv.events) /\ (\A e \in xEchoes : ~e.note)
    /\ \A c \in SctpClients : xUp[c] = "up" => xCli[c] # "gone"

\* Messages under way to the server and back, and the one it works on; two that are the
\* same message, perhaps a piece of it or on another stream; the length of a whole one
InFly == {m \in xIn : ~m.note}
BackFly == {m \in xBack : ~m.note}
Worked == IF xPc \in {"more", "stream", "send"} THEN {xCur} ELSE {}
SameMsg(a, b) == a.c = b.c /\ a.line = b.line /\ a.of = b.of
FullLen(c) == IF xMode[c] = "big" THEN SctpBig ELSE 1
Asked(m) == xCli[m.c] = "wait" /\ m.line = xLine[m.c]

\* What is under way belongs to the line its client waits for.
UnderWay ==
    /\ \A m \in InFly \cup BackFly : Asked(m)
    /\ \A m \in Worked : Asked(m) \/ xCli[m.c] = "gone"

\* A message is in one place: to be read, being worked on, or echoed.
OnePlace ==
    /\ \A a, b \in InFly : SameMsg(a, b) => a = b
    /\ \A a \in InFly, b \in Worked : SameMsg(a, b) => xPc = "more"
    /\ \A e \in xEchoes, a \in InFly \cup Worked : ~SameMsg(e, a)
    /\ \A e, f \in xEchoes : SameMsg(e, f) => e = f

\* Replies are echoes, and those a client has read are to its last line.
Replies ==
    /\ BackFly \subseteq xEchoes
    /\ \A c \in SctpClients : xShown[c] \subseteq xEchoes \ xBack
    /\ \A c \in SctpClients : \A r \in xShown[c] : r.c = c /\ r.line = xLine[c]
    /\ \A c \in SctpClients : xCli[c] = "wait" /\ xMode[c] # "echoall" => xShown[c] = {}
    /\ \A e \in xEchoes : e.line <= xLine[e.c]

\* Only a long message comes in pieces, and the pieces add up unless its sender has gone.
Pieces ==
    /\ \A e \in xEchoes : e.len = FullLen(e.c)
    /\ \A m \in InFly : IF xPc = "more" /\ SameMsg(m, xCur) THEN xCur.len + m.len = FullLen(m.c) ELSE m.len = FullLen(m.c)
    /\ xPc \in {"stream", "send"} => xCur.len = FullLen(xCur.c) \/ xCli[xCur.c] = "gone"
    /\ xPc = "more" => xMode[xCur.c] = "big"

\* All but sctpstr_cli_echoall() send a line on one stream.
OneStream ==
    \A a, b \in InFly \cup BackFly \cup Worked : a.c = b.c /\ xMode[a.c] # "echoall" => a.of = b.of

Unmixed == UnderWay /\ OnePlace /\ Replies /\ Pieces /\ OneStream
SctpInv == SctpTypeOK /\ ServerShape /\ (~xMixed => Unmixed)

\* The types and the shape of the server
SctpShape == SctpTypeOK /\ ServerShape

\* A piece of a message, and a message on another stream, are messages.
LEMMA MsgOfLength ==
    ASSUME NEW m \in SctpMsgs, NEW n \in Nat
    PROVE  LET r == [m EXCEPT !.len = n] IN
           r \in SctpMsgs /\ r.c = m.c /\ r.line = m.line /\ r.of = m.of /\ r.s = m.s /\ r.len = n /\ r.note = m.note
BY DEF SctpMsgs

LEMMA MsgOnStream ==
    ASSUME NEW m \in SctpMsgs, NEW n \in Nat
    PROVE  LET r == [m EXCEPT !.s = n] IN
           r \in SctpMsgs /\ r.c = m.c /\ r.line = m.line /\ r.of = m.of /\ r.s = n /\ r.len = m.len /\ r.note = m.note
BY DEF SctpMsgs

LEMMA MsgMade ==
    ASSUME NEW c \in SctpClients, NEW line \in Nat, NEW of \in 0 .. SctpStreams - 1, NEW s \in Nat, NEW len \in Nat,
           NEW note \in BOOLEAN
    PROVE  [c |-> c, line |-> line, of |-> of, s |-> s, len |-> len, note |-> note] \in SctpMsgs
BY DEF SctpMsgs

LEMMA MsgParts ==
    ASSUME NEW m \in SctpMsgs
    PROVE  /\ m.c \in SctpClients /\ m.line \in Nat /\ m.of \in 0 .. SctpStreams - 1 /\ m.s \in Nat /\ m.len \in Nat
           /\ m.note \in BOOLEAN
BY DEF SctpMsgs

LEMMA ServersKinds ==
    ASSUME NEW name \in SctpServers, NEW inc \in BOOLEAN
    PROVE  ServerOf(name, inc) \in SctpKinds /\ (ServerOf(name, inc).fork => ~ServerOf(name, inc).events /\ ~ServerOf(name, inc).pdapi /\ ~ServerOf(name, inc).incr)
BY DEF ServerOf, sctpserv01, sctpserv02, sctpserv03, sctpserv04, sctpserv05, sctpserv06, sctpserv07, sctpserv_fork,
       Server, SctpKinds

LEMMA SctpInitial == SctpInit => SctpInv
<1> SUFFICES ASSUME SctpInit PROVE SctpInv
  OBVIOUS
<1>1. PICK name \in SctpServers, inc \in BOOLEAN, outs \in 1 .. SctpStreams, mode \in [SctpClients -> Modes \cup {"big"}] :
        SctpStart(ServerOf(name, inc), outs, mode, "recv")
  BY DEF SctpInit
<1>2. xSrv \in SctpKinds /\ (xSrv.fork => ~xSrv.events /\ ~xSrv.pdapi /\ ~xSrv.incr)
  BY <1>1, ServersKinds DEF SctpStart
<1>3. xOut \in Nat \ {0}
  BY <1>1, SctpAssumption DEF SctpStart
<1>4. SctpTypeOK
  BY <1>1, <1>2, <1>3 DEF SctpStart, SctpTypeOK
<1>5. ServerShape
  BY <1>1, <1>2 DEF SctpStart, ServerShape
<1>6. InFly = {} /\ BackFly = {} /\ Worked = {} /\ xEchoes = {} /\ (\A c \in SctpClients : xShown[c] = {}) /\ xPc = "recv"
  BY <1>1 DEF SctpStart, InFly, BackFly, Worked
<1>7. Unmixed
  BY <1>6 DEF Unmixed, UnderWay, OnePlace, Replies, Pieces, OneStream
<1> QED
  BY <1>4, <1>5, <1>7 DEF SctpInv

\* What a client sends
LEMMA NewMsg ==
    ASSUME SctpShape, NEW c \in SctpClients, NEW s \in 0 .. SctpStreams - 1
    PROVE  LET m == Msg(c, xLine[c] + 1, s) IN
           /\ m \in SctpMsgs /\ m.c = c /\ m.line = xLine[c] + 1 /\ m.of = s /\ ~m.note /\ m.len = FullLen(c)
<1>1. xLine[c] + 1 \in Nat /\ FullLen(c) \in Nat /\ s \in Nat
  BY SctpAssumption DEF SctpShape, SctpTypeOK, FullLen
<1>2. Msg(c, xLine[c] + 1, s) =
        [c |-> c, line |-> xLine[c] + 1, of |-> s, s |-> s, len |-> FullLen(c), note |-> FALSE]
  BY DEF Msg, FullLen
<1>3. Msg(c, xLine[c] + 1, s) \in SctpMsgs
  BY <1>1, <1>2, MsgMade
<1>4. LET m == Msg(c, xLine[c] + 1, s) IN m.c = c /\ m.line = xLine[c] + 1 /\ m.of = s /\ ~m.note /\ m.len = FullLen(c)
  BY <1>2
<1> QED
  BY <1>3, <1>4

LEMMA NoteIsMsg ==
    ASSUME NEW c \in SctpClients
    PROVE  Note(c) \in SctpMsgs /\ Note(c).note /\ Note(c).c = c
<1> DEFINE any == [c : SctpClients \cup {0}, line : Nat, of : 0 .. SctpStreams - 1, s : Nat, len : Nat, note : BOOLEAN]
           g == [NoMsg EXCEPT !.c = c]
<1>1. NoMsg \in any
  <2>1. 0 \in 0 .. SctpStreams - 1
    BY SctpAssumption
  <2> QED
    BY <2>1 DEF NoMsg
<1>2. g \in SctpMsgs /\ g.c = c
  BY <1>1 DEF SctpMsgs
<1> HIDE DEF g
<1>3. [g EXCEPT !.note = TRUE] \in SctpMsgs /\ [g EXCEPT !.note = TRUE].note /\ [g EXCEPT !.note = TRUE].c = c
  BY <1>2 DEF SctpMsgs
<1>4. Note(c) = [g EXCEPT !.note = TRUE]
  BY Zenon DEF Note, g
<1> QED
  BY <1>3, <1>4

LEMMA SendShapes ==
    ASSUME SctpShape, NEW c \in SctpClients, SctpSendLine(c)
    PROVE  SctpShape'
<1>1. SctpTypeOK /\ ServerShape /\ UNCHANGED <<xSrv, xOut, xMode, xPeeled, xPc, xCur, xBuf, xEchoes, xMixed>>
  BY DEF SctpShape, SctpSendLine
<1>2. CASE xUp[c] = "closing"
  <2>1. xCli' = [xCli EXCEPT ![c] = "gone"] /\ UNCHANGED <<xIn, xBack, xUp, xLine, xShown>>
    BY <1>2 DEF SctpSendLine
  <2>2. SctpTypeOK'
    BY <1>1, <2>1 DEF SctpTypeOK
  <2>3. ServerShape'
    BY <1>1, <1>2, <2>1 DEF ServerShape, SctpTypeOK
  <2> QED
    BY <2>2, <2>3 DEF SctpShape
<1>3. CASE xUp[c] # "closing"
  <2>1. PICK streams \in StreamsOf(xMode[c]) :
          xIn' = xIn \cup {Msg(c, xLine[c] + 1, s) : s \in streams}
                     \cup (IF xUp[c] = "none" /\ xSrv.events THEN {Note(c)} ELSE {})
    BY <1>3 DEF SctpSendLine
  <2>2. /\ xBack' = xBack \cup (IF xUp[c] = "none" /\ xMode[c] = "strcli1" THEN {Note(c)} ELSE {})
        /\ xUp' = [xUp EXCEPT ![c] = "up"] /\ xCli' = [xCli EXCEPT ![c] = "wait"]
        /\ xLine' = [xLine EXCEPT ![c] = @ + 1] /\ xShown' = [xShown EXCEPT ![c] = {}]
    BY <1>3 DEF SctpSendLine
  <2>3. streams \subseteq 0 .. SctpStreams - 1
    BY <2>1 DEF StreamsOf, sctpstr_cli, sctpstr_cli_un, sctpstr_cli_echoall
  <2>4. Note(c) \in SctpMsgs /\ Note(c).note
    BY NoteIsMsg
  <2>5. \A s \in streams : Msg(c, xLine[c] + 1, s) \in SctpMsgs /\ ~Msg(c, xLine[c] + 1, s).note
    BY <1>1, <2>3, NewMsg DEF SctpShape
  <2>6. xIn' \in SUBSET SctpMsgs /\ xBack' \in SUBSET SctpMsgs
    <3>1. xIn \in SUBSET SctpMsgs /\ xBack \in SUBSET SctpMsgs
      BY <1>1 DEF SctpTypeOK
    <3> QED
      BY <2>1, <2>2, <2>4, <2>5, <3>1
  <2>7. SctpTypeOK'
    BY <1>1, <2>2, <2>6 DEF SctpTypeOK
  <2>8. \A m \in xIn' : m.note => xSrv.events
    <3> TAKE m \in xIn'
    <3>1. m \in xIn \/ (\E s \in streams : m = Msg(c, xLine[c] + 1, s)) \/ xSrv.events
      BY <2>1
    <3> QED
      BY <1>1, <2>5, <3>1 DEF ServerShape
  <2>9. ServerShape'
    BY <1>1, <2>2, <2>8 DEF ServerShape, SctpTypeOK
  <2> QED
    BY <2>7, <2>9 DEF SctpShape
<1> QED
  BY <1>2, <1>3

LEMMA ReadShapes ==
    ASSUME SctpShape, NEW c \in SctpClients, check_notification(c) \/ (\E r \in xBack : ReadReply(c, r))
    PROVE  SctpShape'
<1>1. SctpTypeOK /\ ServerShape /\ UNCHANGED <<xSrv, xOut, xMode, xUp, xPeeled, xIn, xPc, xCur, xBuf, xLine, xEchoes, xMixed>>
  BY DEF SctpShape, check_notification, ReadReply
<1>2. CASE check_notification(c)
  <2>1. xBack' \subseteq xBack /\ UNCHANGED <<xCli, xShown>>
    BY <1>2 DEF check_notification
  <2>2. SctpTypeOK'
    BY <1>1, <2>1 DEF SctpTypeOK
  <2>3. ServerShape'
    BY <1>1, <2>1 DEF ServerShape
  <2> QED
    BY <2>2, <2>3 DEF SctpShape
<1>3. CASE \E r \in xBack : ReadReply(c, r)
  <2>1. PICK r \in xBack : ReadReply(c, r)
    BY <1>3
  <2>2. PICK u \in {"idle", "wait"} : xCli' = [xCli EXCEPT ![c] = u]
    BY <2>1 DEF ReadReply
  <2>3. xBack' \subseteq xBack /\ xShown' = [xShown EXCEPT ![c] = @ \cup {r}]
    BY <2>1 DEF ReadReply
  <2>4. xBack \in SUBSET SctpMsgs /\ r \in SctpMsgs /\ xShown[c] \in SUBSET SctpMsgs
    BY <1>1 DEF SctpTypeOK
  <2>5. xShown' \in [SctpClients -> SUBSET SctpMsgs]
    BY <1>1, <2>3, <2>4 DEF SctpTypeOK
  <2>6. SctpTypeOK'
    BY <1>1, <2>2, <2>3, <2>4, <2>5 DEF SctpTypeOK
  <2>7. ServerShape'
    BY <1>1, <2>2 DEF ServerShape, SctpTypeOK
  <2> QED
    BY <2>6, <2>7 DEF SctpShape
<1> QED
  BY <1>2, <1>3

LEMMA EndShapes ==
    ASSUME SctpShape, NEW c \in SctpClients, Leave(c) \/ AssocEnds(c)
    PROVE  SctpShape'
<1>1. SctpTypeOK /\ ServerShape /\ UNCHANGED <<xSrv, xOut, xMode, xPc, xCur, xBuf, xLine, xShown, xEchoes, xMixed>>
  BY DEF SctpShape, Leave, AssocEnds
<1>2. /\ xUp' = [xUp EXCEPT ![c] = "none"] /\ xIn' \subseteq xIn /\ xBack' \subseteq xBack
      /\ xPeeled' \subseteq xPeeled /\ (xCli' = xCli \/ xCli' = [xCli EXCEPT ![c] = "gone"])
  BY DEF Leave, AssocEnds
<1>3. SctpTypeOK'
  BY <1>1, <1>2 DEF SctpTypeOK
<1>4. ServerShape'
  <2>1. \A d \in SctpClients : xUp'[d] = "up" => xCli'[d] # "gone"
    BY <1>1, <1>2 DEF ServerShape, SctpTypeOK
  <2> QED
    BY <1>1, <1>2, <2>1 DEF ServerShape
<1> QED
  BY <1>3, <1>4 DEF SctpShape

\* What pdapi_recvmsg() makes room for
LEMMA RoomGrows ==
    ASSUME SctpShape, xPc = "more"
    PROVE  Grown \in Nat /\ Grown >= xBuf /\ Grown > xCur.len /\ xCur.len \in Nat
<1>1. xBuf \in Nat /\ xCur \in SctpMsgs /\ xCur.len <= xBuf
  BY DEF SctpShape, SctpTypeOK, ServerShape
<1>2. xCur.len \in Nat
  BY <1>1, MsgParts
<1> QED
  BY <1>1, <1>2, SctpAssumption DEF Grown

\* A step of the server that reads from xIn
LEMMA ReceiveShapes ==
    ASSUME SctpShape, NEW m \in xIn, Receive1(m) \/ pdapi_recvmsg(m) \/ print_notification(m)
    PROVE  SctpShape'
<1>1. SctpTypeOK /\ ServerShape /\ UNCHANGED <<xSrv, xOut, xMode, xUp, xPeeled, xBack, xCli, xLine, xShown, xEchoes>>
  BY DEF SctpShape, Receive1, pdapi_recvmsg, print_notification
<1>2. m \in SctpMsgs /\ m.len \in Nat /\ xIn \in SUBSET SctpMsgs /\ xBuf \in Nat
  BY <1>1, MsgParts DEF SctpTypeOK
<1>3. ASSUME NEW n \in 1 .. m.len, xIn' = (xIn \ {m}) \cup (IF n < m.len THEN {[m EXCEPT !.len = @ - n]} ELSE {})
      PROVE  xIn' \in SUBSET SctpMsgs /\ \A k \in xIn' : k.note => xSrv.events
  <2>1. m.len - n \in Nat
    BY <1>2
  <2>2. [m EXCEPT !.len = m.len - n] \in SctpMsgs /\ [m EXCEPT !.len = m.len - n].note = m.note
    BY <1>2, <2>1, MsgOfLength
  <2>3. \A k \in xIn' : k \in xIn \/ k = [m EXCEPT !.len = m.len - n]
    BY <1>3
  <2> QED
    BY <1>1, <1>2, <2>2, <2>3 DEF ServerShape
<1>4. CASE Receive1(m)
  <2>1. xPc' \in {"more", "stream"} /\ ~m.note /\ UNCHANGED xMixed
    BY <1>4 DEF Receive1
  <2>2. CASE xSrv.pdapi
    <3>1. PICK n \in 1 .. m.len :
            /\ n <= xBuf' /\ xCur' = [m EXCEPT !.len = n]
            /\ xIn' = (xIn \ {m}) \cup (IF n < m.len THEN {[m EXCEPT !.len = @ - n]} ELSE {})
      BY <1>4, <2>2 DEF Receive1
    <3>2. xBuf' \in Nat
      BY <1>2, <1>4, <2>2, SctpAssumption DEF Receive1
    <3>3. n \in Nat
      BY <1>2
    <3>4. xCur' \in SctpMsgs /\ xCur'.len = n /\ ~xCur'.note
      BY <1>2, <2>1, <3>1, <3>3, MsgOfLength
    <3>5. xIn' \in SUBSET SctpMsgs /\ \A k \in xIn' : k.note => xSrv.events
      BY <1>3, <3>1
    <3>6. SctpTypeOK'
      BY <1>1, <2>1, <3>2, <3>4, <3>5 DEF SctpTypeOK
    <3>7. ServerShape'
      BY <1>1, <2>1, <2>2, <3>1, <3>4, <3>5 DEF ServerShape
    <3> QED
      BY <3>6, <3>7 DEF SctpShape
  <2>3. CASE ~xSrv.pdapi
    <3>1. xCur' = m /\ xIn' = xIn \ {m} /\ xPc' = "stream" /\ UNCHANGED xBuf
      BY <1>4, <2>3 DEF Receive1
    <3>2. SctpTypeOK'
      BY <1>1, <1>2, <2>1, <3>1 DEF SctpTypeOK
    <3>3. ServerShape'
      BY <1>1, <1>2, <2>1, <3>1 DEF ServerShape
    <3> QED
      BY <3>2, <3>3 DEF SctpShape
  <2> QED
    BY <2>2, <2>3
<1>5. CASE pdapi_recvmsg(m)
  <2>1. PICK n \in 1 .. m.len :
          /\ n <= xBuf' - xCur.len
          /\ xCur' = [xCur EXCEPT !.len = @ + n]
          /\ xIn' = (xIn \ {m}) \cup (IF n < m.len THEN {[m EXCEPT !.len = @ - n]} ELSE {})
    BY <1>5 DEF pdapi_recvmsg
  <2>2. xPc = "more" /\ xPc' \in {"more", "stream"} /\ xBuf' = Grown /\ xMixed' \in BOOLEAN
    BY <1>5, <1>1 DEF pdapi_recvmsg, SctpTypeOK
  <2>3. xBuf' \in Nat /\ xCur.len \in Nat
    BY <2>2, RoomGrows
  <2>4. n \in Nat /\ xCur.len + n \in Nat /\ xCur.len + n <= xBuf'
    BY <1>2, <2>1, <2>3
  <2>5. xCur \in SctpMsgs /\ ~xCur.note
    BY <1>1, <2>2 DEF ServerShape
  <2>6. xCur' \in SctpMsgs /\ xCur'.len = xCur.len + n /\ ~xCur'.note
    BY <2>1, <2>4, <2>5, MsgOfLength
  <2>7. xIn' \in SUBSET SctpMsgs /\ \A k \in xIn' : k.note => xSrv.events
    BY <1>3, <2>1
  <2>8. SctpTypeOK'
    BY <1>1, <2>2, <2>3, <2>6, <2>7 DEF SctpTypeOK
  <2>9. ServerShape'
    BY <1>1, <2>2, <2>4, <2>6, <2>7 DEF ServerShape
  <2> QED
    BY <2>8, <2>9 DEF SctpShape
<1>6. CASE print_notification(m)
  <2>1. xIn' \subseteq xIn /\ UNCHANGED <<xPc, xCur, xBuf, xMixed>>
    BY <1>6 DEF print_notification
  <2>2. SctpTypeOK'
    BY <1>1, <2>1 DEF SctpTypeOK
  <2>3. ServerShape'
    BY <1>1, <2>1 DEF ServerShape
  <2> QED
    BY <2>2, <2>3 DEF SctpShape
<1> QED
  BY <1>4, <1>5, <1>6


LEMMA ServerShapes ==
    ASSUME SctpShape, PieceLost \/ ChooseStream \/ Sctp_sendmsg \/ Peeloff
    PROVE  SctpShape'
<1>1. SctpTypeOK /\ ServerShape /\ UNCHANGED <<xSrv, xOut, xMode, xIn, xCli, xLine, xShown, xMixed>>
  BY DEF SctpShape, PieceLost, ChooseStream, Sctp_sendmsg, Peeloff
<1>2. CASE PieceLost
  <2>1. /\ xPc = "more" /\ xPc' = "stream" /\ xBuf' = Grown
        /\ UNCHANGED <<xIn, xMixed, xUp, xPeeled, xBack, xEchoes, xCur>>
    BY <1>2 DEF PieceLost
  <2>2. xBuf' \in Nat
    BY <2>1, RoomGrows
  <2>3. SctpTypeOK'
    BY <1>1, <2>1, <2>2 DEF SctpTypeOK
  <2>4. ServerShape'
    BY <1>1, <2>1 DEF ServerShape
  <2> QED
    BY <2>3, <2>4 DEF SctpShape
<1>3. CASE ChooseStream
  <2>1. xPc = "stream" /\ UNCHANGED <<xUp, xPeeled, xBack, xBuf, xEchoes>> /\ xCur \in SctpMsgs /\ ~xCur.note
    BY <1>1, <1>3 DEF ChooseStream, ServerShape
  <2>2. CASE UNCHANGED xCur /\ (xPc' = "died" \/ (xPc' = "send" /\ ~xSrv.incr))
    <3>1. SctpTypeOK'
      BY <1>1, <2>1, <2>2 DEF SctpTypeOK
    <3>2. ServerShape'
      BY <1>1, <2>1, <2>2 DEF ServerShape
    <3> QED
      BY <3>1, <3>2 DEF SctpShape
  <2>3. CASE xPc' = "send" /\ xCur' = [xCur EXCEPT !.s = NextStream(xCur.s)]
    <3>1. NextStream(xCur.s) \in Nat /\ NextStream(xCur.s) < xOut
      <4>1. xCur.s \in Nat /\ xOut \in Nat \ {0}
        BY <1>1, <2>1, MsgParts DEF SctpTypeOK
      <4> QED
        BY <4>1 DEF NextStream
    <3>2. xCur' \in SctpMsgs /\ xCur'.s = NextStream(xCur.s) /\ ~xCur'.note
      BY <2>1, <2>3, <3>1, MsgOnStream
    <3>3. SctpTypeOK'
      BY <1>1, <2>1, <2>3, <3>2 DEF SctpTypeOK
    <3>4. ServerShape'
      BY <1>1, <2>1, <2>3, <3>1, <3>2 DEF ServerShape
    <3> QED
      BY <3>3, <3>4 DEF SctpShape
  <2> QED
    BY <1>3, <2>2, <2>3 DEF ChooseStream
<1>4. CASE Sctp_sendmsg
  <2>1. xPc = "send" /\ UNCHANGED <<xPeeled, xBuf>> /\ xCur \in SctpMsgs /\ ~xCur.note /\ xCur.c \in SctpClients
    BY <1>1, <1>4, MsgParts DEF Sctp_sendmsg, ServerShape
  <2>2. xCur' \in SctpMsgs \cup {NoMsg} /\ (xPc' = "peel" => xCur' = xCur)
    BY <1>4, <2>1 DEF Sctp_sendmsg
  <2>3. /\ xPc' \in {"recv", "died", "died_stream", "peel"}
        /\ xPc' = "peel" => xSrv.fork
        /\ xPc' = "died_stream" => xCur.s >= xOut
        /\ xBack' = xBack \/ xBack' = xBack \cup {xCur}
        /\ xEchoes' = xEchoes \/ xEchoes' = xEchoes \cup {xCur}
        /\ xUp' = xUp \/ xUp' = [xUp EXCEPT ![xCur.c] = "closing"]
    <3>1. CASE xUp[xCur.c] = "none"
      BY <1>4, <3>1 DEF Sctp_sendmsg
    <3>2. CASE xUp[xCur.c] = "closing"
      BY <1>4, <3>2 DEF Sctp_sendmsg
    <3>3. CASE xUp[xCur.c] = "up" /\ xCur.s >= xOut
      BY <1>4, <3>3 DEF Sctp_sendmsg
    <3>4. CASE xUp[xCur.c] = "up" /\ ~(xCur.s >= xOut)
      BY <1>4, <3>4 DEF Sctp_sendmsg
    <3> QED
      BY <1>1, <2>1, <3>1, <3>2, <3>3, <3>4 DEF SctpTypeOK
  <2>4. xPc' = "died_stream" => ~xSrv.incr
    <3>1. xCur.s \in Nat /\ xOut \in Nat
      BY <1>1, <2>1, MsgParts DEF SctpTypeOK
    <3> QED
      BY <1>1, <2>1, <2>3, <3>1 DEF ServerShape
  <2>5. SctpTypeOK'
    BY <1>1, <2>1, <2>2, <2>3 DEF SctpTypeOK
  <2>6. \A c \in SctpClients : xUp'[c] = "up" => xCli'[c] # "gone"
    BY <1>1, <2>1, <2>3 DEF ServerShape, SctpTypeOK
  <2>7. ServerShape'
    BY <1>1, <2>1, <2>2, <2>3, <2>4, <2>6 DEF ServerShape
  <2> QED
    BY <2>5, <2>7 DEF SctpShape
<1>5. CASE Peeloff
  <2>1. xPc = "peel" /\ xPc' = "recv" /\ xCur' = NoMsg /\ UNCHANGED <<xUp, xBack, xBuf, xEchoes>>
        /\ (xPeeled' = xPeeled \/ xPeeled' = xPeeled \cup {xCur.c})
    BY <1>5 DEF Peeloff
  <2>2. xCur.c \in SctpClients /\ xSrv.fork
    BY <1>1, <2>1, MsgParts DEF ServerShape
  <2>3. SctpTypeOK'
    BY <1>1, <2>1, <2>2 DEF SctpTypeOK
  <2>4. ServerShape'
    BY <1>1, <2>1, <2>2 DEF ServerShape
  <2> QED
    BY <2>3, <2>4 DEF SctpShape
<1> QED
  BY <1>2, <1>3, <1>4, <1>5

LEMMA ForkShapes ==
    ASSUME SctpShape, ForkFails
    PROVE  SctpShape'
<1>1. SctpTypeOK /\ ServerShape /\ UNCHANGED <<xSrv, xOut, xMode, xPeeled, xBuf, xCli, xLine, xShown, xEchoes, xMixed>>
  BY DEF SctpShape, ForkFails
<1>2. /\ xPc = "peel" /\ xPc' = "recv" /\ xCur' = NoMsg /\ xIn' \subseteq xIn /\ xBack' \subseteq xBack
      /\ xUp' = [xUp EXCEPT ![xCur.c] = "closing"]
  BY DEF ForkFails
<1>3. SctpTypeOK'
  BY <1>1, <1>2 DEF SctpTypeOK
<1>4. \A c \in SctpClients : xUp'[c] = "up" => xCli'[c] # "gone"
  BY <1>1, <1>2 DEF ServerShape, SctpTypeOK
<1>5. ServerShape'
  BY <1>1, <1>2, <1>4 DEF ServerShape
<1> QED
  BY <1>3, <1>5 DEF SctpShape

LEMMA ChildShapes ==
    ASSUME SctpShape, NEW m \in xIn, ChildEcho(m)
    PROVE  SctpShape' /\ ~m.note
<1>1. /\ SctpTypeOK /\ ServerShape
      /\ UNCHANGED <<xSrv, xOut, xMode, xUp, xPeeled, xPc, xCur, xBuf, xCli, xLine, xShown, xMixed>>
  BY DEF SctpShape, ChildEcho
<1> DEFINE r == [m EXCEPT !.s = 0]
<1>2. xIn' = xIn \ {m} /\ xBack' = xBack \cup {r} /\ xEchoes' = xEchoes \cup {r} /\ m.c \in xPeeled
  BY DEF ChildEcho
<1>3. m \in SctpMsgs /\ r \in SctpMsgs
  BY <1>1, MsgOnStream DEF SctpTypeOK
<1>4. SctpTypeOK'
  BY <1>1, <1>2, <1>3 DEF SctpTypeOK
<1>5. ~m.note /\ ~r.note
  BY <1>1, <1>2, <1>3, MsgOnStream DEF ServerShape
<1>6. ServerShape'
  BY <1>1, <1>2, <1>5 DEF ServerShape
<1> QED
  BY <1>4, <1>5, <1>6 DEF SctpShape

\* Fewer messages are under way, or a client has gone with its messages; the server still
\* works on what it did, or has given it up with all that was left of it.
LEMMA FewerUnderWay ==
    ASSUME Unmixed, InFly' \subseteq InFly, BackFly' \subseteq BackFly, Worked' \subseteq Worked, xBack' \subseteq xBack,
           UNCHANGED <<xEchoes, xShown, xLine, xMode>>,
           Worked' # {} => xPc' = xPc /\ xCur' = xCur,
           xPc = "more" /\ xPc' # "more" => \A a \in InFly' : ~SameMsg(a, xCur),
           \A c \in SctpClients : xCli'[c] = xCli[c] \/ xCli'[c] = "gone",
           \A m \in Worked' : m.c \in SctpClients,
           \A m \in InFly' \cup BackFly' : xCli'[m.c] = xCli[m.c]
    PROVE  Unmixed'
<1>w. UnderWay /\ OnePlace /\ Replies /\ Pieces /\ OneStream
  BY DEF Unmixed
<1>1. UnderWay'
  BY <1>w DEF UnderWay, Asked
<1>2. OnePlace'
  <2>1. \A a \in InFly', b \in Worked' : SameMsg(a, b) => xPc' = "more"
    BY <1>w DEF OnePlace
  <2>2. \A e \in xEchoes', a \in InFly' \cup Worked' : ~SameMsg(e, a)
    BY <1>w DEF OnePlace
  <2>3. \A a, b \in InFly' : SameMsg(a, b) => a = b
    BY <1>w DEF OnePlace
  <2>4. \A e, f \in xEchoes' : SameMsg(e, f) => e = f
    BY <1>w DEF OnePlace
  <2> QED
    BY <2>1, <2>2, <2>3, <2>4 DEF OnePlace, SameMsg
<1>3. Replies'
  BY <1>w DEF Replies
<1>4. Pieces'
  <2>1. \A c : FullLen(c)' = FullLen(c)
    BY DEF FullLen
  <2>2. xPc' \in {"more", "stream", "send"} => xPc' = xPc /\ xCur' = xCur
    BY DEF Worked
  <2>3. \A e \in xEchoes' : e.len = FullLen(e.c)'
    BY <1>w, <2>1 DEF Pieces
  <2>4. \A m \in InFly' : IF xPc' = "more" /\ SameMsg(m, xCur') THEN xCur'.len + m.len = FullLen(m.c)'
                          ELSE m.len = FullLen(m.c)'
    BY <1>w, <2>1, <2>2 DEF Pieces
  <2>5. (xPc \in {"stream", "send"} => xCur.len = FullLen(xCur.c) \/ xCli[xCur.c] = "gone")'
    <3>1. xPc' \in {"stream", "send"} => xCur \in Worked' /\ xPc \in {"stream", "send"} /\ xCur' = xCur
      BY <2>2 DEF Worked
    <3>2. xCur \in Worked' => xCur.c \in SctpClients
      OBVIOUS
    <3>3. xCur.c \in SctpClients /\ xCli[xCur.c] = "gone" => xCli'[xCur.c] = "gone"
      OBVIOUS
    <3> QED
      BY <1>w, <3>1, <3>2, <3>3 DEF Pieces, FullLen
  <2>6. xPc' = "more" => xMode'[xCur'.c] = "big"
    BY <1>w, <2>2 DEF Pieces
  <2> QED
    BY <2>3, <2>4, <2>5, <2>6 DEF Pieces, SameMsg
<1>5. OneStream'
  BY <1>w DEF OneStream
<1> QED
  BY <1>1, <1>2, <1>3, <1>4, <1>5 DEF Unmixed

\* Steps that take something away
LEMMA LeavingSteps ==
    ASSUME SctpShape, Unmixed, NEW c \in SctpClients, Leave(c) \/ AssocEnds(c) \/ check_notification(c)
    PROVE  Unmixed'
<1>t. SctpTypeOK /\ ServerShape /\ UNCHANGED <<xMode, xPc, xCur, xLine, xShown, xEchoes>>
  BY DEF SctpShape, Leave, AssocEnds, check_notification
<1>1. xIn' \subseteq xIn /\ xBack' \subseteq xBack /\ (xCli' = xCli \/ Leave(c))
  BY DEF Leave, AssocEnds, check_notification
<1>2. InFly' \subseteq InFly /\ BackFly' \subseteq BackFly /\ Worked' = Worked
  BY <1>t, <1>1 DEF InFly, BackFly, Worked
<1>3. \A m \in Worked' : m.c \in SctpClients
  BY <1>t, <1>2, MsgParts DEF Worked, ServerShape
<1>4. (\A d \in SctpClients : xCli'[d] = xCli[d] \/ xCli'[d] = "gone") /\ \A m \in InFly' \cup BackFly' : xCli'[m.c] = xCli[m.c]
  <2>1. CASE xCli' = xCli
    BY <2>1
  <2>2. CASE Leave(c)
    <3>1. xCli' = [xCli EXCEPT ![c] = "gone"] /\ \A m \in xIn' \cup xBack' : m.c # c
      BY <2>2 DEF Leave
    <3>2. \A m \in InFly' \cup BackFly' : m \in xIn' \cup xBack'
      BY DEF InFly, BackFly
    <3> QED
      BY <1>t, <3>1, <3>2 DEF SctpTypeOK
  <2> QED
    BY <1>1, <2>1, <2>2
<1> QED
  BY <1>t, <1>1, <1>2, <1>3, <1>4, FewerUnderWay

\* Steps in which the server gives up or ends what it does
LEMMA GivingUp ==
    ASSUME SctpShape, Unmixed, UNCHANGED <<xIn, xBack, xMode, xCli, xLine, xShown, xEchoes>>,
           xPc' \notin {"more", "stream", "send"},
           xPc = "more" => xCli[xCur.c] = "gone"
    PROVE  Unmixed'
<1>1. InFly' = InFly /\ BackFly' = BackFly /\ Worked' = {}
  BY DEF InFly, BackFly, Worked
<1>2. xPc = "more" => \A a \in InFly' : ~SameMsg(a, xCur)
  BY <1>1 DEF Unmixed, UnderWay, Asked, SameMsg
<1> QED
  BY <1>1, <1>2, FewerUnderWay

\* fork() fails.
LEMMA ForkLoses ==
    ASSUME SctpShape, Unmixed, ForkFails
    PROVE  Unmixed'
<1>1. /\ UNCHANGED <<xMode, xCli, xLine, xShown, xEchoes>> /\ xPc = "peel" /\ xPc' = "recv"
      /\ xIn' \subseteq xIn /\ xBack' \subseteq xBack
  BY DEF ForkFails
<1>2. InFly' \subseteq InFly /\ BackFly' \subseteq BackFly /\ Worked' = {}
  BY <1>1 DEF InFly, BackFly, Worked
<1> QED
  BY <1>1, <1>2, FewerUnderWay

\* The pieces of a message whose sender has gone are all there is.
LEMMA PiecesLeft ==
    ASSUME SctpShape, Unmixed, PieceLost
    PROVE  Unmixed'
<1>t. /\ UNCHANGED <<xIn, xBack, xMode, xCur, xCli, xLine, xShown, xEchoes>> /\ xPc = "more" /\ xPc' = "stream"
      /\ xCli[xCur.c] = "gone"
  BY DEF PieceLost
<1>w. UnderWay /\ OnePlace /\ Replies /\ Pieces /\ OneStream
  BY DEF Unmixed
<1>1. InFly' = InFly /\ BackFly' = BackFly /\ Worked' = {xCur} /\ Worked = {xCur}
  BY <1>t DEF InFly, BackFly, Worked
<1>2. \A a \in InFly : ~SameMsg(a, xCur)
  BY <1>t, <1>w DEF UnderWay, Asked, SameMsg
<1>3. UnderWay'
  BY <1>t, <1>w, <1>1 DEF UnderWay, Asked
<1>4. OnePlace'
  BY <1>t, <1>w, <1>1, <1>2 DEF OnePlace, SameMsg
<1>5. Replies'
  BY <1>t, <1>w, <1>1 DEF Replies
<1>6. Pieces'
  BY <1>t, <1>w, <1>1, <1>2 DEF Pieces, SameMsg, FullLen
<1>7. OneStream'
  BY <1>t, <1>w, <1>1 DEF OneStream
<1> QED
  BY <1>3, <1>4, <1>5, <1>6, <1>7 DEF Unmixed

LEMMA NotificationRead ==
    ASSUME SctpShape, Unmixed, NEW m \in xIn, print_notification(m)
    PROVE  Unmixed'
<1>1. /\ UNCHANGED <<xBack, xPc, xCur, xMode, xCli, xLine, xShown, xEchoes>> /\ xIn' = xIn \ {m} /\ m.note
      /\ xPc = "recv"
  BY DEF print_notification
<1>2. InFly' = InFly /\ BackFly' = BackFly /\ Worked' = {}
  BY <1>1 DEF InFly, BackFly, Worked
<1> QED
  BY <1>1, <1>2, FewerUnderWay

\* The server takes a message, whole or a piece of it.
LEMMA TakesMessage ==
    ASSUME SctpShape, Unmixed, NEW m \in xIn, Receive1(m)
    PROVE  Unmixed'
<1>t. SctpTypeOK /\ ServerShape /\ UNCHANGED <<xBack, xMode, xCli, xLine, xShown, xEchoes>> /\ xPc = "recv" /\ ~m.note
  BY DEF SctpShape, Receive1
<1>w. UnderWay /\ OnePlace /\ Replies /\ Pieces /\ OneStream
  BY DEF Unmixed
<1>m. m \in SctpMsgs /\ m.len \in Nat /\ m.c \in SctpClients /\ m \in InFly
  BY <1>t, MsgParts DEF SctpTypeOK, InFly
<1>f. m.len = FullLen(m.c) /\ \A a \in InFly : a.len = FullLen(a.c)
  BY <1>t, <1>w, <1>m DEF Pieces
<1>1. \E n \in Nat : /\ xCur' = [m EXCEPT !.len = n]
                     /\ \/ n = m.len /\ xIn' = xIn \ {m} /\ xPc' = "stream"
                        \/ /\ 1 <= n /\ n < m.len /\ xPc' = "more"
                           /\ xIn' = (xIn \ {m}) \cup {[m EXCEPT !.len = m.len - n]}
  <2>1. CASE xSrv.pdapi
    <3>1. PICK n \in 1 .. m.len :
            /\ xCur' = [m EXCEPT !.len = n]
            /\ xIn' = (xIn \ {m}) \cup (IF n < m.len THEN {[m EXCEPT !.len = @ - n]} ELSE {})
            /\ xPc' = IF n < m.len THEN "more" ELSE "stream"
      BY <2>1 DEF Receive1
    <3>2. n \in Nat /\ 1 <= n /\ (n < m.len \/ n = m.len)
      BY <1>m
    <3>3. CASE n < m.len
      BY <3>1, <3>2, <3>3
    <3>4. CASE n = m.len
      <4>1. ~(n < m.len)
        BY <3>4, <1>m
      <4>2. xIn' = xIn \ {m} /\ xPc' = "stream"
        BY <3>1, <4>1
      <4> QED
        BY <3>1, <3>2, <3>4, <4>2
    <3> QED
      BY <3>2, <3>3, <3>4
  <2>2. CASE ~xSrv.pdapi
    <3>1. xCur' = m /\ xIn' = xIn \ {m} /\ xPc' = "stream"
      BY <2>2 DEF Receive1
    <3>2. [m EXCEPT !.len = m.len] = m
      BY <1>m DEF SctpMsgs
    <3> QED
      BY <1>m, <3>1, <3>2
  <2> QED
    BY <2>1, <2>2
<1>2. PICK n \in Nat : /\ xCur' = [m EXCEPT !.len = n]
                       /\ \/ n = m.len /\ xIn' = xIn \ {m} /\ xPc' = "stream"
                          \/ /\ 1 <= n /\ n < m.len /\ xPc' = "more"
                             /\ xIn' = (xIn \ {m}) \cup {[m EXCEPT !.len = m.len - n]}
  BY <1>1
<1> DEFINE r == [m EXCEPT !.len = m.len - n]
<1>3. xCur' \in SctpMsgs /\ SameMsg(xCur', m) /\ xCur'.c = m.c /\ xCur'.of = m.of /\ xCur'.line = m.line /\ xCur'.len = n
  BY <1>2, <1>m, MsgOfLength DEF SameMsg
<1>4. n < m.len => r \in SctpMsgs /\ r.c = m.c /\ r.line = m.line /\ r.of = m.of /\ r.len = m.len - n /\ ~r.note
  <2>1. n < m.len => m.len - n \in Nat
    BY <1>m
  <2> QED
    BY <1>t, <1>m, <2>1, MsgOfLength
<1>5. /\ BackFly' = BackFly /\ Worked' = {xCur'}
      /\ \A a \in InFly' : (a \in InFly /\ a # m) \/ (n < m.len /\ a = r)
  BY <1>2, <1>t DEF InFly, BackFly, Worked
<1> HIDE DEF r
<1>6. \A c : FullLen(c)' = FullLen(c)
  BY <1>t DEF FullLen
<1>a. \A a \in InFly : a # m => ~SameMsg(a, m)
  BY <1>w, <1>m DEF OnePlace
<1>7. UnderWay'
  <2>1. Asked(m)
    BY <1>w, <1>m DEF UnderWay
  <2> QED
    BY <1>t, <1>w, <1>3, <1>4, <1>5, <2>1 DEF UnderWay, Asked
<1>8. OnePlace'
  <2>1. \A a, b \in InFly' : SameMsg(a, b) => a = b
    BY <1>w, <1>4, <1>5, <1>a DEF OnePlace, SameMsg
  <2>2. \A a \in InFly', b \in Worked' : SameMsg(a, b) => xPc' = "more"
    <3>1. \A a \in InFly' : (a \in InFly /\ a # m) => ~SameMsg(a, xCur')
      BY <1>a, <1>3 DEF SameMsg
    <3>2. n < m.len => xPc' = "more"
      BY <1>2, <1>m
    <3> QED
      BY <1>5, <3>1, <3>2
  <2>3. \A e \in xEchoes', a \in InFly' \cup Worked' : ~SameMsg(e, a)
    <3>1. \A e \in xEchoes : ~SameMsg(e, m)
      BY <1>w, <1>m DEF OnePlace
    <3> QED
      BY <1>t, <1>w, <1>3, <1>4, <1>5, <3>1 DEF OnePlace, SameMsg
  <2>4. \A e, f \in xEchoes' : SameMsg(e, f) => e = f
    BY <1>t, <1>w DEF OnePlace
  <2> QED
    BY <2>1, <2>2, <2>3, <2>4 DEF OnePlace, SameMsg
<1>9. Replies'
  BY <1>t, <1>w, <1>5 DEF Replies
<1>10. Pieces'
  <2>1. \A e \in xEchoes' : e.len = FullLen(e.c)'
    BY <1>t, <1>w, <1>6 DEF Pieces
  <2>2. \A k \in InFly' : IF xPc' = "more" /\ SameMsg(k, xCur') THEN xCur'.len + k.len = FullLen(k.c)'
                          ELSE k.len = FullLen(k.c)'
    <3> TAKE k \in InFly'
    <3>1. CASE k \in InFly /\ k # m
      BY <1>a, <1>f, <1>3, <1>6, <3>1 DEF SameMsg
    <3>2. CASE n < m.len /\ k = r
      <4>1. xPc' = "more" /\ SameMsg(k, xCur')
        BY <1>2, <1>m, <1>3, <1>4, <3>2 DEF SameMsg
      <4>2. xCur'.len + k.len = m.len
        BY <1>m, <1>3, <1>4, <3>2
      <4> QED
        BY <1>4, <1>6, <1>f, <3>2, <4>1, <4>2
    <3> QED
      BY <1>5, <3>1, <3>2
  <2>3. (xPc \in {"stream", "send"} => xCur.len = FullLen(xCur.c) \/ xCli[xCur.c] = "gone")'
    BY <1>t, <1>2, <1>3, <1>f DEF FullLen
  <2>4. xPc' = "more" => xMode'[xCur'.c] = "big"
    <3>1. xPc' = "more" => m.len > 1
      BY <1>2, <1>m
    <3>2. m.len > 1 => xMode[m.c] = "big"
      BY <1>f DEF FullLen
    <3> QED
      BY <1>t, <1>3, <3>1, <3>2
  <2> QED
    BY <2>1, <2>2, <2>3, <2>4 DEF Pieces, SameMsg
<1>11. OneStream'
  <2>1. \A a \in InFly' \cup BackFly' \cup Worked' : \E b \in InFly \cup BackFly \cup Worked : a.c = b.c /\ a.of = b.of
    BY <1>m, <1>3, <1>4, <1>5
  <2> QED
    BY <1>t, <1>w, <2>1 DEF OneStream
<1> QED
  BY <1>7, <1>8, <1>9, <1>10, <1>11 DEF Unmixed

\* pdapi_recvmsg() appends a piece of the same message.
LEMMA TakesPiece ==
    ASSUME SctpShape, Unmixed, NEW m \in xIn, pdapi_recvmsg(m), ~xMixed'
    PROVE  Unmixed'
<1>t. SctpTypeOK /\ ServerShape /\ UNCHANGED <<xBack, xMode, xCli, xLine, xShown, xEchoes>> /\ xPc = "more" /\ ~m.note
  BY DEF SctpShape, pdapi_recvmsg
<1>w. UnderWay /\ OnePlace /\ Replies /\ Pieces /\ OneStream
  BY DEF Unmixed
<1>m. /\ m \in SctpMsgs /\ m.len \in Nat /\ m.c \in SctpClients /\ m \in InFly
      /\ xCur \in SctpMsgs /\ xCur.len \in Nat /\ Worked = {xCur}
  BY <1>t, MsgParts DEF SctpTypeOK, InFly, ServerShape, Worked
<1>s. m.c = xCur.c /\ m.line = xCur.line /\ m.of = xCur.of
  <2>1. m.c = xCur.c /\ m.line = xCur.line
    BY DEF pdapi_recvmsg
  <2>2. xMode[xCur.c] = "big"
    BY <1>t, <1>w DEF Pieces
  <2> QED
    BY <1>m, <1>w, <2>1, <2>2 DEF OneStream
<1>f. xCur.len + m.len = FullLen(m.c)
  BY <1>t, <1>w, <1>m, <1>s DEF Pieces, SameMsg
<1>1. PICK n \in 1 .. m.len :
        /\ xCur' = [xCur EXCEPT !.len = xCur.len + n]
        /\ xIn' = (xIn \ {m}) \cup (IF n < m.len THEN {[m EXCEPT !.len = m.len - n]} ELSE {})
        /\ xPc' = IF n < m.len THEN "more" ELSE "stream"
  BY DEF pdapi_recvmsg
<1> DEFINE r == [m EXCEPT !.len = m.len - n]
<1>2. n \in Nat /\ xCur.len + n \in Nat /\ (n < m.len \/ n = m.len) /\ m.len - n \in Nat
  BY <1>m
<1>3. xCur' \in SctpMsgs /\ xCur'.c = m.c /\ xCur'.of = m.of /\ xCur'.line = m.line /\ xCur'.len = xCur.len + n
  BY <1>1, <1>2, <1>m, <1>s, MsgOfLength
<1>4. r \in SctpMsgs /\ r.c = m.c /\ r.line = m.line /\ r.of = m.of /\ r.len = m.len - n /\ ~r.note
  BY <1>t, <1>m, <1>2, MsgOfLength
<1>5. /\ BackFly' = BackFly /\ Worked' = {xCur'}
      /\ \A a \in InFly' : (a \in InFly /\ a # m) \/ (n < m.len /\ a = r)
  BY <1>1, <1>t DEF InFly, BackFly, Worked
<1> HIDE DEF r
<1>6. \A c : FullLen(c)' = FullLen(c)
  BY <1>t DEF FullLen
<1>a. \A a \in InFly : a # m => ~SameMsg(a, m)
  BY <1>w, <1>m DEF OnePlace
<1>7. UnderWay'
  <2>1. Asked(m)
    BY <1>w, <1>m DEF UnderWay
  <2> QED
    BY <1>t, <1>w, <1>3, <1>4, <1>5, <2>1 DEF UnderWay, Asked
<1>8. OnePlace'
  <2>1. \A a, b \in InFly' : SameMsg(a, b) => a = b
    BY <1>w, <1>4, <1>5, <1>a DEF OnePlace, SameMsg
  <2>2. \A a \in InFly', b \in Worked' : SameMsg(a, b) => xPc' = "more"
    <3>1. \A a \in InFly' : (a \in InFly /\ a # m) => ~SameMsg(a, xCur')
      BY <1>a, <1>3 DEF SameMsg
    <3>2. n < m.len => xPc' = "more"
      BY <1>1
    <3> QED
      BY <1>5, <3>1, <3>2
  <2>3. \A e \in xEchoes', a \in InFly' \cup Worked' : ~SameMsg(e, a)
    <3>1. \A e \in xEchoes : ~SameMsg(e, m)
      BY <1>w, <1>m DEF OnePlace
    <3> QED
      BY <1>t, <1>w, <1>3, <1>4, <1>5, <3>1 DEF OnePlace, SameMsg
  <2>4. \A e, f \in xEchoes' : SameMsg(e, f) => e = f
    BY <1>t, <1>w DEF OnePlace
  <2> QED
    BY <2>1, <2>2, <2>3, <2>4 DEF OnePlace, SameMsg
<1>9. Replies'
  BY <1>t, <1>w, <1>5 DEF Replies
<1>10. Pieces'
  <2>1. \A e \in xEchoes' : e.len = FullLen(e.c)'
    BY <1>t, <1>w, <1>6 DEF Pieces
  <2>2. \A k \in InFly' : IF xPc' = "more" /\ SameMsg(k, xCur') THEN xCur'.len + k.len = FullLen(k.c)'
                          ELSE k.len = FullLen(k.c)'
    <3> TAKE k \in InFly'
    <3>1. CASE k \in InFly /\ k # m
      <4>1. ~SameMsg(k, xCur') /\ ~SameMsg(k, xCur)
        BY <1>a, <1>s, <1>3, <3>1 DEF SameMsg
      <4>2. k.len = FullLen(k.c)
        BY <1>w, <3>1, <4>1 DEF Pieces
      <4> QED
        BY <1>6, <4>1, <4>2
    <3>2. CASE n < m.len /\ k = r
      <4>1. xPc' = "more" /\ SameMsg(k, xCur')
        BY <1>1, <1>3, <1>4, <3>2 DEF SameMsg
      <4>2. xCur'.len + k.len = xCur.len + m.len
        BY <1>m, <1>2, <1>3, <1>4, <3>2
      <4> QED
        BY <1>4, <1>6, <1>f, <3>2, <4>1, <4>2
    <3> QED
      BY <1>5, <3>1, <3>2
  <2>3. (xPc \in {"stream", "send"} => xCur.len = FullLen(xCur.c) \/ xCli[xCur.c] = "gone")'
    <3>1. xPc' \in {"stream", "send"} => n = m.len
      BY <1>1, <1>2
    <3> QED
      BY <1>t, <1>3, <1>f, <3>1 DEF FullLen
  <2>4. xPc' = "more" => xMode'[xCur'.c] = "big"
    BY <1>t, <1>w, <1>s, <1>3 DEF Pieces
  <2> QED
    BY <2>1, <2>2, <2>3, <2>4 DEF Pieces, SameMsg
<1>11. OneStream'
  <2>1. \A a \in InFly' \cup BackFly' \cup Worked' : \E b \in InFly \cup BackFly \cup Worked : a.c = b.c /\ a.of = b.of
    BY <1>m, <1>3, <1>4, <1>5
  <2> QED
    BY <1>t, <1>w, <2>1 DEF OneStream
<1> QED
  BY <1>7, <1>8, <1>9, <1>10, <1>11 DEF Unmixed

\* The server chooses the stream of its answer.
LEMMA StreamChosen ==
    ASSUME SctpShape, Unmixed, ChooseStream
    PROVE  Unmixed'
<1>t. SctpTypeOK /\ ServerShape /\ UNCHANGED <<xIn, xBack, xMode, xCli, xLine, xShown, xEchoes>> /\ xPc = "stream"
  BY DEF SctpShape, ChooseStream
<1>w. UnderWay /\ OnePlace /\ Replies /\ Pieces /\ OneStream
  BY DEF Unmixed
<1>1. CASE xPc' = "died"
  BY <1>t, <1>1, GivingUp
<1>2. CASE xPc' = "send"
  <2>1. xCur \in SctpMsgs /\ Worked = {xCur} /\ Worked' = {xCur'}
    BY <1>t, <1>2 DEF ServerShape, Worked
  <2>2. xCur'.c = xCur.c /\ xCur'.line = xCur.line /\ xCur'.of = xCur.of /\ xCur'.len = xCur.len
    <3>1. CASE xCur' = xCur
      BY <3>1
    <3>2. CASE xCur' = [xCur EXCEPT !.s = NextStream(xCur.s)]
      <4>1. NextStream(xCur.s) \in Nat
        BY <2>1, MsgParts DEF NextStream
      <4> QED
        BY <2>1, <3>2, <4>1, MsgOnStream
    <3> QED
      BY <1>2, <3>1, <3>2 DEF ChooseStream
  <2>3. InFly' = InFly /\ BackFly' = BackFly
    BY <1>t DEF InFly, BackFly
  <2>4. UnderWay'
    BY <1>t, <1>w, <2>1, <2>2, <2>3 DEF UnderWay, Asked
  <2>5. OnePlace'
    <3>1. \A a \in InFly : ~SameMsg(a, xCur)
      BY <1>t, <1>w, <2>1 DEF OnePlace
    <3> QED
      BY <1>t, <1>w, <2>1, <2>2, <2>3, <3>1 DEF OnePlace, SameMsg
  <2>6. Replies'
    BY <1>t, <1>w, <2>3 DEF Replies
  <2>7. Pieces'
    BY <1>t, <1>w, <1>2, <2>2, <2>3 DEF Pieces, FullLen
  <2>8. OneStream'
    BY <1>t, <1>w, <2>1, <2>2, <2>3 DEF OneStream
  <2> QED
    BY <2>4, <2>5, <2>6, <2>7, <2>8 DEF Unmixed
<1> QED
  BY <1>1, <1>2 DEF ChooseStream

\* A message is answered: it is under way to the server no more, and its echo is.
LEMMA EchoMade ==
    ASSUME Unmixed, NEW m \in InFly \cup Worked, NEW e, ~e.note, e.c = m.c, e.line = m.line, e.of = m.of,
           e.len = FullLen(m.c), Asked(m), m.line \in Nat, xBack' = xBack \cup {e}, xEchoes' = xEchoes \cup {e},
           InFly' \subseteq InFly, Worked' \subseteq Worked, \A a \in InFly' \cup Worked' : ~SameMsg(a, m),
           Worked' # {} => xPc' = xPc /\ xCur' = xCur, xPc # "more", xPc' # "more",
           UNCHANGED <<xMode, xCli, xLine, xShown>>
    PROVE  Unmixed'
<1>w. UnderWay /\ OnePlace /\ Replies /\ Pieces /\ OneStream
  BY DEF Unmixed
<1>1. BackFly' = BackFly \cup {e}
  BY DEF BackFly
<1>2. \A f \in xEchoes : ~SameMsg(f, e)
  BY <1>w DEF OnePlace, SameMsg
<1>3. UnderWay'
  BY <1>w, <1>1 DEF UnderWay, Asked
<1>4. OnePlace'
  <2>1. \A a, b \in InFly' : SameMsg(a, b) => a = b
    BY <1>w DEF OnePlace
  <2>2. \A a \in InFly', b \in Worked' : ~SameMsg(a, b)
    BY <1>w DEF OnePlace
  <2>3. \A f \in xEchoes', a \in InFly' \cup Worked' : ~SameMsg(f, a)
    <3>1. \A a \in InFly' \cup Worked' : ~SameMsg(e, a)
      BY DEF SameMsg
    <3> QED
      BY <1>w, <3>1 DEF OnePlace
  <2>4. \A f, g \in xEchoes' : SameMsg(f, g) => f = g
    BY <1>w, <1>2 DEF OnePlace, SameMsg
  <2> QED
    BY <2>1, <2>2, <2>3, <2>4 DEF OnePlace, SameMsg
<1>5. Replies'
  <2>1. BackFly' \subseteq xEchoes'
    BY <1>w, <1>1 DEF Replies
  <2>2. \A c \in SctpClients : xShown'[c] \subseteq xEchoes' \ xBack'
    <3>1. e \notin xEchoes
      BY <1>2 DEF SameMsg
    <3> QED
      BY <1>w, <3>1 DEF Replies
  <2>3. \A f \in xEchoes' : f.line <= xLine'[f.c]
    BY <1>w DEF Replies, Asked
  <2> QED
    BY <1>w, <2>1, <2>2, <2>3 DEF Replies
<1>6. Pieces'
  <2>1. \A c : FullLen(c)' = FullLen(c)
    BY DEF FullLen
  <2>2. \A f \in xEchoes' : f.len = FullLen(f.c)'
    BY <1>w, <2>1 DEF Pieces
  <2>3. \A k \in InFly' : k.len = FullLen(k.c)'
    BY <1>w, <2>1 DEF Pieces
  <2>4. (xPc \in {"stream", "send"} => xCur.len = FullLen(xCur.c) \/ xCli[xCur.c] = "gone")'
    BY <1>w DEF Pieces, FullLen, Worked
  <2> QED
    BY <2>2, <2>3, <2>4 DEF Pieces, SameMsg
<1>7. OneStream'
  <2>1. \A a \in InFly' \cup BackFly' \cup Worked' : \E b \in InFly \cup BackFly \cup Worked : a.c = b.c /\ a.of = b.of
    BY <1>1
  <2> QED
    BY <1>w, <2>1 DEF OneStream
<1> QED
  BY <1>3, <1>4, <1>5, <1>6, <1>7 DEF Unmixed

LEMMA ServerAnswers ==
    ASSUME SctpShape, Unmixed, Sctp_sendmsg
    PROVE  Unmixed'
<1>t. SctpTypeOK /\ ServerShape /\ UNCHANGED <<xIn, xMode, xCli, xLine, xShown>> /\ xPc = "send"
  BY DEF SctpShape, Sctp_sendmsg
<1>m. xCur \in SctpMsgs /\ ~xCur.note /\ xCur.c \in SctpClients /\ xCur.line \in Nat /\ Worked = {xCur}
  BY <1>t, MsgParts DEF ServerShape, Worked
<1>1. CASE UNCHANGED <<xBack, xEchoes>> /\ xPc' \in {"recv", "died", "died_stream"}
  BY <1>t, <1>1, GivingUp
<1>2. CASE xUp[xCur.c] = "up" /\ xBack' = xBack \cup {xCur} /\ xEchoes' = xEchoes \cup {xCur} /\ xPc' \in {"peel", "recv"}
  <2>1. Asked(xCur)
    BY <1>t, <1>m, <1>2 DEF Unmixed, UnderWay, ServerShape
  <2>2. xCur.len = FullLen(xCur.c)
    BY <1>t, <2>1 DEF Unmixed, Pieces, Asked
  <2>3. InFly' = InFly /\ Worked' = {}
    BY <1>t, <1>2 DEF InFly, Worked
  <2>4. \A a \in InFly : ~SameMsg(a, xCur)
    BY <1>t, <1>m DEF Unmixed, OnePlace
  <2> QED
    BY <1>t, <1>m, <1>2, <2>1, <2>2, <2>3, <2>4, EchoMade
<1> QED
  <2>1. xUp[xCur.c] \in {"none", "up", "closing"}
    BY <1>t, <1>m DEF SctpTypeOK
  <2>2. CASE xUp[xCur.c] = "none"
    BY <1>1, <2>2 DEF Sctp_sendmsg
  <2>3. CASE xUp[xCur.c] = "closing"
    BY <1>1, <2>3 DEF Sctp_sendmsg
  <2>4. CASE xUp[xCur.c] = "up" /\ xCur.s >= xOut
    BY <1>1, <2>4 DEF Sctp_sendmsg
  <2>5. CASE xUp[xCur.c] = "up" /\ ~(xCur.s >= xOut)
    BY <1>2, <2>5 DEF Sctp_sendmsg
  <2> QED
    BY <2>1, <2>2, <2>3, <2>4, <2>5

LEMMA ChildAnswers ==
    ASSUME SctpShape, Unmixed, NEW m \in xIn, ChildEcho(m)
    PROVE  Unmixed'
<1>t. SctpTypeOK /\ ServerShape /\ UNCHANGED <<xMode, xCli, xLine, xShown, xPc, xCur>> /\ ~m.note /\ m.c \in xPeeled
  BY ChildShapes DEF SctpShape, ChildEcho
<1> DEFINE e == [m EXCEPT !.s = 0]
<1>m. m \in SctpMsgs /\ m \in InFly /\ m.line \in Nat
  BY <1>t, MsgParts DEF SctpTypeOK, InFly
<1>1. e.c = m.c /\ e.line = m.line /\ e.of = m.of /\ e.len = m.len /\ e.note = m.note
  BY <1>m, MsgOnStream
<1>2. xIn' = xIn \ {m} /\ xBack' = xBack \cup {e} /\ xEchoes' = xEchoes \cup {e}
  BY DEF ChildEcho
<1> HIDE DEF e
<1>3. xPc # "more"
  BY <1>t DEF ServerShape
<1>4. m.len = FullLen(m.c) /\ Asked(m)
  BY <1>m, <1>3 DEF Unmixed, Pieces, UnderWay
<1>5. InFly' = InFly \ {m} /\ Worked' = Worked
  BY <1>t, <1>2 DEF InFly, Worked
<1>6. \A a \in InFly' \cup Worked' : ~SameMsg(a, m)
  <2>1. \A a \in InFly' : ~SameMsg(a, m)
    BY <1>m, <1>5 DEF Unmixed, OnePlace
  <2>2. \A a \in Worked' : ~SameMsg(a, m)
    BY <1>m, <1>3, <1>5 DEF Unmixed, OnePlace, SameMsg
  <2> QED
    BY <2>1, <2>2
<1> QED
  BY <1>t, <1>m, <1>1, <1>2, <1>3, <1>4, <1>5, <1>6, EchoMade

\* A client sends a line, when nothing of it is under way.
LEMMA LineSent ==
    ASSUME SctpShape, Unmixed, NEW c \in SctpClients, SctpSendLine(c)
    PROVE  Unmixed'
<1>t. SctpTypeOK /\ ServerShape /\ UNCHANGED <<xMode, xPc, xCur, xEchoes>> /\ xCli[c] = "idle"
  BY DEF SctpShape, SctpSendLine
<1>w. UnderWay /\ OnePlace /\ Replies /\ Pieces /\ OneStream
  BY DEF Unmixed
<1>v. Worked' = Worked /\ \A b \in Worked : b.c \in SctpClients
  BY <1>t, MsgParts DEF Worked, ServerShape
<1>n. \A b \in InFly \cup BackFly \cup Worked : b.c # c
  BY <1>t, <1>w DEF UnderWay, Asked
<1>1. CASE xUp[c] = "closing"
  <2>1. xCli' = [xCli EXCEPT ![c] = "gone"] /\ UNCHANGED <<xIn, xBack, xLine, xShown>>
    BY <1>1 DEF SctpSendLine
  <2>2. InFly' = InFly /\ BackFly' = BackFly
    BY <2>1 DEF InFly, BackFly
  <2>3. (\A d \in SctpClients : xCli'[d] = xCli[d] \/ xCli'[d] = "gone") /\ \A b \in InFly' \cup BackFly' : xCli'[b.c] = xCli[b.c]
    BY <1>t, <1>n, <2>1, <2>2 DEF SctpTypeOK
  <2> QED
    BY <1>t, <1>v, <2>1, <2>2, <2>3, FewerUnderWay
<1>2. CASE xUp[c] # "closing"
  <2>1. PICK streams \in StreamsOf(xMode[c]) :
          xIn' = xIn \cup {Msg(c, xLine[c] + 1, s) : s \in streams}
                     \cup (IF xUp[c] = "none" /\ xSrv.events THEN {Note(c)} ELSE {})
    BY <1>2 DEF SctpSendLine
  <2>2. /\ xBack' = xBack \cup (IF xUp[c] = "none" /\ xMode[c] = "strcli1" THEN {Note(c)} ELSE {})
        /\ xCli' = [xCli EXCEPT ![c] = "wait"]
        /\ xLine' = [xLine EXCEPT ![c] = @ + 1] /\ xShown' = [xShown EXCEPT ![c] = {}]
    BY <1>2 DEF SctpSendLine
  <2>3. streams \subseteq 0 .. SctpStreams - 1 /\ (xMode[c] # "echoall" => \E s : streams = {s})
    BY <2>1 DEF StreamsOf, sctpstr_cli, sctpstr_cli_un, sctpstr_cli_echoall
  <2> DEFINE new == {Msg(c, xLine[c] + 1, s) : s \in streams}
  <2>4. \A b \in new : \E s \in streams : /\ b = Msg(c, xLine[c] + 1, s) /\ b.c = c /\ b.line = xLine[c] + 1 /\ b.of = s
                                          /\ ~b.note /\ b.len = FullLen(c)
    BY <2>3, NewMsg
  <2>5. Note(c).note
    BY NoteIsMsg
  <2>6. InFly' = InFly \cup new
    BY <2>1, <2>4, <2>5 DEF InFly
  <2>7. BackFly' = BackFly /\ \A k \in xBack' : k \in xBack \/ k.note
    BY <2>2, <2>5 DEF BackFly
  <2> HIDE DEF new
  <2>8. /\ xCli'[c] = "wait" /\ xLine'[c] = xLine[c] + 1 /\ xShown'[c] = {} /\ xLine[c] \in Nat
        /\ \A d \in SctpClients \ {c} : xCli'[d] = xCli[d] /\ xLine'[d] = xLine[d] /\ xShown'[d] = xShown[d]
    BY <1>t, <2>2 DEF SctpTypeOK
  <2>9. \A b \in InFly \cup BackFly \cup xEchoes : b.c \in SctpClients
    BY <1>t, MsgParts DEF InFly, BackFly, SctpTypeOK
  <2>10. UnderWay'
    <3>1. \A b \in InFly \cup BackFly : Asked(b)'
      BY <1>n, <1>w, <2>8, <2>9 DEF UnderWay, Asked
    <3>2. \A b \in new : Asked(b)'
      BY <2>4, <2>8 DEF Asked
    <3>3. \A b \in Worked : Asked(b)' \/ xCli'[b.c] = "gone"
      BY <1>n, <1>v, <1>w, <2>8 DEF UnderWay, Asked
    <3> QED
      BY <1>v, <2>6, <2>7, <3>1, <3>2, <3>3 DEF UnderWay, Asked
  <2>11. OnePlace'
    <3>1. \A a \in new, b \in InFly \cup Worked : ~SameMsg(a, b) /\ ~SameMsg(b, a)
      BY <1>n, <2>4 DEF SameMsg
    <3>2. \A a, b \in new : SameMsg(a, b) => a = b
      BY <2>4 DEF SameMsg
    <3>3. \A e \in xEchoes, a \in new : ~SameMsg(e, a)
      <4> SUFFICES ASSUME NEW e \in xEchoes, NEW a \in new, SameMsg(e, a) PROVE FALSE
        OBVIOUS
      <4>1. e.c = c /\ e.line = xLine[c] + 1
        BY <2>4 DEF SameMsg
      <4>2. e.line <= xLine[c]
        BY <1>w, <4>1 DEF Replies
      <4> QED
        BY <2>8, <4>1, <4>2
    <3>4. \A a, b \in InFly' : SameMsg(a, b) => a = b
      BY <1>w, <2>6, <3>1, <3>2 DEF OnePlace
    <3>5. \A a \in InFly', b \in Worked' : SameMsg(a, b) => xPc' = "more"
      BY <1>t, <1>v, <1>w, <2>6, <3>1 DEF OnePlace
    <3>6. \A e \in xEchoes', a \in InFly' \cup Worked' : ~SameMsg(e, a)
      BY <1>t, <1>v, <1>w, <2>6, <3>3 DEF OnePlace
    <3> QED
      BY <1>t, <1>w, <3>4, <3>5, <3>6 DEF OnePlace, SameMsg
  <2>12. Replies'
    <3>1. BackFly' \subseteq xEchoes'
      BY <1>t, <1>w, <2>7 DEF Replies
    <3>2. \A d \in SctpClients : xShown'[d] \subseteq xEchoes' \ xBack'
      <4>1. \A d \in SctpClients : xShown[d] \subseteq xEchoes \ xBack
        BY <1>w DEF Replies
      <4>2. \A r \in xEchoes : ~r.note
        BY <1>t DEF ServerShape
      <4>3. \A d \in SctpClients : xShown'[d] \subseteq xShown[d]
        BY <2>8
      <4> QED
        BY <1>t, <2>7, <4>1, <4>2, <4>3
    <3>3. \A d \in SctpClients : \A r \in xShown'[d] : r.c = d /\ r.line = xLine'[d]
      BY <1>w, <2>8 DEF Replies
    <3>4. \A d \in SctpClients : xCli'[d] = "wait" /\ xMode'[d] # "echoall" => xShown'[d] = {}
      BY <1>t, <1>w, <2>8 DEF Replies
    <3>5. \A e \in xEchoes' : e.line <= xLine'[e.c]
      <4> SUFFICES ASSUME NEW e \in xEchoes PROVE e.line <= xLine'[e.c]
        BY <1>t
      <4>1. e.c \in SctpClients /\ e.line \in Nat /\ e.line <= xLine[e.c] /\ xLine[e.c] \in Nat
        BY <1>t, <1>w, MsgParts DEF Replies, SctpTypeOK
      <4> QED
        BY <2>8, <4>1
    <3> QED
      BY <3>1, <3>2, <3>3, <3>4, <3>5 DEF Replies
  <2>13. Pieces'
    <3>1. \A d : FullLen(d)' = FullLen(d)
      BY <1>t DEF FullLen
    <3>2. \A k \in new : k.len = FullLen(k.c)'
      BY <2>4, <3>1
    <3>3. \A k \in new : xPc = "more" => ~SameMsg(k, xCur)
      BY <1>n, <2>4 DEF SameMsg, Worked
    <3>4. \A k \in InFly' : IF xPc' = "more" /\ SameMsg(k, xCur') THEN xCur'.len + k.len = FullLen(k.c)'
                            ELSE k.len = FullLen(k.c)'
      BY <1>t, <1>w, <2>6, <3>1, <3>2, <3>3 DEF Pieces
    <3>5. (xPc \in {"stream", "send"} => xCur.len = FullLen(xCur.c) \/ xCli[xCur.c] = "gone")'
      <4>1. xPc \in {"stream", "send"} => xCur.c \in SctpClients
        BY <1>t, MsgParts DEF ServerShape
      <4>2. xCli[c] # "gone"
        BY DEF SctpSendLine
      <4>3. xCur.c \in SctpClients /\ xCli[xCur.c] = "gone" => xCli'[xCur.c] = "gone"
        BY <2>8, <4>2
      <4> QED
        BY <1>t, <1>w, <4>1, <4>3 DEF Pieces, FullLen
    <3>6. \A e \in xEchoes' : e.len = FullLen(e.c)'
      BY <1>t, <1>w, <3>1 DEF Pieces
    <3>7. xPc' = "more" => xMode'[xCur'.c] = "big"
      BY <1>t, <1>w DEF Pieces
    <3> QED
      BY <3>4, <3>5, <3>6, <3>7 DEF Pieces, SameMsg
  <2>14. OneStream'
    <3>1. \A a \in new, b \in InFly \cup BackFly \cup Worked : a.c # b.c
      BY <1>n, <2>4
    <3>2. \A a, b \in new : xMode[a.c] # "echoall" => a.of = b.of
      BY <2>3, <2>4
    <3> QED
      BY <1>t, <1>v, <1>w, <2>6, <2>7, <3>1, <3>2 DEF OneStream
  <2> QED
    BY <2>10, <2>11, <2>12, <2>13, <2>14 DEF Unmixed
<1> QED
  BY <1>1, <1>2

\* When a client has read as many replies as it waits for, nothing of its line is left under way:
\* the replies came on different streams, and there are no more streams.
LEMMA LastReply ==
    ASSUME SctpShape, Unmixed, NEW c \in SctpClients, NEW r \in BackFly, r.c = c, xCli[c] = "wait",
           Cardinality(xShown[c]) + 1 = Awaited(c)
    PROVE  \A b \in InFly \cup (BackFly \ {r}) \cup Worked : b.c # c
<1>t. SctpTypeOK /\ ServerShape
  BY DEF SctpShape
<1>w. UnderWay /\ OnePlace /\ Replies /\ OneStream
  BY DEF Unmixed
<1> SUFFICES ASSUME NEW b \in InFly \cup (BackFly \ {r}) \cup Worked, b.c = c PROVE FALSE
  OBVIOUS
<1>1. r \in xEchoes /\ r \in xBack /\ r.line = xLine[c] /\ b.line = xLine[c]
  <2>1. r \in xEchoes /\ r \in xBack
    BY <1>w DEF Replies, BackFly
  <2>2. Asked(r) /\ Asked(b)
    BY <1>w DEF UnderWay
  <2> QED
    BY <2>1, <2>2 DEF Asked
<1>2. ASSUME NEW t \in xEchoes, t.c = c, t.line = xLine[c], t.of = b.of, t = r \/ t \notin xBack PROVE FALSE
  <2>1. SameMsg(t, b)
    BY <1>1, <1>2 DEF SameMsg
  <2>2. CASE b \in InFly \cup Worked
    BY <1>w, <1>2, <2>1, <2>2 DEF OnePlace
  <2>3. CASE b \in BackFly \ {r}
    <3>1. b \in xEchoes /\ b \in xBack
      BY <1>w, <2>3 DEF Replies, BackFly
    <3>2. t = b
      BY <1>w, <1>2, <2>1, <3>1 DEF OnePlace
    <3> QED
      BY <1>2, <2>3, <3>1, <3>2
  <2> QED
    BY <2>2, <2>3
<1>3. CASE xMode[c] # "echoall"
  <2>1. r.of = b.of
    BY <1>w, <1>3 DEF OneStream
  <2> QED
    BY <1>1, <1>2, <2>1
<1>4. CASE xMode[c] = "echoall"
  <2> DEFINE T == xShown[c] \cup {r}
             U == 0 .. SctpStreams - 1
             f == [t \in T |-> t.of]
  <2>1. \A t \in xShown[c] : t \in xEchoes /\ t \notin xBack /\ t.c = c /\ t.line = xLine[c]
    BY <1>w DEF Replies
  <2>2. \A t \in T : t \in xEchoes /\ (t = r \/ t \notin xBack) /\ t.c = c /\ t.line = xLine[c]
    BY <1>1, <2>1
  <2>3. \A t \in T : t.of \in U
    BY <1>t, <2>2, MsgParts DEF SctpTypeOK
  <2>4. \A t, u \in T : t.of = u.of => t = u
    BY <1>w, <2>2 DEF OnePlace, SameMsg
  <2>5. f \in Injection(T, U)
    <3>1. f \in [T -> U]
      BY <2>3
    <3>2. \A t, u \in T : f[t] = f[u] => t = u
      BY <2>4
    <3> QED
      BY <3>1, <3>2 DEF Injection, IsInjective
  <2>6. IsFiniteSet(U) /\ Cardinality(U) = SctpStreams
    <3>1. SctpStreams \in Nat /\ SctpStreams - 1 \in Int /\ ~(0 > SctpStreams - 1) /\ SctpStreams - 1 - 0 + 1 = SctpStreams
      BY SctpAssumption
    <3>2. IsFiniteSet(U) /\ Cardinality(U) = IF 0 > SctpStreams - 1 THEN 0 ELSE SctpStreams - 1 - 0 + 1
      BY <3>1, FS_Interval
    <3> QED
      BY <3>1, <3>2
  <2> HIDE DEF f, U
  <2>7. IsFiniteSet(T) /\ (Cardinality(T) = Cardinality(U) => f \in Surjection(T, U))
    BY <2>5, <2>6, FS_Injection
  <2>8. r \notin xShown[c]
    BY <1>1, <2>1
  <2>9. IsFiniteSet(xShown[c])
    BY <2>7, FS_Subset
  <2>10. Cardinality(T) = Cardinality(xShown[c]) + 1
    BY <2>8, <2>9, FS_AddElement
  <2>11. f \in Surjection(T, U)
    BY <1>4, <2>6, <2>7, <2>10 DEF Awaited
  <2>12. b.of \in U
    <3>1. b \in SctpMsgs
      BY <1>t DEF SctpTypeOK, ServerShape, InFly, BackFly, Worked
    <3> QED
      BY <3>1, MsgParts DEF U
  <2>13. PICK t \in T : f[t] = b.of
    BY <2>11, <2>12 DEF Surjection
  <2>14. t.of = b.of
    BY <2>13 DEF f
  <2> QED
    BY <1>2, <2>2, <2>14
<1> QED
  BY <1>3, <1>4

\* A client reads a reply.
LEMMA ReplyRead ==
    ASSUME SctpShape, Unmixed, NEW c \in SctpClients, NEW r \in xBack, ReadReply(c, r)
    PROVE  Unmixed'
<1>t. /\ SctpTypeOK /\ ServerShape /\ UNCHANGED <<xIn, xMode, xPc, xCur, xLine, xEchoes>>
      /\ xCli[c] = "wait" /\ r.c = c /\ ~r.note
  BY DEF SctpShape, ReadReply
<1>w. UnderWay /\ OnePlace /\ Replies /\ Pieces /\ OneStream
  BY DEF Unmixed
<1>1. /\ xBack' = xBack \ {r} /\ xShown' = [xShown EXCEPT ![c] = @ \cup {r}]
      /\ xCli' = [xCli EXCEPT ![c] = IF Cardinality(xShown[c]) + 1 = Awaited(c) THEN "idle" ELSE "wait"]
  BY DEF ReadReply
<1>2. InFly' = InFly /\ BackFly' = BackFly \ {r} /\ Worked' = Worked /\ r \in BackFly
  BY <1>t, <1>1 DEF InFly, BackFly, Worked
<1>3. /\ xShown'[c] = xShown[c] \cup {r} /\ \A d \in SctpClients \ {c} : xShown'[d] = xShown[d] /\ xCli'[d] = xCli[d]
      /\ xCli'[c] = (IF Cardinality(xShown[c]) + 1 = Awaited(c) THEN "idle" ELSE "wait")
  BY <1>t, <1>1 DEF SctpTypeOK
<1>4. \A b \in InFly \cup BackFly \cup Worked : b.c \in SctpClients
  BY <1>t, MsgParts DEF SctpTypeOK, ServerShape, InFly, BackFly, Worked
<1>5. UnderWay'
  <2>1. \A b \in InFly' \cup BackFly' \cup Worked' : xCli'[b.c] = xCli[b.c]
    <3>1. CASE Cardinality(xShown[c]) + 1 = Awaited(c)
      BY <1>t, <1>2, <1>3, <1>4, <3>1, LastReply
    <3>2. CASE Cardinality(xShown[c]) + 1 # Awaited(c)
      BY <1>t, <1>2, <1>3, <1>4, <3>2
    <3> QED
      BY <3>1, <3>2
  <2> QED
    BY <1>t, <1>w, <1>2, <2>1 DEF UnderWay, Asked
<1>6. OnePlace'
  BY <1>t, <1>w, <1>2 DEF OnePlace, SameMsg
<1>7. Replies'
  <2>1. r \in xEchoes /\ r.line = xLine[c]
    BY <1>w, <1>t, <1>2 DEF Replies, UnderWay, Asked
  <2>2. BackFly' \subseteq xEchoes'
    BY <1>t, <1>w, <1>2 DEF Replies
  <2>3. \A d \in SctpClients : xShown'[d] \subseteq xEchoes' \ xBack'
    BY <1>t, <1>w, <1>1, <1>3, <2>1 DEF Replies
  <2>4. \A d \in SctpClients : \A k \in xShown'[d] : k.c = d /\ k.line = xLine'[d]
    BY <1>t, <1>w, <1>3, <2>1 DEF Replies
  <2>5. \A d \in SctpClients : xCli'[d] = "wait" /\ xMode'[d] # "echoall" => xShown'[d] = {}
    <3>1. xMode[c] # "echoall" => xCli'[c] = "idle"
      <4>1. xMode[c] # "echoall" => xShown[c] = {} /\ Awaited(c) = 1
        BY <1>t, <1>w DEF Replies, Awaited
      <4> QED
        BY <1>3, <4>1, FS_EmptySet
    <3> QED
      BY <1>t, <1>w, <1>3, <3>1 DEF Replies
  <2>6. \A e \in xEchoes' : e.line <= xLine'[e.c]
    BY <1>t, <1>w DEF Replies
  <2> QED
    BY <2>2, <2>3, <2>4, <2>5, <2>6 DEF Replies
<1>8. Pieces'
  <2>1. xPc \in {"stream", "send"} => xCur.c \in SctpClients
    BY <1>t, MsgParts DEF ServerShape
  <2>2. xCur.c \in SctpClients /\ xCli[xCur.c] = "gone" => xCli'[xCur.c] = "gone"
    BY <1>t, <1>3
  <2> QED
    BY <1>t, <1>w, <1>2, <2>1, <2>2 DEF Pieces, SameMsg, FullLen
<1>9. OneStream'
  BY <1>t, <1>w, <1>2 DEF OneStream
<1> QED
  BY <1>5, <1>6, <1>7, <1>8, <1>9 DEF Unmixed

LEMMA SctpStep ==
    ASSUME SctpInv, [SctpNext]_sctpVars
    PROVE  SctpInv'
<1>t. SctpShape /\ (~xMixed => Unmixed) /\ xMixed \in BOOLEAN
  BY DEF SctpInv, SctpShape, SctpTypeOK
<1>1. CASE UNCHANGED sctpVars
  <2>1. SctpTypeOK'
    BY <1>t, <1>1 DEF SctpShape, SctpTypeOK, sctpVars
  <2>2. ServerShape'
    BY <1>t, <1>1 DEF SctpShape, ServerShape, sctpVars
  <2>3. InFly' = InFly /\ BackFly' = BackFly /\ Worked' = Worked
    BY <1>1 DEF InFly, BackFly, Worked, sctpVars
  <2>4. UNCHANGED <<xMixed, xPc, xCur, xEchoes, xShown, xLine, xMode, xCli, xBack>>
    BY <1>1 DEF sctpVars
  <2>5. Unmixed => Unmixed'
    BY <2>3, <2>4 DEF Unmixed, UnderWay, OnePlace, Replies, Pieces, OneStream, Asked, SameMsg, FullLen
  <2> QED
    BY <1>t, <2>1, <2>2, <2>4, <2>5 DEF SctpInv
<1>2. ASSUME SctpShape', xMixed' = xMixed, Unmixed => Unmixed' PROVE SctpInv'
  BY <1>t, <1>2 DEF SctpInv, SctpShape
<1>3. ASSUME NEW c \in SctpClients, SctpSendLine(c) PROVE SctpInv'
  <2>1. xMixed' = xMixed
    BY <1>3 DEF SctpSendLine
  <2> QED
    BY <1>t, <1>2, <1>3, <2>1, SendShapes, LineSent
<1>4. ASSUME NEW c \in SctpClients, Leave(c) \/ AssocEnds(c) PROVE SctpInv'
  <2>1. xMixed' = xMixed
    BY <1>4 DEF Leave, AssocEnds
  <2> QED
    BY <1>t, <1>2, <1>4, <2>1, EndShapes, LeavingSteps
<1>5. ASSUME NEW c \in SctpClients, check_notification(c) PROVE SctpInv'
  <2>1. xMixed' = xMixed
    BY <1>5 DEF check_notification
  <2> QED
    BY <1>t, <1>2, <1>5, <2>1, ReadShapes, LeavingSteps
<1>6. ASSUME NEW c \in SctpClients, NEW r \in xBack, ReadReply(c, r) PROVE SctpInv'
  <2>1. xMixed' = xMixed
    BY <1>6 DEF ReadReply
  <2> QED
    BY <1>t, <1>2, <1>6, <2>1, ReadShapes, ReplyRead
<1>7. ASSUME NEW m \in xIn, Receive1(m) PROVE SctpInv'
  <2>1. xMixed' = xMixed
    BY <1>7 DEF Receive1
  <2> QED
    BY <1>t, <1>2, <1>7, <2>1, ReceiveShapes, TakesMessage
<1>8. ASSUME NEW m \in xIn, print_notification(m) PROVE SctpInv'
  <2>1. xMixed' = xMixed
    BY <1>8 DEF print_notification
  <2> QED
    BY <1>t, <1>2, <1>8, <2>1, ReceiveShapes, NotificationRead
<1>9. ASSUME NEW m \in xIn, pdapi_recvmsg(m) PROVE SctpInv'
  <2>1. ~xMixed' => ~xMixed
    BY <1>9 DEF pdapi_recvmsg
  <2>2. SctpShape'
    BY <1>t, <1>9, ReceiveShapes
  <2>3. ~xMixed' => Unmixed'
    BY <1>t, <1>9, <2>1, TakesPiece
  <2> QED
    BY <2>2, <2>3 DEF SctpInv, SctpShape
<1>10. ASSUME NEW m \in xIn, ChildEcho(m) PROVE SctpInv'
  <2>1. xMixed' = xMixed
    BY <1>10 DEF ChildEcho
  <2> QED
    BY <1>t, <1>2, <1>10, <2>1, ChildShapes, ChildAnswers
<1>11. CASE ChooseStream \/ Sctp_sendmsg
  <2>1. xMixed' = xMixed
    BY <1>11 DEF ChooseStream, Sctp_sendmsg
  <2> QED
    BY <1>t, <1>2, <1>11, <2>1, ServerShapes, StreamChosen, ServerAnswers
<1>12. CASE Peeloff
  <2>1. xMixed' = xMixed
    BY <1>12 DEF Peeloff
  <2>2. /\ UNCHANGED <<xIn, xBack, xMode, xCli, xLine, xShown, xEchoes>> /\ xPc' = "recv"
        /\ xPc = "more" => xCli[xCur.c] = "gone"
    BY <1>12 DEF Peeloff
  <2>3. Unmixed => Unmixed'
    BY <1>t, <2>2, GivingUp
  <2> QED
    BY <1>t, <1>2, <1>12, <2>1, <2>3, ServerShapes
<1>13. CASE PieceLost
  <2>1. xMixed' = xMixed
    BY <1>13 DEF PieceLost
  <2> QED
    BY <1>t, <1>2, <1>13, <2>1, ServerShapes, PiecesLeft
<1>14. CASE ForkFails
  <2>1. xMixed' = xMixed
    BY <1>14 DEF ForkFails
  <2> QED
    BY <1>t, <1>2, <1>14, <2>1, ForkShapes, ForkLoses
<1> QED
  BY <1>1, <1>3, <1>4, <1>5, <1>6, <1>7, <1>8, <1>9, <1>10, <1>11, <1>12, <1>13, <1>14 DEF SctpNext, SctpServer, SctpReads

\* A message is still on the stream it was sent on until the server answers it, and its
\* answer is on the stream that goes with that.
StreamRight ==
    /\ \A m \in xIn : ~m.note => m.s = m.of
    /\ xPc \in {"more", "stream"} => xCur.s = xCur.of
    /\ xPc = "send" => xCur.s \in AnswerOn(xCur.of)
    /\ \A e \in xEchoes : e.s \in AnswerOn(e.of)

LEMMA StreamInitial == SctpInit => StreamRight
BY DEF SctpInit, SctpStart, StreamRight

\* A message for the server is as before, or is what is left of one.
LEMMA RestsOnStream ==
    ASSUME SctpShape, StreamRight, NEW m \in xIn, NEW n \in 1 .. m.len, ~m.note,
           xIn' = (xIn \ {m}) \cup (IF n < m.len THEN {[m EXCEPT !.len = @ - n]} ELSE {})
    PROVE  \A k \in xIn' : ~k.note => k.s = k.of
<1>1. m \in SctpMsgs /\ m.len \in Nat
  BY MsgParts DEF SctpShape, SctpTypeOK
<1>2. m.len - n \in Nat
  BY <1>1
<1>3. LET r == [m EXCEPT !.len = m.len - n] IN r.s = m.s /\ r.of = m.of
  BY <1>1, <1>2, MsgOfLength
<1> QED
  BY <1>3 DEF StreamRight

LEMMA StreamSteps ==
    ASSUME SctpShape, StreamRight, [SctpNext]_sctpVars
    PROVE  StreamRight'
<1>t. SctpTypeOK /\ ServerShape
  BY DEF SctpShape
<1>k. ASSUME UNCHANGED <<xSrv, xOut>>, xEchoes' = xEchoes, \A k \in xIn' : ~k.note => k.s = k.of,
             xPc' \notin {"more", "stream", "send"} \/ UNCHANGED <<xPc, xCur>>
      PROVE  StreamRight'
  BY <1>k DEF StreamRight, AnswerOn
<1>1. CASE UNCHANGED sctpVars
  BY <1>1, <1>k DEF sctpVars, StreamRight
<1>2. ASSUME NEW c \in SctpClients, SctpSendLine(c) PROVE StreamRight'
  <2>1. UNCHANGED <<xSrv, xOut, xPc, xCur, xEchoes>>
    BY <1>2 DEF SctpSendLine
  <2>2. \A k \in xIn' : k \in xIn \/ k.note \/ \E s \in 0 .. SctpStreams - 1 : k = Msg(c, xLine[c] + 1, s)
    <3>1. CASE xIn' = xIn
      BY <3>1
    <3>2. CASE \E streams \in StreamsOf(xMode[c]) :
                 xIn' = xIn \cup {Msg(c, xLine[c] + 1, s) : s \in streams}
                            \cup (IF xUp[c] = "none" /\ xSrv.events THEN {Note(c)} ELSE {})
      <4>1. PICK streams \in StreamsOf(xMode[c]) :
              xIn' = xIn \cup {Msg(c, xLine[c] + 1, s) : s \in streams}
                         \cup (IF xUp[c] = "none" /\ xSrv.events THEN {Note(c)} ELSE {})
        BY <3>2
      <4>2. streams \subseteq 0 .. SctpStreams - 1
        BY <4>1 DEF StreamsOf, sctpstr_cli, sctpstr_cli_un, sctpstr_cli_echoall
      <4>3. Note(c).note
        BY NoteIsMsg
      <4> QED
        BY <4>1, <4>2, <4>3
    <3> QED
      BY <1>2, <3>1, <3>2 DEF SctpSendLine
  <2>3. \A s : Msg(c, xLine[c] + 1, s).s = Msg(c, xLine[c] + 1, s).of
    BY DEF Msg
  <2>4. \A k \in xIn' : ~k.note => k.s = k.of
    BY <2>2, <2>3 DEF StreamRight
  <2> QED
    BY <1>k, <2>1, <2>4
<1>3. ASSUME NEW c \in SctpClients,
             Leave(c) \/ AssocEnds(c) \/ check_notification(c) \/ (\E q \in xBack : ReadReply(c, q))
      PROVE  StreamRight'
  <2>1. UNCHANGED <<xSrv, xOut, xPc, xCur, xEchoes>> /\ xIn' \subseteq xIn
    BY <1>3 DEF Leave, AssocEnds, check_notification, ReadReply
  <2> QED
    BY <1>k, <2>1 DEF StreamRight
<1>4. ASSUME NEW m \in xIn, print_notification(m) PROVE StreamRight'
  <2>1. UNCHANGED <<xSrv, xOut, xPc, xCur, xEchoes>> /\ xIn' \subseteq xIn
    BY <1>4 DEF print_notification
  <2> QED
    BY <1>k, <2>1 DEF StreamRight
<1>5. CASE Peeloff \/ ForkFails
  <2>1. UNCHANGED <<xSrv, xOut, xEchoes>> /\ xIn' \subseteq xIn /\ xPc' = "recv"
    BY <1>5 DEF Peeloff, ForkFails
  <2> QED
    BY <1>k, <2>1 DEF StreamRight
<1>6. CASE PieceLost
  <2>1. UNCHANGED <<xSrv, xOut, xEchoes, xIn, xCur>> /\ xPc = "more" /\ xPc' = "stream"
    BY <1>6 DEF PieceLost
  <2> QED
    BY <2>1 DEF StreamRight, AnswerOn
<1>7. ASSUME NEW m \in xIn, Receive1(m) PROVE StreamRight'
  <2>1. UNCHANGED <<xSrv, xOut, xEchoes>> /\ xPc' \in {"more", "stream"} /\ ~m.note /\ m.s = m.of /\ m \in SctpMsgs
    BY <1>t, <1>7 DEF Receive1, StreamRight, SctpTypeOK
  <2>2. xCur'.s = m.s /\ xCur'.of = m.of /\ \A k \in xIn' : ~k.note => k.s = k.of
    <3>1. CASE xSrv.pdapi
      <4>1. PICK n \in 1 .. m.len :
              /\ xCur' = [m EXCEPT !.len = n]
              /\ xIn' = (xIn \ {m}) \cup (IF n < m.len THEN {[m EXCEPT !.len = @ - n]} ELSE {})
        BY <1>7, <3>1 DEF Receive1
      <4>2. n \in Nat
        BY <2>1, MsgParts
      <4>3. xCur'.s = m.s /\ xCur'.of = m.of
        BY <2>1, <4>1, <4>2, MsgOfLength
      <4>4. \A k \in xIn' : ~k.note => k.s = k.of
        BY <2>1, <4>1, RestsOnStream
      <4> QED
        BY <4>3, <4>4
    <3>2. CASE ~xSrv.pdapi
      BY <1>7, <3>2 DEF Receive1, StreamRight
    <3> QED
      BY <3>1, <3>2
  <2> QED
    BY <2>1, <2>2 DEF StreamRight, AnswerOn
<1>8. ASSUME NEW m \in xIn, pdapi_recvmsg(m) PROVE StreamRight'
  <2>1. /\ UNCHANGED <<xSrv, xOut, xEchoes>> /\ xPc = "more" /\ xPc' \in {"more", "stream"} /\ ~m.note
        /\ xCur \in SctpMsgs /\ xCur.s = xCur.of
    BY <1>t, <1>8 DEF pdapi_recvmsg, StreamRight, ServerShape
  <2>2. PICK n \in 1 .. m.len :
          /\ xCur' = [xCur EXCEPT !.len = @ + n]
          /\ xIn' = (xIn \ {m}) \cup (IF n < m.len THEN {[m EXCEPT !.len = @ - n]} ELSE {})
    BY <1>8 DEF pdapi_recvmsg
  <2>3. xCur'.s = xCur.s /\ xCur'.of = xCur.of
    BY <2>1, <2>2 DEF SctpMsgs
  <2>4. \A k \in xIn' : ~k.note => k.s = k.of
    BY <2>1, <2>2, RestsOnStream
  <2> QED
    BY <2>1, <2>3, <2>4 DEF StreamRight, AnswerOn
<1>9. ASSUME NEW m \in xIn, ChildEcho(m) PROVE StreamRight'
  <2> DEFINE e == [m EXCEPT !.s = 0]
  <2>1. /\ UNCHANGED <<xSrv, xOut, xPc, xCur>> /\ xIn' \subseteq xIn /\ xEchoes' = xEchoes \cup {e} /\ xSrv.fork
    BY <1>t, <1>9 DEF ChildEcho, ServerShape
  <2>2. e.s = 0
    BY <1>t DEF SctpTypeOK, SctpMsgs
  <2>3. ~xSrv.incr
    BY <1>t, <2>1 DEF ServerShape
  <2> HIDE DEF e
  <2>4. e.s \in AnswerOn(e.of)
    BY <2>1, <2>2, <2>3 DEF AnswerOn
  <2> QED
    BY <2>1, <2>4 DEF StreamRight, AnswerOn
<1>10. CASE ChooseStream
  <2>1. /\ UNCHANGED <<xSrv, xOut, xIn, xEchoes>> /\ xPc = "stream" /\ xCur.s = xCur.of /\ xCur \in SctpMsgs
    BY <1>t, <1>10 DEF ChooseStream, StreamRight, ServerShape
  <2>2. CASE xPc' = "died"
    BY <1>k, <2>1, <2>2 DEF StreamRight
  <2>3. CASE ~xSrv.incr /\ xPc' = "send" /\ xCur' = xCur
    BY <2>1, <2>3 DEF StreamRight, AnswerOn
  <2>4. CASE xSrv.incr /\ xPc' = "send" /\ xCur' = [xCur EXCEPT !.s = NextStream(xCur.s)]
    <3>1. NextStream(xCur.s) = IF xCur.of + 1 < xOut THEN xCur.of + 1 ELSE 0
      <4>1. xCur.of \in Nat /\ xOut \in Nat
        BY <1>t, <2>1, MsgParts DEF SctpTypeOK
      <4> QED
        BY <2>1, <4>1 DEF NextStream
    <3>2. xCur'.s = NextStream(xCur.s) /\ xCur'.of = xCur.of
      BY <2>1, <2>4 DEF SctpMsgs
    <3>3. xCur'.s \in AnswerOn(xCur'.of)
      BY <2>4, <3>1, <3>2 DEF AnswerOn
    <3> QED
      BY <2>1, <2>4, <3>3 DEF StreamRight, AnswerOn
  <2> QED
    BY <1>10, <2>2, <2>3, <2>4 DEF ChooseStream
<1>11. CASE Sctp_sendmsg
  <2>1. UNCHANGED <<xSrv, xOut, xIn>> /\ xPc = "send" /\ xCur.s \in AnswerOn(xCur.of)
    BY <1>11 DEF Sctp_sendmsg, StreamRight
  <2>2. xPc' \notin {"more", "stream", "send"} /\ (xEchoes' = xEchoes \/ xEchoes' = xEchoes \cup {xCur})
    <3>0. xCur \in SctpMsgs /\ xUp[xCur.c] \in {"none", "up", "closing"}
      BY <1>t, <2>1, MsgParts DEF ServerShape, SctpTypeOK
    <3>1. CASE xUp[xCur.c] = "none"
      BY <1>11, <3>1 DEF Sctp_sendmsg
    <3>2. CASE xUp[xCur.c] = "closing"
      BY <1>11, <3>2 DEF Sctp_sendmsg
    <3>3. CASE xUp[xCur.c] = "up" /\ xCur.s >= xOut
      BY <1>11, <3>3 DEF Sctp_sendmsg
    <3>4. CASE xUp[xCur.c] = "up" /\ ~(xCur.s >= xOut)
      BY <1>11, <3>4 DEF Sctp_sendmsg
    <3> QED
      BY <3>0, <3>1, <3>2, <3>3, <3>4
  <2> QED
    BY <2>1, <2>2 DEF StreamRight, AnswerOn
<1> QED
  BY <1>1, <1>2, <1>3, <1>4, <1>5, <1>6, <1>7, <1>8, <1>9, <1>10, <1>11 DEF SctpNext, SctpServer, SctpReads

\* SctpEchoes for any number of clients, streams and lines and any size of the pieces and of the
\* buffer: the SCTP servers echo a message whole, once, to its sender, and a client takes
\* only replies to its last line for its answer, as long as no pieces of two messages were put
\* together; the echo is on the stream the server should use, pdapi_recvmsg() always has room for another piece, and a server that counts streams
\* never sends on one that is not there.
THEOREM MessagesEchoedOnce == SctpSpec => []SctpEchoes
<1>1. SctpInit => SctpInv /\ StreamRight
  BY SctpInitial, StreamInitial
<1>2. SctpInv /\ StreamRight /\ [SctpNext]_sctpVars => SctpInv' /\ StreamRight'
  BY SctpStep, StreamSteps DEF SctpInv, SctpShape
<1>3. SctpInv /\ StreamRight => SctpEchoes
  <2> SUFFICES ASSUME SctpInv, StreamRight PROVE SctpEchoes
    OBVIOUS
  <2>1. ~xMixed =>
          /\ \A e \in xEchoes : e.len = IF xMode[e.c] = "big" THEN SctpBig ELSE 1
          /\ \A e, f \in xEchoes : e.c = f.c /\ e.line = f.line /\ e.of = f.of => e = f
          /\ \A c \in SctpClients : \A r \in xShown[c] : r.line = xLine[c]
    BY DEF SctpInv, Unmixed, Pieces, OnePlace, Replies, SameMsg, FullLen
  <2>2. xPc = "more" => Grown > xCur.len
    BY RoomGrows DEF SctpInv, SctpShape
  <2>3. xPc = "died_stream" => ~xSrv.incr
    BY DEF SctpInv, ServerShape
  <2> QED
    BY <2>1, <2>2, <2>3 DEF SctpEchoes, StreamRight
<1> QED
  BY <1>1, <1>2, <1>3, PTL DEF SctpSpec
=============================================================================
