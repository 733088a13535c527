---------------------------- MODULE GetAddrInfo ----------------------------
(***************************************************************************)
(* getaddrinfo() and freeaddrinfo(), in the three versions of the           *)
(* repository: libgai/, libfree/getaddrinfo.c and libgai/old/savecopy.c.    *)
(* A call builds the list of addrinfo{} in several passes, every pass       *)
(* allocates, any allocation may fail, and the resolver's RES_USE_INET6     *)
(* option outlives the call.  Strings are abstracted to what they are: an   *)
(* address, a host name, a service name, a port number or a pathname.       *)
(***************************************************************************)
EXTENDS Naturals, Sequences, FiniteSets, SequencesExt

CONSTANTS GaiImpls,   \* which versions to look at
          MaxAddrs    \* bound: addresses of one family the resolver returns

ASSUME GaiAssumption ==
    /\ GaiImpls \subseteq {"libgai", "libfree", "savecopy"}
    /\ MaxAddrs \in Nat \ {0}

VARIABLES gImpl,    \* the version that is called
          gPc,      \* where the call is
          gReq,     \* the arguments of the call
          gSearch,  \* search[]: what is still to be looked up
          gDouble,  \* nsearch = 2
          gAddrs,   \* addresses found that have no addrinfo{} yet
          gList,    \* the list from aihead
          gCanon,   \* "none", "strdup": allocated and not linked, "garbage": hptr is not initialized
          gTodo,    \* socket types ga_serv() still has to pass to ga_port()
          gLive,    \* blocks allocated in this call and not freed
          gDns,     \* the addresses the lookups of this call have found
          gSvc,     \* the protocols getservbyname() knows the service for
          gRes,     \* RES_USE_INET6 is set in _res.options
          gRc       \* what the call returned

gaiVars == <<gImpl, gPc, gReq, gSearch, gDouble, gAddrs, gList, gCanon, gTodo, gLive, gDns,
             gSvc, gRes, gRc>>

Requests ==
    [host : {"none", "v4", "v6", "name", "/path"}, serv : {"none", "13", "name", "/path", "/long"},
     fam : {"UNSPEC", "INET", "INET6", "LOCAL", "bad"}, type : {"0", "STREAM", "DGRAM", "RAW", "bad"},
     flags : {{}, {"PASSIVE"}, {"CANON"}, {"PASSIVE", "CANON"}, {"bad"}}]

IsPath(s) == s \in {"/path", "/long"}
NoAddrs == [f \in {"INET", "INET6"} |-> 0]

NoReq == [host |-> "none", serv |-> "none", fam |-> "UNSPEC", type |-> "0", flags |-> {}]

GaiStart(impl) ==
    /\ gImpl = impl /\ gPc = "idle"
    /\ gReq = NoReq /\ gSearch = <<>> /\ gDouble = FALSE /\ gAddrs = <<>> /\ gList = <<>>
    /\ gCanon = "none" /\ gTodo = <<>> /\ gLive = 0 /\ gDns = NoAddrs /\ gSvc = {}
    /\ gRes = FALSE /\ gRc = "none"

GaiInit == \E impl \in GaiImpls : GaiStart(impl)

-----------------------------------------------------------------------------
(* The heap: an addrinfo{}, its socket address and its name are blocks.     *)

BlocksOf(ai) == <<"ai">> \o (IF ai.sa THEN <<"addr">> ELSE <<>>) \o (IF ai.cn THEN <<"canonname">> ELSE <<>>)
Blocks(list) == Len(FlattenSeq([i \in DOMAIN list |-> BlocksOf(list[i])]))

\* freeaddrinfo(): walk the list and free the three blocks of every element.
freeaddrinfo(list, live) == live - Blocks(list)

\* "bad:" in getaddrinfo(): free the list and return the error.
Bad(e, list, live) ==
    /\ gRc' = e /\ gPc' = "failed"
    /\ gList' = <<>> /\ gLive' = freeaddrinfo(list, live)

\* "bad:" with an aihead that has not been initialized: freeaddrinfo() of a wild pointer.
Wild(e) ==
    \/ Bad(e, <<>>, gLive)
    \/ gPc' = "crashed" /\ gRc' = "crash" /\ UNCHANGED <<gList, gLive>>

Struct(a, sa) ==
    [fam |-> a[1], id |-> a[2], type |-> a[3], port |-> "none", sa |-> sa, cn |-> FALSE,
     clone |-> a[3] = "0" /\ a[1] # "LOCAL"]

\* The pathname of a Unix domain socket is longer than sun_path.
TooLong(a) == a[1] = "LOCAL" /\ gReq.serv = "/long"

\* ga_aistruct(): the new structure is linked before its socket address is allocated.
ga_aistruct_LinkedLast(a, list, live) ==
    {[rc |-> "MEMORY", list |-> list, live |-> live],
     [rc |-> IF TooLong(a) THEN "SERVICE" ELSE "MEMORY", list |-> list, live |-> live + 1]}
    \cup (IF TooLong(a) THEN {} ELSE {[rc |-> "ok", list |-> Append(list, Struct(a, TRUE)), live |-> live + 2]})
ga_aistruct(a, list, live) ==
    {[rc |-> "MEMORY", list |-> list, live |-> live],
     [rc |-> IF TooLong(a) THEN "SERVICE" ELSE "MEMORY",
      list |-> Append(list, Struct(a, FALSE)), live |-> live + 1]}
    \cup (IF TooLong(a) THEN {}
          ELSE {[rc |-> "ok", list |-> Append(list, Struct(a, TRUE)), live |-> live + 2]})

\* libgai/old/savecopy.c allocates and links an empty addrinfo{} in front of each looked-up one.
ga_aistruct_old(a, list, live) ==
    {[rc |-> "MEMORY", list |-> list, live |-> live]}
    \cup ga_aistruct(a, Append(list, [Struct(<<"UNSPEC", 0, "0">>, FALSE) EXCEPT !.clone = FALSE]), live + 1)

\* libfree/getaddrinfo.c does the same as ga_aistruct() in the body of its loop.
fill_libfree(a, list, live) == ga_aistruct(a, list, live)

\* ga_clone(): a structure that is used already gets a copy behind it, without AI_CLONE.
ga_clone(ai) == [ai EXCEPT !.cn = FALSE, !.port = "none", !.clone = FALSE]

NeedsClone(ai) == ai.clone /\ ai.type # "0"

\* ga_port(): what the loop makes of one structure
Ported(ai, port, type) ==
    IF NeedsClone(ai) THEN <<ai, [ga_clone(ai) EXCEPT !.type = type, !.port = port]>>
    ELSE IF ~ai.clone /\ ai.type # type THEN <<ai>>
    ELSE <<[ai EXCEPT !.type = type, !.port = port]>>

PortedUpto(n, port, type, list) == FlattenSeq([i \in 1 .. n |-> Ported(list[i], port, type)])
Clones(n, list) == Cardinality({i \in 1 .. n : NeedsClone(list[i])})

\* ga_port(): all structures, or stopped at one whose clone cannot be allocated
ga_port(port, type, list, live) ==
    LET Upto(n) == PortedUpto(n, port, type, list)
        Grown(n) == live + 2 * Clones(n, list)
        Rest(n) == SubSeq(list, n + 1, Len(list))
        Stops == {i \in 1 .. Len(list) : NeedsClone(list[i])}
    IN  {[rc |-> "ok", list |-> Upto(Len(list)), live |-> Grown(Len(list))]}
        \cup {[rc |-> "MEMORY", list |-> Upto(i - 1) \o <<list[i]>> \o Rest(i), live |-> Grown(i - 1)] : i \in Stops}
        \cup {[rc |-> "MEMORY", live |-> Grown(i - 1) + 1,
               list |-> Upto(i - 1) \o <<list[i], [ga_clone(list[i]) EXCEPT !.sa = FALSE]>> \o Rest(i)] : i \in Stops}

\* getaddrinfo_port() and savecopy.c's ga_port() are the same loop.
getaddrinfo_port(port, type, list, live) == ga_port(port, type, list, live)
ga_port_old(port, type, list, live) == ga_port(port, type, list, live)

-----------------------------------------------------------------------------
(* Checking the arguments                                                   *)

FamilyCheck(r) ==
    IF r.fam = "UNSPEC" THEN "ok"
    ELSE IF r.fam = "bad" THEN "FAMILY"
    ELSE IF r.type = "bad" \/ (r.fam = "LOCAL" /\ r.type = "RAW") THEN "SOCKTYPE" ELSE "ok"

ga_echeck(r) ==
    IF "bad" \in r.flags THEN "BADFLAGS"
    ELSE IF r.host = "none" /\ r.serv = "none" THEN "NONAME"
    ELSE FamilyCheck(r)

ga_echeck_old(r) == ga_echeck(r)

\* libfree tests the family first, and then settles host and family.
echeck_libfree(r) ==
    IF "bad" \in r.flags THEN "BADFLAGS"
    ELSE IF FamilyCheck(r) # "ok" THEN FamilyCheck(r)
    ELSE IF r.host = "none" /\ r.serv = "none" THEN "NONAME"
    ELSE IF r.host = "none" /\ "PASSIVE" \in r.flags
            /\ (r.fam = "UNSPEC" \/ (r.fam = "LOCAL" /\ ~IsPath(r.serv))) THEN "ADDRFAMILY"
    ELSE "ok"

\* One search per address family: the host, or the wildcard or loopback address.
ga_nsearch(r) ==
    LET fams == IF r.fam = "UNSPEC" THEN <<"INET6", "INET">>
                ELSE IF r.fam = "LOCAL" THEN <<>> ELSE <<r.fam>>
        Default(f) == IF f = "INET6" THEN "v6" ELSE IF "PASSIVE" \in r.flags THEN "v4" ELSE "name"
    IN  [i \in 1 .. Len(fams) |->
            [fam |-> fams[i], host |-> IF r.host = "none" THEN Default(fams[i]) ELSE r.host]]

ga_nsearch_old(r) == ga_nsearch(r)

\* libfree looks up once; an address given as the host decides an unspecified family.
search_libfree(r) ==
    LET host == IF r.host # "none" THEN r.host
                ELSE IF "PASSIVE" \notin r.flags THEN "name"
                ELSE IF r.fam = "INET6" THEN "v6" ELSE "v4"
        fam == IF r.fam # "UNSPEC" THEN r.fam
               ELSE IF r.host = "v4" THEN "INET" ELSE IF r.host = "v6" THEN "INET6" ELSE "UNSPEC"
    IN  <<[fam |-> fam, host |-> host]>>

\* Which requests are for a Unix domain socket
UnixReq(r) ==
    CASE gImpl = "libgai" -> r.host = "/path" /\ IsPath(r.serv)
      [] gImpl = "libfree" -> r.host = "/path" \/ IsPath(r.serv)
      [] OTHER -> \/ r.host = "/path" /\ r.serv = "none"
                  \/ r.host = "none" /\ IsPath(r.serv)

\* getaddrinfo() up to its first lookup
BeginLookup(searches) ==
    /\ IF searches = <<>>
       THEN gPc' = "quit" /\ gRc' = "quit"          \* err_quit() in ga_nsearch()
       ELSE gPc' = "search" /\ UNCHANGED gRc
    /\ gSearch' = searches /\ gDouble' = (Len(searches) = 2)
    /\ gCanon' = IF gImpl = "savecopy" THEN "garbage" ELSE "none"
    /\ UNCHANGED <<gList, gLive>>

NothingFound == gSearch' = <<>> /\ gDouble' = FALSE /\ gCanon' = "none"

CheckArgs ==
    /\ gPc = "check" /\ gImpl = "libgai"
    /\ LET e == ga_echeck(gReq) IN
       IF e # "ok" THEN Bad(e, <<>>, gLive) /\ NothingFound
       ELSE IF UnixReq(gReq) THEN gPc' = "unix" /\ NothingFound /\ UNCHANGED <<gList, gLive, gRc>>
       ELSE BeginLookup(ga_nsearch(gReq))

CheckArgs_old ==
    /\ gPc = "check" /\ gImpl = "savecopy"
    /\ LET e == ga_echeck_old(gReq) IN
       IF e # "ok" THEN Wild(e) /\ NothingFound
       ELSE IF UnixReq(gReq) THEN gPc' = "unix" /\ NothingFound /\ UNCHANGED <<gList, gLive, gRc>>
       ELSE BeginLookup(ga_nsearch_old(gReq))

CheckArgs_libfree ==
    /\ gPc = "check" /\ gImpl = "libfree"
    /\ LET e == echeck_libfree(gReq) IN
       IF e # "ok" THEN Wild(e) /\ NothingFound
       ELSE IF UnixReq(gReq) THEN gPc' = "unix" /\ NothingFound /\ UNCHANGED <<gList, gLive, gRc>>
       ELSE BeginLookup(search_libfree(gReq))

-----------------------------------------------------------------------------
(* Looking up the host                                                      *)

\* gethostbyname() and gethostbyname2(): some addresses of one family, or what h_errno says.
Lookups(fam) ==
    {[err |-> "ok", addrs |-> [i \in 1 .. n |-> <<fam, i, gReq.type>>]] : n \in 1 .. MaxAddrs}
    \cup {[err |-> e, addrs |-> <<>>] : e \in {"NONAME", "AGAIN", "FAIL", "NODATA"}}
Resolve(fam, r) == gDns' = [gDns EXCEPT ![fam] = Len(r.addrs)]

Numeric(fam) == <<<<fam, 0, gReq.type>>>>
FamOf(host) == IF host = "v4" THEN "INET" ELSE "INET6"

\* An address string: ignored in the search of the other family, an error if the caller
\* asked for the other family.
NumericHost ==
    LET s == Head(gSearch)  f == FamOf(s.host) IN
    /\ gPc = "search" /\ gSearch # <<>> /\ gImpl = "libgai" /\ s.host \in {"v4", "v6"}
    /\ IF gReq.fam \notin {"UNSPEC", f} THEN Bad("ADDRFAMILY", gList, gLive) /\ UNCHANGED gAddrs
       ELSE /\ gAddrs' = IF s.fam = f THEN Numeric(f) ELSE <<>>
            /\ gPc' = "add" /\ UNCHANGED <<gList, gLive, gRc>>
    /\ gSearch' = Tail(gSearch)
    /\ UNCHANGED <<gCanon, gDns, gRes>>

\* RES_USE_INET6 decides the family of gethostbyname(); libgai sets or clears it each time.
UseInet6(on) == gRes' = on

\* A name; when there are two searches a failure is left to the other one.
LookupHost ==
    LET s == Head(gSearch)
        fam == IF gDouble THEN s.fam ELSE IF gRes' THEN "INET6" ELSE "INET"
        Canon == gReq.host # "none" /\ "CANON" \in gReq.flags /\ gCanon = "none"
        Found(addrs) ==
           \/ gReq.fam \notin {"UNSPEC", fam} /\ Bad("ADDRFAMILY", gList, gLive) /\ UNCHANGED <<gAddrs, gCanon>>
           \/ /\ gReq.fam \in {"UNSPEC", fam} /\ gAddrs' = addrs /\ gPc' = "add"
              /\ gCanon' = (IF Canon THEN "strdup" ELSE gCanon)
              /\ gLive' = (IF Canon THEN gLive + 1 ELSE gLive)
              /\ UNCHANGED <<gList, gRc>>
           \/ /\ gReq.fam \in {"UNSPEC", fam} /\ Canon
              /\ Bad("MEMORY", gList, gLive) /\ UNCHANGED <<gAddrs, gCanon>>
        Failed(e) ==
           IF gDouble THEN gPc' = "add" /\ gAddrs' = <<>> /\ UNCHANGED <<gCanon, gList, gLive, gRc>>
           ELSE Bad(e, gList, gLive) /\ UNCHANGED <<gAddrs, gCanon>>
    IN
    /\ gPc = "search" /\ gSearch # <<>> /\ gImpl = "libgai" /\ s.host \in {"name", "/path"}
    /\ UseInet6(~gDouble /\ s.fam = "INET6")
    /\ \E r \in Lookups(fam) : Resolve(fam, r) /\ IF r.err = "ok" THEN Found(r.addrs) ELSE Failed(r.err)
    /\ gSearch' = Tail(gSearch)

\* savecopy.c: neither test on an address string, and any failed lookup is an error.
Search_old ==
    LET s == Head(gSearch)
        Found(addrs) == /\ gAddrs' = addrs /\ gPc' = "add" /\ gCanon' = "none"
                        /\ UNCHANGED <<gList, gLive, gRc>>
        Failed(e) == Bad(e, gList, gLive) /\ UNCHANGED <<gAddrs, gCanon>>
    IN
    /\ gPc = "search" /\ gSearch # <<>> /\ gImpl = "savecopy"
    /\ IF s.host \in {"v4", "v6"}
       THEN /\ gAddrs' = Numeric(FamOf(s.host)) /\ gPc' = "add"
            /\ UNCHANGED <<gCanon, gDns, gRes, gList, gLive, gRc>>
       ELSE /\ gRes' = IF gDouble THEN gRes ELSE s.fam = "INET6"
            /\ \E r \in Lookups(s.fam) :
                  Resolve(s.fam, r) /\ IF r.err = "ok" THEN Found(r.addrs) ELSE Failed(r.err)
    /\ gSearch' = Tail(gSearch)

\* libfree: getaddrinfo_host() sets RES_USE_INET6 and nothing clears it again; errors meet
\* an aihead that is not initialized.
getaddrinfo_host ==
    LET s == Head(gSearch)
        fam == IF s.host \in {"v4", "v6"} THEN FamOf(s.host) ELSE IF gRes' THEN "INET6" ELSE "INET"
        Got(addrs) == /\ IF s.fam \notin {"UNSPEC", fam} THEN Wild("ADDRFAMILY") /\ UNCHANGED gAddrs
                         ELSE gAddrs' = addrs /\ gPc' = "add" /\ UNCHANGED <<gList, gLive, gRc>>
        Failed(e) == Wild(e) /\ UNCHANGED gAddrs
    IN
    /\ gPc = "search" /\ gSearch # <<>> /\ gImpl = "libfree"
    /\ IF s.host \in {"v4", "v6"} THEN UNCHANGED <<gRes, gDns>> /\ Got(Numeric(fam))
       ELSE /\ gRes' = (gRes \/ s.fam = "INET6")
            /\ \E r \in Lookups(fam) : Resolve(fam, r) /\ IF r.err = "ok" THEN Got(r.addrs) ELSE Failed(r.err)
    /\ gSearch' = Tail(gSearch)
    /\ UNCHANGED gCanon

HostStep ==
    /\ NumericHost \/ LookupHost \/ Search_old \/ getaddrinfo_host
    /\ UNCHANGED <<gImpl, gReq, gDouble, gTodo, gSvc>>

-----------------------------------------------------------------------------
(* One addrinfo{} per address                                               *)

UnixLost(e, live) == gRc' = e /\ gPc' = "failed" /\ gList' = <<>> /\ gLive' = live

AddOne ==
    /\ gPc = "add" /\ gAddrs # <<>>
    /\ gAddrs' = Tail(gAddrs)
    /\ LET a == Head(gAddrs)
           made == CASE gImpl = "savecopy" /\ a[2] # 0 -> ga_aistruct_old(a, gList, gLive)
                     [] gImpl = "libfree" -> fill_libfree(a, gList, gLive)
                     [] OTHER -> ga_aistruct(a, gList, gLive)
       IN \E o \in made :
            IF o.rc = "ok" THEN gList' = o.list /\ gLive' = o.live /\ UNCHANGED <<gPc, gRc>>
            ELSE IF UnixReq(gReq) THEN UnixLost(o.rc, o.live)
            ELSE Bad(o.rc, o.list, o.live)
    /\ UNCHANGED <<gImpl, gReq, gSearch, gDouble, gCanon, gTodo, gDns, gSvc, gRes>>

AddDone ==
    /\ gPc = "add" /\ gAddrs = <<>>
    /\ gPc' = IF gSearch # <<>> THEN "search" ELSE "canon"
    /\ UNCHANGED <<gImpl, gReq, gSearch, gDouble, gAddrs, gList, gCanon, gTodo, gLive, gDns, gSvc, gRes, gRc>>

\* ga_unix(): a stream and a datagram socket when the type is not given; its early
\* returns free nothing.
ga_unix ==
    /\ gPc = "unix" /\ gImpl = "libgai"
    /\ IF gReq.fam \notin {"UNSPEC", "LOCAL"}
       THEN UnixLost("ADDRFAMILY", gLive) /\ UNCHANGED gAddrs
       ELSE /\ gAddrs' = IF gReq.type = "0"
                         THEN <<<<"LOCAL", 0, "STREAM">>, <<"LOCAL", 0, "DGRAM">>>>
                         ELSE <<<<"LOCAL", 0, gReq.type>>>>
            /\ gPc' = "add" /\ UNCHANGED <<gList, gLive, gRc>>

\* addrinfo_local() and savecopy.c's ga_unix(): when calloc() fails the value is 0 and
\* *result is not set.
addrinfo_local ==
    \/ gReq.type = "0" /\ UnixLost("SOCKTYPE", gLive)
    \/ gReq.type # "0" /\ gPc' = "returned" /\ gRc' = "nothing" /\ UNCHANGED <<gList, gLive>>
    \/ gReq.type # "0" /\ UnixLost("MEMORY", gLive + 1)
    \/ /\ gReq.type # "0" /\ gPc' = "returned" /\ gRc' = "ok"
       /\ gList' = <<Struct(<<"LOCAL", 0, gReq.type>>, TRUE)>> /\ gLive' = gLive + 2

ga_unix_old == addrinfo_local

UnixStep ==
    /\ \/ ga_unix
       \/ gPc = "unix" /\ gImpl = "libfree" /\ addrinfo_local /\ UNCHANGED gAddrs
       \/ gPc = "unix" /\ gImpl = "savecopy" /\ ga_unix_old /\ UNCHANGED gAddrs
    /\ UNCHANGED <<gImpl, gReq, gSearch, gDouble, gCanon, gTodo, gDns, gSvc, gRes>>

-----------------------------------------------------------------------------
(* The canonical name and the service                                       *)

AfterCanon == IF gReq.serv = "none" \/ UnixReq(gReq) THEN "returned" ELSE "serv"

\* The list goes on to the service as it is, or with an allocated name in its first element.
NoName == gPc' = AfterCanon /\ gRc' = "ok" /\ UNCHANGED <<gList, gLive, gCanon>>
Named(live) ==
    /\ gList' = <<[gList[1] EXCEPT !.cn = TRUE]>> \o Tail(gList) /\ gLive' = live
    /\ gCanon' = "none" /\ gPc' = AfterCanon /\ gRc' = "ok"

\* libgai: the name saved at the first lookup, or a copy of the host's string; in ga_unix()
\* the name uname() gives.
CanonName_libgai ==
    LET wanted == "CANON" \in gReq.flags /\ gReq.host # "none" IN
    /\ gImpl = "libgai"
    /\ \/ gList = <<>> /\ Bad("NONAME", gList, gLive) /\ UNCHANGED gCanon
       \/ gList # <<>> /\ ~wanted /\ NoName
       \/ gList # <<>> /\ wanted /\ gCanon = "strdup" /\ Named(gLive)
       \/ gList # <<>> /\ wanted /\ gCanon = "none" /\ Named(gLive + 1)
       \/ /\ gList # <<>> /\ wanted /\ gCanon = "none" /\ UNCHANGED gCanon
          /\ IF UnixReq(gReq) THEN \E e \in {"MEMORY", "SYSTEM"} : UnixLost(e, gLive)
             ELSE Bad("MEMORY", gList, gLive)

CanonName_libfree ==
    /\ gImpl = "libfree"
    /\ \/ "CANON" \notin gReq.flags /\ NoName
       \/ "CANON" \in gReq.flags /\ Named(gLive + 1)
       \/ "CANON" \in gReq.flags /\ Bad("MEMORY", gList, gLive) /\ UNCHANGED gCanon

\* savecopy.c reads hptr->h_name also when no lookup has set hptr.
CanonName_old ==
    LET wanted == "CANON" \in gReq.flags /\ gReq.host # "none" IN
    /\ gImpl = "savecopy"
    /\ \/ ~wanted /\ NoName
       \/ wanted /\ Named(gLive + 1)
       \/ wanted /\ Bad("MEMORY", gList, gLive) /\ UNCHANGED gCanon
       \/ /\ wanted /\ gCanon = "garbage" /\ gPc' = "crashed" /\ gRc' = "crash"
          /\ UNCHANGED <<gList, gLive, gCanon>>

CanonName ==
    /\ gPc = "canon"
    /\ CanonName_libgai \/ CanonName_libfree \/ CanonName_old
    /\ UNCHANGED <<gImpl, gReq, gSearch, gDouble, gAddrs, gTodo, gDns, gSvc, gRes>>

\* getservbyname() for TCP and then for UDP
ByName(svc) ==
    (IF gReq.type \in {"0", "STREAM"} /\ "STREAM" \in svc THEN <<"STREAM">> ELSE <<>>)
    \o (IF gReq.type \in {"0", "DGRAM"} /\ "DGRAM" \in svc THEN <<"DGRAM">> ELSE <<>>)

\* ga_serv(): a port number for every socket type, a name for the protocols that have it.
ga_serv ==
    /\ gImpl = "libgai"
    /\ gTodo' = IF gReq.serv # "13" THEN ByName(gSvc')
                ELSE IF gReq.type # "0" THEN <<gReq.type>> ELSE <<"STREAM", "DGRAM">>

\* getaddrinfo_serv(), and savecopy.c's ga_serv(): a number needs a socket type.
getaddrinfo_serv ==
    gTodo' = IF gReq.serv = "13" /\ gReq.type # "0" THEN <<gReq.type>> ELSE ByName(gSvc')

ga_serv_old == getaddrinfo_serv

ServStep ==
    /\ gPc = "serv" /\ gPc' = "port"
    /\ gSvc' \in IF gReq.serv = "name" THEN SUBSET {"STREAM", "DGRAM"} ELSE {{}}
    /\ \/ ga_serv
       \/ gImpl = "libfree" /\ getaddrinfo_serv
       \/ gImpl = "savecopy" /\ ga_serv_old
    /\ gRc' = "none"                                        \* nfound = 0
    /\ UNCHANGED <<gImpl, gReq, gSearch, gDouble, gAddrs, gList, gCanon, gLive, gDns, gRes>>

PortStep ==
    /\ gPc = "port" /\ gTodo # <<>>
    /\ gTodo' = Tail(gTodo)
    /\ LET t == Head(gTodo)
           port == IF gReq.serv = "13" THEN "13" ELSE t
           done == CASE gImpl = "libgai" -> ga_port(port, t, gList, gLive)
                     [] gImpl = "libfree" -> getaddrinfo_port(port, t, gList, gLive)
                     [] OTHER -> ga_port_old(port, t, gList, gLive)
       IN \E o \in done :
            IF o.rc = "ok" THEN gList' = o.list /\ gLive' = o.live /\ gRc' = "ok" /\ UNCHANGED gPc
            ELSE Bad(o.rc, o.list, o.live)
    /\ UNCHANGED <<gImpl, gReq, gSearch, gDouble, gAddrs, gCanon, gDns, gSvc, gRes>>

PortsDone ==
    /\ gPc = "port" /\ gTodo = <<>>
    /\ IF gRc = "ok" THEN gPc' = "returned" /\ UNCHANGED <<gRc, gList, gLive>>
       ELSE Bad(IF gReq.type = "0" THEN "NONAME" ELSE "SERVICE", gList, gLive)
    /\ UNCHANGED <<gImpl, gReq, gSearch, gDouble, gAddrs, gCanon, gTodo, gDns, gSvc, gRes>>

-----------------------------------------------------------------------------
(* The caller                                                               *)

GaiCall ==
    /\ gPc = "idle"
    /\ gReq' \in Requests
    /\ gPc' = "check"
    /\ UNCHANGED <<gImpl, gSearch, gDouble, gAddrs, gList, gCanon, gTodo, gLive, gDns, gSvc, gRes, gRc>>

CheckStep ==
    /\ CheckArgs \/ CheckArgs_old \/ CheckArgs_libfree
    /\ UNCHANGED <<gImpl, gReq, gAddrs, gTodo, gDns, gSvc, gRes>>

\* The caller uses the list and gives it to freeaddrinfo(); after an error it just goes on.
Release ==
    /\ gPc \in {"returned", "failed"}
    /\ gPc' = "freed"
    /\ gLive' = freeaddrinfo(gList, gLive) /\ gList' = <<>>
    /\ UNCHANGED <<gImpl, gReq, gSearch, gDouble, gAddrs, gCanon, gTodo, gDns, gSvc, gRes, gRc>>

\* The next call begins with new local variables; only _res.options is left.
NextCall ==
    /\ gPc = "freed" /\ gPc' = "idle"
    /\ gReq' = NoReq /\ gSearch' = <<>> /\ gDouble' = FALSE /\ gAddrs' = <<>> /\ gCanon' = "none"
    /\ gTodo' = <<>> /\ gLive' = 0 /\ gDns' = NoAddrs /\ gSvc' = {} /\ gRc' = "none"
    /\ UNCHANGED <<gImpl, gList, gRes>>

GaiNext == GaiCall \/ CheckStep \/ HostStep \/ AddOne \/ AddDone \/ UnixStep \/ CanonName \/ ServStep
           \/ PortStep \/ PortsDone \/ Release \/ NextCall

GaiSpec == GaiInit /\ [][GaiNext]_gaiVars

-----------------------------------------------------------------------------
(* Properties.                                                              *)

\* Whichever allocation fails, a call that returns, or the caller's freeaddrinfo(), has freed
\* every block (libgai/getaddrinfo.c:17-20 and 164-166, libfree/getaddrinfo.c:156-158 and
\* 433-435), but for the name strdup'ed at libgai/getaddrinfo.c:128 that an error before line
\* 148 forgets, and for what ga_unix() and addrinfo_local() have built when they fail: their
\* early returns free nothing (ga_unix.c:22-34, libfree/getaddrinfo.c:729-741).
NothingLeaks ==
    gPc \in {"failed", "freed"} /\ ~(UnixReq(gReq) /\ gRc \notin {"ok", "nothing"})
        => gList = <<>> /\ gLive = IF gCanon = "strdup" THEN 1 ELSE 0

\* The calls that end otherwise.  libgai never crashes.  libfree and savecopy.c may, at an error
\* they meet before they have set aihead, which "bad:" frees (libfree/getaddrinfo.c:158,350,434),
\* and savecopy.c where it reads the name of a host it has not looked up.  Both return 0 and
\* leave *result unset when the calloc() for a Unix domain socket fails
\* (libfree/getaddrinfo.c:729-730).  err_quit() ends the process only for AF_LOCAL.
OtherEnds ==
    /\ gPc = "crashed" => \/ gImpl # "libgai" /\ gList = <<>>
                          \/ gImpl = "savecopy" /\ "CANON" \in gReq.flags /\ gReq.host \in {"v4", "v6"}
    /\ gRc = "nothing" => gImpl # "libgai" /\ UnixReq(gReq)
    /\ gPc = "quit" => gImpl # "libfree" /\ gReq.fam = "LOCAL"

\* The addresses a call must return: the one in the argument, the wildcard or loopback
\* address where there is no host, and those the resolver gave, IPv6 first.
NumericFams ==
    LET fams == IF gReq.fam = "UNSPEC" THEN {"INET", "INET6"} ELSE {gReq.fam} IN
    IF gReq.host # "none" THEN {FamOf(h) : h \in {gReq.host} \cap {"v4", "v6"}}
    ELSE IF "PASSIVE" \in gReq.flags THEN fams
    ELSE IF gImpl # "libfree" THEN fams \cap {"INET6"} ELSE {}

AddrsOf(f) == (IF f \in NumericFams THEN <<<<f, 0, gReq.type>>>> ELSE <<>>) \o [i \in 1 .. gDns[f] |-> <<f, i, gReq.type>>]

OfThisCall(f, id) == (f \in NumericFams /\ id = 0) \/ (f \in {"INET", "INET6"} /\ id \in 1 .. gDns[f])

AllAddrs == AddrsOf("INET6") \o AddrsOf("INET")

\* The socket types: the caller's, else those of the service, stream before datagram.
TypesWanted ==
    IF gReq.serv = "none" \/ gReq.type # "0" THEN <<gReq.type>>
    ELSE (IF gReq.serv = "13" \/ "STREAM" \in gSvc THEN <<"STREAM">> ELSE <<>>)
         \o (IF gReq.serv = "13" \/ "DGRAM" \in gSvc THEN <<"DGRAM">> ELSE <<>>)

PortOf(t) == IF gReq.serv = "none" THEN "none" ELSE IF gReq.serv = "13" THEN "13" ELSE t

Expected ==
    FlattenSeq([i \in 1 .. Len(AllAddrs) |->
        [j \in 1 .. Len(TypesWanted) |->
            <<AllAddrs[i][1], AllAddrs[i][2], TypesWanted[j], PortOf(TypesWanted[j])>>]])

\* What testga.c:160-208 expects of a call, where the resolver and the services file are as
\* its comments say; "any" for the other calls.
do_errtest ==
    LET Is(h, v, f, t, fl) == gReq = [host |-> h, serv |-> v, fam |-> f, type |-> t, flags |-> fl] IN
    CASE Is("none", "name", "UNSPEC", "0", {"PASSIVE"}) /\ gSvc # {} -> "ok"
      [] Is("name", "none", "UNSPEC", "0", {"bad"}) -> "BADFLAGS"
      [] Is("name", "none", "bad", "0", {}) -> "FAMILY"
      [] Is("none", "none", "UNSPEC", "0", {}) -> "NONAME"
      [] Is("name", "none", "UNSPEC", "0", {}) /\ gDns = NoAddrs -> "NONAME"
      [] Is("none", "name", "UNSPEC", "0", {}) /\ gSvc = {} -> "NONAME"
      [] Is("name", "name", "UNSPEC", "DGRAM", {}) /\ gSvc = {"STREAM"} -> "SERVICE"
      [] Is("name", "name", "UNSPEC", "STREAM", {}) /\ gSvc = {"DGRAM"} -> "SERVICE"
      [] Is("name", "none", "INET", "bad", {}) -> "SOCKTYPE"
      [] OTHER -> "any"

\* libgai and libfree: the list is every address with every socket type, each once and in
\* order, with the port of its own protocol (the example of ga_port.c:8-16) and the name in its
\* first element (testga.c:263).
InetRight ==
    gImpl # "savecopy" /\ ~UnixReq(gReq) =>
       /\ [i \in 1 .. Len(gList) |-> <<gList[i].fam, gList[i].id, gList[i].type, gList[i].port>>] = Expected
       /\ \A i \in 1 .. Len(gList) :
             gList[i].cn = (i = 1 /\ "CANON" \in gReq.flags /\ (gReq.host # "none" \/ gImpl = "libfree"))

\* A pathname: a stream and then a datagram socket, or the type asked for; only libgai gives
\* the name (ga_unix.c:18-34, libfree/getaddrinfo.c:720-751).
UnixTypes == IF gReq.type = "0" THEN <<"STREAM", "DGRAM">> ELSE <<gReq.type>>
UnixRight ==
    UnixReq(gReq) =>
       /\ Len(gList) = Len(UnixTypes)
       /\ \A i \in 1 .. Len(gList) :
             /\ <<gList[i].fam, gList[i].id, gList[i].type, gList[i].port>> = <<"LOCAL", 0, UnixTypes[i], "none">>
             /\ gList[i].sa /\ gList[i].cn = (i = 1 /\ "CANON" \in gReq.flags /\ gImpl = "libgai")

\* savecopy.c, which libgai has replaced: of its list this says only that every element is an
\* address of this call with a socket type asked for and the port of its protocol, or one of the
\* empty elements savecopy.c:131-135 leaves in front of those looked up.  An address string is
\* there once for each search.
SavedRight ==
    gImpl = "savecopy" /\ ~UnixReq(gReq) =>
       \A i \in 1 .. Len(gList) :
          LET ai == gList[i] IN
          \/ ai.fam = "UNSPEC" /\ ~ai.sa
          \/ /\ OfThisCall(ai.fam, ai.id)
             /\ ai.sa /\ (\E j \in 1 .. Len(TypesWanted) : ai.type = TypesWanted[j]) /\ ai.port = PortOf(ai.type)

\* A call that returns 0 with a result returns the right list; libgai returns the error codes
\* testga.c expects, unless it runs out of memory, and does not take an address family left in
\* the resolver by an earlier call for the one of this call (getaddrinfo.c:94-107).
ListRight ==
    /\ gPc = "returned" /\ gRc = "ok" => InetRight /\ UnixRight /\ SavedRight
    /\ gPc \in {"returned", "failed"} /\ gImpl = "libgai" /\ do_errtest # "any" => gRc \in {do_errtest, "MEMORY"}
    /\ gImpl = "libgai" /\ gRc = "ADDRFAMILY" => gReq.host \in {"v4", "v6", "/path"}

\* The result is right, nothing is left on the heap, and a call that does neither is one of the
\* known ones (libgai/*.c, libfree/getaddrinfo.c, libgai/old/savecopy.c).
GaiRight == NothingLeaks /\ OtherEnds /\ ListRight
=============================================================================
