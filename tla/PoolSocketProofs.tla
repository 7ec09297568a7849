-------------------------- MODULE PoolSocketProofs --------------------------
(***************************************************************************)
(* Proofs about Pool: the references of a socket are the sessions and the  *)
(* calls that hold it, and no connection is lost, although readLoops kill  *)
(* sockets and goroutines close servers between any two steps of a call.   *)
(***************************************************************************)
EXTENDS PoolProofs, FiniteSetTheorems, WellFoundedInduction

\* A server's record, and what a changed field makes of it.
LEMMA ServerRecord ==
    ASSUME NEW r \in ServerRecords
    PROVE  /\ r # None
           /\ DOMAIN r = {"closed", "master", "abended", "live", "unused"}
           /\ r.live \subseteq Socks /\ r.unused \in Seq(Socks)
           /\ \A q \in Seq(Socks) : [r EXCEPT !.unused = q] \in ServerRecords
           /\ \A L \in SUBSET Socks : [r EXCEPT !.live = L] \in ServerRecords
           /\ [r EXCEPT !.abended = TRUE] \in ServerRecords
           /\ \A b \in BOOLEAN : [r EXCEPT !.master = b] \in ServerRecords
           /\ [r EXCEPT !.closed = TRUE] \in ServerRecords
BY NoneAssumption DEF ServerRecords

\* The same of a socket's record.
LEMMA SocketRecord ==
    ASSUME NEW r \in SocketRecords
    PROVE  /\ r # None
           /\ DOMAIN r = {"server", "state", "refs", "lost"}
           /\ r.refs \in Int /\ r.server \in Servers \cup {None} /\ r.state \in SocketStates
           /\ \A n \in Int : [r EXCEPT !.refs = n] \in SocketRecords
           /\ \A n \in SocketStates : [r EXCEPT !.state = n] \in SocketRecords
           /\ [r EXCEPT !.server = None] \in SocketRecords
           /\ [r EXCEPT !.lost = TRUE] \in SocketRecords
BY NoneAssumption DEF SocketRecords

\* New objects are records.
LEMMA NewRecords ==
    /\ newServer \in ServerRecords
    /\ \A v \in Servers : newSocket(v) \in SocketRecords
BY DEF newServer, newSocket, ServerRecords, SocketRecords, SocketStates

\* Removing a socket from a list without repetitions.
LEMMA Removed ==
    ASSUME NEW q \in Seq(Socks), NEW s \in Socks,
           \A i, j \in DOMAIN q : q[i] = q[j] => i = j
    PROVE  /\ removeSocket(q, s) \in Seq(Socks)
           /\ \A i, j \in DOMAIN removeSocket(q, s) : removeSocket(q, s)[i] = removeSocket(q, s)[j] => i = j
           /\ \A x : Contains(removeSocket(q, s), x) <=> Contains(q, x) /\ x # s
<1>1. CASE ~ Contains(q, s)
  BY <1>1 DEF Contains, removeSocket
<1>2. CASE Contains(q, s)
  <2> DEFINE k == CHOOSE i \in DOMAIN q : q[i] = s
             r == removeSocket(q, s)
  <2>1. k \in DOMAIN q /\ q[k] = s BY <1>2 DEF Contains
  <2>2. r = SubSeq(q, 1, k - 1) \o SubSeq(q, k + 1, Len(q)) BY <1>2 DEF removeSocket, RemoveAt
  <2> HIDE DEF k, r
  <2>3. /\ r \in Seq(Socks) /\ Len(r) = Len(q) - 1
        /\ \A i \in 1 .. Len(r) : r[i] = IF i < k THEN q[i] ELSE q[i + 1]
    <3> DEFINE a == SubSeq(q, 1, k - 1)
               b == SubSeq(q, k + 1, Len(q))
    <3>1. k \in 1 .. Len(q) /\ Len(q) \in Nat BY <2>1
    <3>2. /\ a \in Seq(Socks) /\ Len(a) = k - 1
          /\ \A i \in 1 .. k - 1 : a[i] = q[i]
      BY <3>1
    <3>3. /\ b \in Seq(Socks) /\ Len(b) = Len(q) - k
          /\ \A i \in 1 .. Len(q) - k : b[i] = q[i + k]
      BY <3>1
    <3>4. r = a \o b BY <2>2
    <3> HIDE DEF a, b
    <3>5. r \in Seq(Socks) /\ Len(r) = Len(q) - 1 BY <3>1, <3>2, <3>3, <3>4
    <3>6. ASSUME NEW i \in 1 .. Len(r) PROVE r[i] = IF i < k THEN q[i] ELSE q[i + 1]
      <4>1. CASE i < k BY <3>1, <3>2, <3>3, <3>4, <3>5, <4>1
      <4>2. CASE i >= k
        <5>a. a \in Seq(Socks) /\ b \in Seq(Socks) /\ Len(a) = k - 1 /\ k \in Int BY <3>1, <3>2, <3>3
        <5>b. i \in 1 .. Len(a) + Len(b) /\ i > Len(a) BY <3>1, <3>2, <3>3, <3>5, <4>2
        <5>c. (a \o b)[i] = b[i - Len(a)] BY <5>a, <5>b
        <5>1. r[i] = b[i - (k - 1)] BY <3>4, <5>a, <5>c
        <5>2. i - (k - 1) \in 1 .. Len(q) - k /\ (i - (k - 1)) + k = i + 1 BY <3>1, <3>5, <4>2
        <5>3. b[i - (k - 1)] = q[(i - (k - 1)) + k] BY <3>3, <5>2
        <5> QED BY <3>1, <3>5, <4>2, <5>1, <5>2, <5>3
      <4> QED BY <3>1, <4>1, <4>2
    <3> QED BY <3>5, <3>6
  <2>4. ASSUME NEW i \in DOMAIN r, NEW j \in DOMAIN r, r[i] = r[j] PROVE i = j
    <3> DEFINE place(n) == IF n < k THEN n ELSE n + 1
    <3>1. DOMAIN r = 1 .. Len(q) - 1 /\ DOMAIN q = 1 .. Len(q) /\ Len(q) \in Nat BY <2>3
    <3>2. place(i) \in DOMAIN q /\ place(j) \in DOMAIN q BY <2>1, <3>1
    <3>3. r[i] = q[place(i)] /\ r[j] = q[place(j)] BY <2>3, <3>1
    <3>4. place(i) = place(j) BY <2>4, <3>2, <3>3
    <3> QED BY <2>1, <3>1, <3>4
  <2>5. ASSUME NEW x, Contains(r, x) PROVE Contains(q, x) /\ x # s
    <3>1. DOMAIN q = 1 .. Len(q) /\ Len(q) \in Nat /\ k \in 1 .. Len(q) BY <2>1
    <3>2. PICK i \in 1 .. Len(r) : r[i] = x BY <2>5 DEF Contains
    <3>3. PICK j \in 1 .. Len(q) : j # k /\ q[j] = x
      <4>1. CASE i < k
        <5>1. i \in 1 .. Len(q) /\ i # k /\ q[i] = x BY <2>3, <3>1, <3>2, <4>1
        <5> QED BY <5>1
      <4>2. CASE i >= k
        <5>1. i + 1 \in 1 .. Len(q) /\ i + 1 # k /\ q[i + 1] = x BY <2>3, <3>1, <3>2, <4>2
        <5> QED BY <5>1
      <4> QED BY <3>1, <3>2, <4>1, <4>2
    <3>4. x # s BY <2>1, <3>1, <3>3
    <3> QED BY <3>3, <3>4 DEF Contains
  <2>6. ASSUME NEW x, Contains(q, x), x # s PROVE Contains(r, x)
    <3>1. PICK i \in 1 .. Len(q) : q[i] = x BY <2>6 DEF Contains
    <3>2. CASE i < k BY <2>1, <2>3, <3>1, <3>2 DEF Contains
    <3>3. CASE i > k
      <4>1. i - 1 \in 1 .. Len(r) /\ r[i - 1] = x BY <2>1, <2>3, <3>1, <3>3
      <4> QED BY <4>1 DEF Contains
    <3> QED BY <2>1, <2>6, <3>1, <3>2, <3>3
  <2> QED BY <2>3, <2>4, <2>5, <2>6 DEF r
<1> QED BY <1>1, <1>2

(***************************************************************************)
(* What a step leaves as it was.                                           *)
(***************************************************************************)

\* A client has the same to do with a socket as before.
Same(c, s) ==
    /\ s \in Held(c)' <=> s \in Held(c)
    /\ Uses(c, s)' <=> Uses(c, s)
    /\ Counts(c, s)' <=> Counts(c, s)
    /\ client'[c].pc = "append" /\ client'[c].s = s <=> client[c].pc = "append" /\ client[c].s = s

\* A call goes on as it was, or looks at the cluster again.
Continues(c) ==
    /\ DOMAIN client'[c] = DOMAIN client[c]
    /\ client'[c].ms = client[c].ms /\ client'[c].ss = client[c].ss
    /\ client'[c].s = client[c].s /\ client'[c].v = client[c].v
    /\ \/ client'[c].pc = client[c].pc
       \/ client[c].pc = "waiting" /\ client'[c].pc = "pick"

\* A server's object stays; a socket stays, and if it lives it lived at the same server.
Stays(v) == v \in Servers \ FreeServers => srv'[v] # None
Remains(s) ==
    /\ sock[s] # None /\ sock'[s] # None
    /\ \/ dead(s)'
       \/ ~dead(s) /\ Home(s)' = Home(s)

\* A client that goes on has the same to do with every socket.
LEMMA SameWhenContinues ==
    ASSUME NEW c, NEW s, Continues(c)
    PROVE  Same(c, s)
BY DEF Same, Continues, Held, Uses, Counts

\* A broadcast, or nothing: every client goes on.
LEMMA WokenContinues ==
    ASSUME SocketInv, client' = Woken \/ client' = client
    PROVE  DOMAIN client' = Clients /\ \A c \in Clients : Continues(c)
<1>d. DOMAIN client = Clients /\ \A c \in Clients : DOMAIN client[c] = DOMAIN NoSession
  BY DEF SocketInv, SessionOK
<1>1. CASE client' = client BY <1>1, <1>d DEF Continues
<1>2. CASE client' = Woken
  <2>1. DOMAIN client' = Clients BY <1>2 DEF Woken
  <2>2. ASSUME NEW c \in Clients PROVE Continues(c)
    <3>1. client'[c] = IF client[c].pc = "waiting" THEN [client[c] EXCEPT !.pc = "pick"]
                                                   ELSE client[c]
      BY <1>2 DEF Woken
    <3> QED BY <1>d, <3>1 DEF Continues, NoSession
  <2> QED BY <2>1, <2>2
<1> QED BY <1>1, <1>2, <1>d

\* A session that goes on keeps its invariant while its server and its socket stay.
LEMMA SessionCarried ==
    ASSUME NEW c \in Clients, SessionOK(c), Continues(c), Stays(client[c].v),
           client[c].s # None => Remains(client[c].s)
    PROVE  SessionOK(c)'
<1>1. /\ DOMAIN client'[c] = DOMAIN NoSession
      /\ client'[c].ms = client[c].ms /\ client'[c].ss = client[c].ss
      /\ client'[c].s = client[c].s /\ client'[c].v = client[c].v
      /\ \/ client'[c].pc = client[c].pc
         \/ client[c].pc = "waiting" /\ client'[c].pc = "pick"
  BY DEF Continues, SessionOK
<1>2. client[c].v \in Servers \ FreeServers => client[c].v \in Servers \ FreeServers'
  BY DEF Stays, FreeServers
<1>3. client[c].s # None =>
          (dead(client[c].s) \/ Home(client[c].s) = client[c].v
             => dead(client[c].s)' \/ Home(client[c].s)' = client[c].v)
  BY DEF Remains
<1>4. CASE client'[c].pc = client[c].pc
  BY <1>1, <1>2, <1>3, <1>4 DEF SessionOK, Remains, dead, Home
<1>5. CASE client[c].pc = "waiting" /\ client'[c].pc = "pick"
  BY <1>1, <1>2, <1>3, <1>5 DEF SessionOK, WithSocket, Acquiring
<1> QED BY <1>1, <1>4, <1>5

\* A socket that nobody and nothing touches keeps its invariant.
LEMMA SocketCarried ==
    ASSUME NEW s \in Socks, SocketOK(s), sock'[s] = sock[s], Cached(s)' = Cached(s),
           ~dead(s) /\ Home(s) \in Servers \ FreeServers =>
               srv'[Home(s)] # None /\ (s \in srv[Home(s)].live => s \in srv'[Home(s)].live),
           \A c \in Clients : Same(c, s)
    PROVE  SocketOK(s)'
<1>1. References(s)' = References(s) BY DEF References, Same
<1>2. Unreferenced(s)' <=> Unreferenced(s) BY DEF Unreferenced, Same
<1>3. \A c, d \in Clients : s \in Held(c)' \cap Held(d)' => s \in Held(c) \cap Held(d) BY DEF Same
<1>4. dead(s)' = dead(s) /\ Home(s)' = Home(s) BY DEF dead, Home
<1>5. ~dead(s) => (Home(s) \in Servers \ FreeServers)' BY <1>4 DEF SocketOK, FreeServers
<1> QED BY <1>1, <1>2, <1>3, <1>4, <1>5 DEF SocketOK, Same, dead

\* What a step must show of the socket it touches, when only client c may have it.
LEMMA Touched ==
    ASSUME SocketInv, NEW c \in Clients, NEW s \in Socks,
           \A d \in Clients \ {c} : client'[d] = client[d] /\ s \notin Held(d),
           sock'[s].refs = IF sock'[s].lost THEN 2
                           ELSE IF Uses(c, s)' THEN 2 ELSE IF Counts(c, s)' THEN 1 ELSE 0,
           sock'[s].lost => s \notin Held(c)' /\ Cached(s)' = {},
           Cached(s)' # {} => s \notin Held(c)',
           \A v, w \in Cached(s)' : v = w,
           ~dead(s)' => /\ Cached(s)' \subseteq {Home(s)'}
                        /\ Home(s)' \in Servers \ FreeServers'
                        /\ \/ s \in srv'[Home(s)'].live
                           \/ client'[c].pc = "append" /\ client'[c].s = s,
           sock'[s].state = "open" /\ ~sock'[s].lost => Cached(s)' # {} \/ s \in Held(c)'
    PROVE  SocketOK(s)'
<1>1. \A d \in Clients \ {c} : s \notin Held(d)' BY DEF Held
<1>2. \A d \in Clients \ {c} : ~Uses(d, s)' /\ ~Counts(d, s)'
  <2>1. s # None BY NoneAssumption
  <2> QED BY <1>1, <2>1 DEF Held, Uses, Counts
<1>3. References(s)' = IF Uses(c, s)' THEN 2 ELSE IF Counts(c, s)' THEN 1 ELSE 0
  BY <1>2 DEF References
<1>4. Unreferenced(s)' <=> s \notin Held(c)' BY <1>1 DEF Unreferenced
<1>5. \A a, b \in Clients : s \in Held(a)' \cap Held(b)' => a = b BY <1>1
<1> QED BY <1>3, <1>4, <1>5 DEF SocketOK, dead, Home

\* A call that leaves the servers alone and touches the sockets T.
LEMMA CallOnSocks ==
    ASSUME SocketInv, NEW c \in Clients, UNCHANGED <<srv, cluster, iteration>>,
           DOMAIN client' = Clients, SessionOK(c)', sock' \in [Socks -> SocketRecords \cup {None}],
           NEW T \in SUBSET Socks,
           \A d \in Clients \ {c} : client'[d] = client[d],
           \A x \in Socks \ T : sock'[x] = sock[x] /\ Same(c, x),
           \A x \in T : /\ sock'[x] # None /\ SocketOK(x)'
                        /\ \A d \in Clients \ {c} : x \notin Held(d)
    PROVE  SocketInv'
<1>1. FreeServers' = FreeServers BY DEF FreeServers
<1>2. ServersInUse' BY <1>1 DEF SocketInv, ServersInUse, cluster, iteration, Unseen
<1>3. ASSUME NEW d \in Clients \ {c} PROVE SessionOK(d)'
  <2>1. SessionOK(d) /\ client'[d] = client[d] BY DEF SocketInv
  <2>2. client[d].s # None => client[d].s \in Held(d) /\ client[d].s \in Socks
    BY <2>1 DEF SessionOK, Held
  <2>3. client[d].s # None => sock'[client[d].s] = sock[client[d].s] BY <2>2
  <2> QED BY <1>1, <2>1, <2>3 DEF SessionOK, dead, Home
<1>4. \A v \in Servers \ FreeServers' : CacheOK(v)' BY <1>1 DEF SocketInv, CacheOK
<1>5. \A x \in Socks : Cached(x)' = Cached(x) /\ Live(x)' = Live(x)
  BY <1>1 DEF Cached, Live
<1>6. ASSUME NEW x \in Socks \ T PROVE \A d \in Clients : Same(d, x)
  BY DEF Same, Held, Uses, Counts
<1>7. ASSUME NEW x \in Socks \ FreeSocks' PROVE SocketOK(x)'
  <2>1. CASE x \in T BY <2>1
  <2>2. CASE x \notin T
    <3>1. sock'[x] = sock[x] /\ SocketOK(x) BY <1>7, <2>2 DEF SocketInv, FreeSocks
    <3>2. ~dead(x) /\ Home(x) \in Servers \ FreeServers => srv'[Home(x)] # None
      BY DEF FreeServers
    <3> QED BY <1>5, <1>6, <2>2, <3>1, <3>2, SocketCarried
  <2> QED BY <2>1, <2>2
<1>8. ASSUME NEW x \in FreeSocks' PROVE (Unreferenced(x) /\ Cached(x) \cup Live(x) = {})'
  <2>1. x \notin T /\ x \in FreeSocks BY <1>8 DEF FreeSocks
  <2> QED BY <1>5, <1>6, <1>8, <2>1 DEF SocketInv, Unreferenced, Same, FreeSocks
<1> QED BY <1>2, <1>3, <1>4, <1>7, <1>8 DEF SocketInv

\* A call that leaves the sockets alone as well.
LEMMA CallOnNothing ==
    ASSUME SocketInv, NEW c \in Clients, UNCHANGED <<srv, sock, cluster, iteration>>,
           DOMAIN client' = Clients, SessionOK(c)',
           \A d \in Clients \ {c} : client'[d] = client[d],
           \A x \in Socks : Same(c, x)
    PROVE  SocketInv'
<1>1. sock' \in [Socks -> SocketRecords \cup {None}] BY DEF SocketInv
<1>2. \A x \in Socks \ {} : sock'[x] = sock[x] /\ Same(c, x) OBVIOUS
<1>3. \A x \in {} : /\ sock'[x] # None /\ SocketOK(x)'
                     /\ \A d \in Clients \ {c} : x \notin Held(d)
  OBVIOUS
<1>4. {} \in SUBSET Socks OBVIOUS
<1>5. UNCHANGED <<srv, cluster, iteration>> OBVIOUS
<1> HIDE DEF SocketInv
<1> QED BY <1>1, <1>2, <1>3, <1>4, <1>5, CallOnSocks

(***************************************************************************)
(* The calls of sessions.                                                  *)
(***************************************************************************)

\* Only the client that calls changes.
LEMMA SetEffect ==
    ASSUME SocketInv, NEW c \in Clients, NEW r, Set(c, r)
    PROVE  /\ DOMAIN client' = Clients /\ client'[c] = r
           /\ \A d \in Clients \ {c} : client'[d] = client[d]
BY DEF Set, SocketInv

\* A call that goes on to its next line with what it has.
LEMMA NextLine ==
    ASSUME SocketInv, NEW c \in Clients, UNCHANGED <<srv, sock, cluster, iteration>>,
           NEW r, Set(c, r), DOMAIN r = DOMAIN NoSession,
           r.ms = client[c].ms, r.ss = client[c].ss, r.s = client[c].s,
           r.pc = "use" <=> client[c].pc = "use",
           r.pc = "append" <=> client[c].pc = "append",
           r.pc \in {"verify", "reserve"} <=> client[c].pc \in {"verify", "reserve"},
           r.pc \in WithSocket <=> client[c].pc \in WithSocket,
           r.pc \in {"pick", "waiting"} \cup Acquiring => client[c].ms = None,
           r.pc \in Acquiring \cup {"recycleClosing"} => r.v \in Servers \ FreeServers,
           r.pc \in WithSocket \ {"use"} => r.v = client[c].v
    PROVE  SocketInv'
<1>1. /\ DOMAIN client' = Clients /\ client'[c] = r
      /\ \A d \in Clients \ {c} : client'[d] = client[d]
  BY SetEffect
<1>2. SessionOK(c) BY DEF SocketInv
<1>3. FreeServers' = FreeServers BY DEF FreeServers
<1>4. SessionOK(c)'
  BY <1>1, <1>2, <1>3 DEF SessionOK, dead, Home, WithSocket
<1>5. \A x \in Socks : Same(c, x) BY <1>1 DEF Same, Held, Uses, Counts
<1> QED BY <1>1, <1>4, <1>5, CallOnNothing

\* A call chooses a server.
LEMMA StepOfPick ==
    ASSUME SocketInv, NEW c \in Clients, Pick(c)
    PROVE  SocketInv'
<1>1. PICK v \in MostAvailable(Candidates(c)) : Set(c, [client[c] EXCEPT !.pc = "get", !.v = v])
  BY DEF Pick
<1>2. v \in Servers \ FreeServers
  BY DEF MostAvailable, Candidates, SocketInv, ServersInUse
<1>3. SessionOK(c) /\ client[c].pc = "pick" /\ UNCHANGED <<srv, sock, cluster, iteration>>
  BY DEF SocketInv, Pick, Is
<1> DEFINE r == [client[c] EXCEPT !.pc = "get", !.v = v]
<1>4. /\ DOMAIN r = DOMAIN NoSession /\ r.pc = "get" /\ r.v = v
      /\ r.ms = client[c].ms /\ r.ss = client[c].ss /\ r.s = client[c].s /\ client[c].ms = None
  BY <1>3 DEF SessionOK, NoSession
<1> HIDE DEF r
<1> QED BY <1>1, <1>2, <1>3, <1>4, NextLine DEF r, WithSocket, Acquiring

\* An operation that ends leaves what the session has reserved.
LEMMA EndedEffect ==
    ASSUME SocketInv, NEW c \in Clients, NEW a, Ended(c, client[c], a)
    PROVE  /\ DOMAIN client' = Clients /\ \A d \in Clients \ {c} : client'[d] = client[d]
           /\ DOMAIN client'[c] = DOMAIN NoSession
           /\ client'[c].ms = client[c].ms /\ client'[c].ss = client[c].ss
           /\ client'[c].s = None /\ client'[c].pc \in {"ready", "closing"}
<1>1. DOMAIN client[c] = DOMAIN NoSession BY DEF SocketInv, SessionOK
<1> DEFINE r == [client[c] EXCEPT
                    !.pc = IF c \in Steady THEN "ready"
                           ELSE IF client[c].n + 1 = Len(scenario.request) \/ a = "panic" THEN "closing" ELSE "ready",
                    !.n = IF c \in Steady THEN 0 ELSE @ + 1,
                    !.op = "read", !.s = None, !.v = None, !.waits = 0, !.abended = FALSE]
<1>2. Set(c, r) BY DEF Ended
<1>3. /\ DOMAIN r = DOMAIN NoSession /\ r.ms = client[c].ms /\ r.ss = client[c].ss
      /\ r.s = None /\ r.pc \in {"ready", "closing"}
  BY <1>1 DEF NoSession
<1> HIDE DEF r
<1> QED BY <1>2, <1>3, SetEffect

\* Waiting for a server, or giving up.
LEMMA StepOfWait ==
    ASSUME SocketInv, NEW c \in Clients, Wait(c) \/ Unreachable(c) \/ Limited(c)
    PROVE  SocketInv'
<1>1. SessionOK(c) /\ DOMAIN client[c] = DOMAIN NoSession BY DEF SocketInv, SessionOK
<1>2. CASE Wait(c)
  <2> DEFINE r == [client[c] EXCEPT !.pc = "waiting", !.waits = @ + 1]
  <2>1. /\ DOMAIN r = DOMAIN NoSession /\ r.pc = "waiting"
        /\ r.ms = client[c].ms /\ r.ss = client[c].ss /\ r.s = client[c].s
    BY <1>1 DEF NoSession
  <2>2. Set(c, r) /\ UNCHANGED <<srv, sock, cluster, iteration>> /\ client[c].pc = "pick"
    BY <1>2 DEF Wait, Is
  <2>3. client[c].ms = None BY <1>1, <2>2 DEF SessionOK
  <2> HIDE DEF r
  <2> QED BY <2>1, <2>2, <2>3, NextLine DEF WithSocket, Acquiring
<1>3. CASE Limited(c)
  <2> DEFINE r == [client[c] EXCEPT !.pc = "pick", !.v = None]
  <2>1. /\ DOMAIN r = DOMAIN NoSession /\ r.pc = "pick"
        /\ r.ms = client[c].ms /\ r.ss = client[c].ss /\ r.s = client[c].s
    BY <1>1 DEF NoSession
  <2>2. Set(c, r) /\ UNCHANGED <<srv, sock, cluster, iteration>> /\ client[c].pc = "get"
    BY <1>3 DEF Limited, Is
  <2>3. client[c].ms = None BY <1>1, <2>2 DEF SessionOK, Acquiring
  <2> HIDE DEF r
  <2> QED BY <2>1, <2>2, <2>3, NextLine DEF WithSocket, Acquiring
<1>4. CASE Unreachable(c)
  <2>1. /\ DOMAIN client' = Clients /\ \A d \in Clients \ {c} : client'[d] = client[d]
        /\ DOMAIN client'[c] = DOMAIN NoSession
        /\ client'[c].ms = client[c].ms /\ client'[c].ss = client[c].ss
        /\ client'[c].s = None /\ client'[c].pc \in {"ready", "closing"}
    BY <1>4, EndedEffect DEF Unreachable
  <2>2. UNCHANGED <<srv, sock, cluster, iteration>> /\ client[c].pc = "pick"
    BY <1>4 DEF Unreachable, Is
  <2>3. client[c].s = None BY <1>1, <2>2 DEF SessionOK, WithSocket
  <2>4. SessionOK(c)' BY <1>1, <2>1 DEF SessionOK, WithSocket, Acquiring
  <2>5. \A x \in Socks : Same(c, x) BY <2>1, <2>2, <2>3 DEF Same, Held, Uses, Counts
  <2> QED BY <2>1, <2>2, <2>4, <2>5, CallOnNothing
<1> QED BY <1>2, <1>3, <1>4

\* The socket a client has is its own, in no cache, and has its references.
LEMMA HeldByOne ==
    ASSUME SocketInv, NEW c \in Clients, NEW s \in Held(c)
    PROVE  /\ s \in Socks \ FreeSocks /\ sock[s] \in SocketRecords /\ SocketOK(s)
           /\ ~sock[s].lost /\ Cached(s) = {}
           /\ \A d \in Clients \ {c} : s \notin Held(d)
           /\ sock[s].refs = IF Uses(c, s) THEN 2 ELSE IF Counts(c, s) THEN 1 ELSE 0
           /\ ~dead(s) => /\ Home(s) \in Servers \ FreeServers
                          /\ \/ s \in srv[Home(s)].live
                             \/ client[c].pc = "append" /\ client[c].s = s
<1>1. s \in Socks \ FreeSocks
  <2>1. s \in Socks BY DEF SocketInv, SessionOK, Held
  <2>2. s \notin FreeSocks BY DEF SocketInv, Unreferenced
  <2> QED BY <2>1, <2>2
<1>2. SocketOK(s) /\ sock[s] \in SocketRecords BY <1>1 DEF SocketInv, FreeSocks
<1>3. ~Unreferenced(s) BY DEF Unreferenced
<1>4. ~sock[s].lost /\ Cached(s) = {} BY <1>2, <1>3 DEF SocketOK
<1>5. \A d \in Clients \ {c} : s \notin Held(d) BY <1>2 DEF SocketOK
<1>6. \A d \in Clients \ {c} : ~Uses(d, s) /\ ~Counts(d, s)
  BY <1>1, <1>5, NoneAssumption DEF Held, Uses, Counts
<1>7. sock[s].refs = IF Uses(c, s) THEN 2 ELSE IF Counts(c, s) THEN 1 ELSE 0
  BY <1>2, <1>4, <1>6 DEF SocketOK, References
<1>8. ASSUME ~dead(s)
      PROVE  /\ Home(s) \in Servers \ FreeServers
             /\ \/ s \in srv[Home(s)].live
                \/ client[c].pc = "append" /\ client[c].s = s
  <2>1. \A d \in Clients : client[d].s = s => s \in Held(d) BY <1>1, NoneAssumption DEF Held
  <2> QED BY <1>2, <1>5, <1>8, <2>1 DEF SocketOK
<1> QED BY <1>1, <1>2, <1>4, <1>5, <1>7, <1>8

\* A reference more or less.
LEMMA RefsEffect ==
    ASSUME SocketInv, NEW s \in Socks \ FreeSocks, NEW n \in Int,
           sock' = Refs(s, n) \/ (n = 0 /\ sock' = sock)
    PROVE  /\ sock' \in [Socks -> SocketRecords \cup {None}]
           /\ sock'[s] # None /\ sock'[s].refs = sock[s].refs + n
           /\ sock'[s].lost = sock[s].lost /\ sock'[s].state = sock[s].state
           /\ sock'[s].server = sock[s].server
           /\ \A x \in Socks \ {s} : sock'[x] = sock[x]
<1>1. sock \in [Socks -> SocketRecords \cup {None}] /\ sock[s] \in SocketRecords
  BY DEF SocketInv, FreeSocks
<1>r. sock[s].refs \in Int /\ sock[s] # None BY <1>1, NoneAssumption DEF SocketRecords
<1>0. CASE n = 0 /\ sock' = sock BY <1>0, <1>1, <1>r
<1> SUFFICES ASSUME sock' = Refs(s, n)
             PROVE  /\ sock' \in [Socks -> SocketRecords \cup {None}]
                    /\ sock'[s] # None /\ sock'[s].refs = sock[s].refs + n
                    /\ sock'[s].lost = sock[s].lost /\ sock'[s].state = sock[s].state
                    /\ sock'[s].server = sock[s].server
                    /\ \A x \in Socks \ {s} : sock'[x] = sock[x]
  BY <1>0
<1>2. sock' = [sock EXCEPT ![s] = [sock[s] EXCEPT !.refs = sock[s].refs + n]]
  BY <1>1 DEF Refs
<1> DEFINE r == [sock[s] EXCEPT !.refs = sock[s].refs + n]
<1>3. r \in SocketRecords /\ r # None
  <2>1. sock[s].refs + n \in Int BY <1>r
  <2>2. r \in SocketRecords BY <1>1, <2>1, SocketRecord
  <2> HIDE DEF r
  <2> QED BY <2>2, SocketRecord
<1>4. /\ r.refs = sock[s].refs + n
      /\ r.lost = sock[s].lost /\ r.state = sock[s].state /\ r.server = sock[s].server
  BY <1>1, SocketRecord
<1>5. sock'[s] = r BY <1>1, <1>2
<1> HIDE DEF r
<1> QED BY <1>1, <1>2, <1>3, <1>4, <1>5

\* A client changes what it has of one of its sockets by one reference.
LEMMA OneReference ==
    ASSUME SocketInv, NEW c \in Clients, UNCHANGED <<srv, cluster, iteration>>,
           DOMAIN client' = Clients, SessionOK(c)',
           \A d \in Clients \ {c} : client'[d] = client[d],
           NEW s \in Held(c), NEW n \in Int,
           sock' = Refs(s, n) \/ (n = 0 /\ sock' = sock),
           (Held(c) \ {s}) \subseteq Held(c)', Held(c)' \subseteq Held(c),
           \A x \in Held(c) \ {s} : Same(c, x),
           sock[s].refs + n = IF Uses(c, s)' THEN 2 ELSE IF Counts(c, s)' THEN 1 ELSE 0,
           dead(s) \/ (/\ s \in Held(c)'
                       /\ client[c].pc = "append" /\ client[c].s = s
                            => client'[c].pc = "append" /\ client'[c].s = s)
    PROVE  SocketInv'
<1>1. /\ s \in Socks \ FreeSocks /\ SocketOK(s) /\ ~sock[s].lost /\ Cached(s) = {}
      /\ \A d \in Clients \ {c} : s \notin Held(d)
      /\ ~dead(s) => /\ Home(s) \in Servers \ FreeServers
                     /\ \/ s \in srv[Home(s)].live
                        \/ client[c].pc = "append" /\ client[c].s = s
  BY HeldByOne
<1>2. /\ sock' \in [Socks -> SocketRecords \cup {None}]
      /\ sock'[s] # None /\ sock'[s].refs = sock[s].refs + n
      /\ sock'[s].lost = sock[s].lost /\ sock'[s].state = sock[s].state
      /\ sock'[s].server = sock[s].server
      /\ \A x \in Socks \ {s} : sock'[x] = sock[x]
  BY <1>1, RefsEffect
<1>3. Cached(s)' = {} /\ FreeServers' = FreeServers BY <1>1 DEF Cached, FreeServers
<1>4. dead(s)' = dead(s) /\ Home(s)' = Home(s) BY <1>2 DEF dead, Home
<1>5. SocketOK(s)'
  <2>1. s \in Socks /\ \A d \in Clients \ {c} : client'[d] = client[d] /\ s \notin Held(d)
    BY <1>1
  <2>2. sock'[s].refs = IF sock'[s].lost THEN 2
                        ELSE IF Uses(c, s)' THEN 2 ELSE IF Counts(c, s)' THEN 1 ELSE 0
    BY <1>1, <1>2
  <2>3. ~sock'[s].lost BY <1>1, <1>2
  <2>4. ~dead(s)' => /\ Home(s)' \in Servers \ FreeServers'
                     /\ \/ s \in srv'[Home(s)'].live
                        \/ client'[c].pc = "append" /\ client'[c].s = s
    BY <1>1, <1>3, <1>4
  <2>5. sock'[s].state = "open" => s \in Held(c)' BY <1>2 DEF dead
  <2> QED BY <1>3, <2>1, <2>2, <2>3, <2>4, <2>5, Touched
<1>6. ASSUME NEW x \in Socks \ {s} PROVE Same(c, x)
  <2>1. CASE x \in Held(c) BY <1>6, <2>1
  <2>2. CASE x \notin Held(c)
    <3>1. x \notin Held(c)' /\ x # None BY <2>2, NoneAssumption
    <3> QED BY <2>2, <3>1 DEF Same, Held, Uses, Counts
  <2> QED BY <2>1, <2>2
<1> DEFINE T == {s}
<1>7. \A x \in T : /\ sock'[x] # None /\ SocketOK(x)'
                   /\ \A d \in Clients \ {c} : x \notin Held(d)
  BY <1>1, <1>2, <1>5
<1>8. T \in SUBSET Socks /\ \A x \in Socks \ T : sock'[x] = sock[x] /\ Same(c, x)
  BY <1>1, <1>2, <1>6
<1>9. sock' \in [Socks -> SocketRecords \cup {None}] /\ UNCHANGED <<srv, cluster, iteration>>
  BY <1>2
<1> HIDE DEF T
<1> QED BY <1>7, <1>8, <1>9, CallOnSocks

\* An operation takes the socket its session has reserved, or looks for one.
LEMMA StepOfAcquire ==
    ASSUME SocketInv, NEW c \in Clients, NEW op, acquireSocket(c, op)
    PROVE  SocketInv'
<1>1. SessionOK(c) /\ DOMAIN client[c] = DOMAIN NoSession BY DEF SocketInv, SessionOK
<1>2. UNCHANGED <<srv, cluster, iteration>> /\ client[c].pc \in {"idle", "ready"}
  BY DEF acquireSocket
<1>3. client[c].s = None BY <1>1, <1>2 DEF SessionOK, WithSocket
<1>s. PICK s : s = reserved(c, op) OBVIOUS
<1>4. CASE s = None
  <2> DEFINE r == [client[c] EXCEPT !.pc = "pick", !.op = op]
  <2>1. Set(c, r) /\ UNCHANGED sock BY <1>4, <1>s DEF acquireSocket
  <2>2. /\ DOMAIN r = DOMAIN NoSession /\ r.pc = "pick"
        /\ r.ms = client[c].ms /\ r.ss = client[c].ss /\ r.s = client[c].s
    BY <1>1 DEF NoSession
  <2>3. client[c].ms = None BY <1>4, <1>s, NoneAssumption DEF reserved
  <2> HIDE DEF r
  <2> QED BY <1>2, <2>1, <2>2, <2>3, NextLine DEF WithSocket, Acquiring
<1>5. CASE s # None
  <2> DEFINE r == [client[c] EXCEPT !.pc = "use", !.op = op, !.s = s]
  <2>1. Set(c, r) /\ sock' = Refs(s, 1) BY <1>5, <1>s DEF acquireSocket
  <2>2. /\ DOMAIN r = DOMAIN NoSession /\ r.pc = "use" /\ r.s = s
        /\ r.ms = client[c].ms /\ r.ss = client[c].ss
    BY <1>1 DEF NoSession
  <2>3. s \in {client[c].ms, client[c].ss} BY <1>5, <1>s DEF reserved
  <2>4. s \in Held(c) BY <1>5, <2>3 DEF Held
  <2> HIDE DEF r
  <2>5. /\ DOMAIN client' = Clients /\ client'[c] = r
        /\ \A d \in Clients \ {c} : client'[d] = client[d]
    BY <2>1, SetEffect
  <2>6. SessionOK(c)' BY <1>1, <1>5, <2>2, <2>3, <2>5 DEF SessionOK, WithSocket, Acquiring
  <2>7. Held(c)' = Held(c) BY <1>3, <2>2, <2>3, <2>5 DEF Held
  <2>8. ASSUME NEW x \in Held(c) \ {s} PROVE Same(c, x)
    BY <1>2, <2>2, <2>5, <2>7, <2>8 DEF Same, Uses, Counts
  <2>9. sock[s].refs + 1 = IF Uses(c, s)' THEN 2 ELSE IF Counts(c, s)' THEN 1 ELSE 0
    <3>1. sock[s].refs = IF Uses(c, s) THEN 2 ELSE IF Counts(c, s) THEN 1 ELSE 0
      BY <2>4, HeldByOne
    <3>2. ~Uses(c, s) /\ Counts(c, s) /\ Uses(c, s)' BY <1>2, <2>2, <2>3, <2>5 DEF Uses, Counts
    <3> QED BY <3>1, <3>2
  <2>10. client[c].pc # "append" BY <1>2
  <2>11. 1 \in Int OBVIOUS
  <2> QED BY <1>2, <2>1, <2>4, <2>5, <2>6, <2>7, <2>8, <2>9, <2>10, <2>11, OneReference
<1> QED BY <1>4, <1>5

\* InitialAcquire of a socket from the cache: it counts from now on, or is dropped if dead.
LEMMA StepOfInitialAcquire ==
    ASSUME SocketInv, NEW c \in Clients, InitialAcquire(c)
    PROVE  SocketInv'
<1>1. SessionOK(c) /\ DOMAIN client[c] = DOMAIN NoSession BY DEF SocketInv, SessionOK
<1>2. UNCHANGED <<srv, cluster, iteration>> /\ client[c].pc = "initial"
  BY DEF InitialAcquire, Is
<1>s. PICK s : s = client[c].s OBVIOUS
<1>3. /\ s # None /\ s \in Socks /\ s \notin {client[c].ms, client[c].ss} /\ client[c].ms = None
      /\ client[c].v \in Servers \ FreeServers
      /\ dead(s) \/ Home(s) = client[c].v
  BY <1>1, <1>2, <1>s DEF SessionOK, WithSocket, Acquiring
<1>4. s \in Held(c) BY <1>3, <1>s DEF Held
<1>5. sock[s].refs = 0 /\ ~Uses(c, s)
  <2>1. sock[s].refs = IF Uses(c, s) THEN 2 ELSE IF Counts(c, s) THEN 1 ELSE 0
    BY <1>4, HeldByOne
  <2>2. ~Uses(c, s) /\ ~Counts(c, s) BY <1>2, <1>3, <1>s DEF Uses, Counts
  <2> QED BY <2>1, <2>2
<1>f. FreeServers' = FreeServers BY <1>2 DEF FreeServers
<1>6. CASE dead(s)
  <2> DEFINE r == [client[c] EXCEPT !.pc = "get", !.s = None]
  <2>1. Set(c, r) /\ UNCHANGED sock BY <1>6, <1>s DEF InitialAcquire
  <2>2. /\ DOMAIN r = DOMAIN NoSession /\ r.pc = "get" /\ r.s = None /\ r.v = client[c].v
        /\ r.ms = client[c].ms /\ r.ss = client[c].ss
    BY <1>1 DEF NoSession
  <2> HIDE DEF r
  <2>3. /\ DOMAIN client' = Clients /\ client'[c] = r
        /\ \A d \in Clients \ {c} : client'[d] = client[d]
    BY <2>1, SetEffect
  <2>4. SessionOK(c)' BY <1>1, <1>3, <1>f, <2>2, <2>3 DEF SessionOK, WithSocket, Acquiring
  <2>5. Held(c) \ {s} \subseteq Held(c)' /\ Held(c)' \subseteq Held(c) BY <1>s, <2>2, <2>3 DEF Held
  <2>6. ASSUME NEW x \in Held(c) \ {s} PROVE Same(c, x)
    BY <1>2, <1>s, <2>2, <2>3, <2>5, <2>6 DEF Same, Uses, Counts, Held
  <2>7. ~Uses(c, s)' /\ ~Counts(c, s)' BY <1>3, <2>2, <2>3 DEF Uses, Counts
  <2>8. sock[s].refs + 0 = IF Uses(c, s)' THEN 2 ELSE IF Counts(c, s)' THEN 1 ELSE 0
    BY <1>5, <2>7
  <2>9. 0 \in Int OBVIOUS
  <2> QED BY <1>2, <1>4, <1>6, <2>1, <2>3, <2>4, <2>5, <2>6, <2>8, <2>9, OneReference
<1>7. CASE ~dead(s)
  <2> DEFINE r == [client[c] EXCEPT !.pc = Got(c)]
  <2>1. Set(c, r) /\ sock' = Refs(s, 1) BY <1>7, <1>s DEF InitialAcquire, To
  <2>2. Got(c) \in {"verify", "reserve"} BY DEF Got
  <2>3. /\ DOMAIN r = DOMAIN NoSession /\ r.pc \in {"verify", "reserve"} /\ r.s = s
        /\ r.v = client[c].v /\ r.ms = client[c].ms /\ r.ss = client[c].ss
    BY <1>1, <1>s, <2>2 DEF NoSession
  <2> HIDE DEF r
  <2>4. /\ DOMAIN client' = Clients /\ client'[c] = r
        /\ \A d \in Clients \ {c} : client'[d] = client[d]
    BY <2>1, SetEffect
  <2>h. Home(s)' = Home(s) /\ Home(s) = client[c].v
    <3>1. s \in Socks \ FreeSocks BY <1>4, HeldByOne
    <3>2. sock'[s].server = sock[s].server BY <2>1, <3>1, RefsEffect
    <3> QED BY <1>3, <1>7, <3>2 DEF Home
  <2>5. SessionOK(c)' BY <1>1, <1>3, <1>f, <2>3, <2>4, <2>h DEF SessionOK, WithSocket, Acquiring
  <2>6. Held(c)' = Held(c) BY <1>s, <2>3, <2>4 DEF Held
  <2>7. ASSUME NEW x \in Held(c) \ {s} PROVE Same(c, x)
    BY <1>2, <1>s, <2>3, <2>4, <2>6, <2>7 DEF Same, Uses, Counts
  <2>8. ~Uses(c, s)' /\ Counts(c, s)' BY <2>3, <2>4 DEF Uses, Counts
  <2>9. sock[s].refs + 1 = IF Uses(c, s)' THEN 2 ELSE IF Counts(c, s)' THEN 1 ELSE 0
    BY <1>5, <2>8
  <2>10. 1 \in Int OBVIOUS
  <2> QED BY <1>2, <1>4, <1>7, <2>1, <2>4, <2>5, <2>6, <2>7, <2>9, <2>10, OneReference
<1> QED BY <1>6, <1>7

\* A server that lost a socket is asked whether it is still master, before it is written to.
LEMMA StepOfVerify ==
    ASSUME SocketInv, NEW c \in Clients, Verify(c)
    PROVE  SocketInv'
<1>1. SessionOK(c) /\ DOMAIN client[c] = DOMAIN NoSession BY DEF SocketInv, SessionOK
<1>2. UNCHANGED <<srv, cluster, iteration>> /\ client[c].pc = "verify"
  BY DEF Verify, Is
<1>s. PICK s : s = client[c].s OBVIOUS
<1>3. /\ s # None /\ s \in Socks /\ s \notin {client[c].ms, client[c].ss} /\ client[c].ms = None
      /\ client[c].v \in Servers \ FreeServers
      /\ dead(s) \/ Home(s) = client[c].v
  BY <1>1, <1>2, <1>s DEF SessionOK, WithSocket, Acquiring
<1>4. CASE Confirmed(c)
  <2> DEFINE r == [client[c] EXCEPT !.pc = "reserve"]
  <2>1. Set(c, r) /\ UNCHANGED sock BY <1>4 DEF Verify, To
  <2>2. /\ DOMAIN r = DOMAIN NoSession /\ r.pc = "reserve" /\ r.v = client[c].v
        /\ r.ms = client[c].ms /\ r.ss = client[c].ss /\ r.s = client[c].s
    BY <1>1 DEF NoSession
  <2> HIDE DEF r
  <2> QED BY <1>2, <1>3, <2>1, <2>2, NextLine DEF WithSocket, Acquiring
<1>5. CASE ~Confirmed(c)
  <2>1. s \in Held(c) BY <1>3, <1>s DEF Held
  <2>2. sock[s].refs = 1
    <3>1. sock[s].refs = IF Uses(c, s) THEN 2 ELSE IF Counts(c, s) THEN 1 ELSE 0
      BY <2>1, HeldByOne
    <3>2. ~Uses(c, s) /\ Counts(c, s) BY <1>2, <1>s DEF Uses, Counts
    <3> QED BY <3>1, <3>2
  <2>3. sock' = Refs(s, -1) BY <1>5, <1>s DEF Verify
  <2>4. sock'[s].state = sock[s].state /\ sock'[s].server = sock[s].server
    <3>1. s \in Socks \ FreeSocks BY <2>1, HeldByOne
    <3> QED BY <2>3, <3>1, RefsEffect
  <2>5. /\ DOMAIN client' = Clients
        /\ \A d \in Clients \ {c} : client'[d] = client[d]
        /\ DOMAIN client'[c] = DOMAIN NoSession
        /\ client'[c].ms = client[c].ms /\ client'[c].ss = client[c].ss
        /\ IF dead(s) THEN client'[c].pc = "pick" /\ client'[c].s = None
                      ELSE /\ client'[c].pc = "recycle" /\ client'[c].s = s
                           /\ client'[c].v = client[c].v
    <3>1. CASE dead(s)
      <4> DEFINE r == [client[c] EXCEPT !.pc = "pick", !.s = None, !.v = None]
      <4>1. Set(c, r) BY <1>5, <1>s, <3>1 DEF Verify
      <4>2. /\ DOMAIN r = DOMAIN NoSession /\ r.pc = "pick" /\ r.s = None
            /\ r.ms = client[c].ms /\ r.ss = client[c].ss
        BY <1>1 DEF NoSession
      <4> HIDE DEF r
      <4> QED BY <3>1, <4>1, <4>2, SetEffect
    <3>2. CASE ~dead(s)
      <4> DEFINE r == [client[c] EXCEPT !.pc = "recycle"]
      <4>1. Set(c, r) BY <1>5, <1>s, <3>2 DEF Verify
      <4>2. /\ DOMAIN r = DOMAIN NoSession /\ r.pc = "recycle" /\ r.s = s /\ r.v = client[c].v
            /\ r.ms = client[c].ms /\ r.ss = client[c].ss
        BY <1>1, <1>s DEF NoSession
      <4> HIDE DEF r
      <4> QED BY <3>2, <4>1, <4>2, SetEffect
    <3> QED BY <3>1, <3>2
  <2>6. FreeServers' = FreeServers BY <1>2 DEF FreeServers
  <2>7. SessionOK(c)'
    BY <1>1, <1>3, <2>4, <2>5, <2>6 DEF SessionOK, WithSocket, Acquiring, dead, Home
  <2>8. Held(c) \ {s} \subseteq Held(c)' /\ Held(c)' \subseteq Held(c) BY <1>s, <2>5 DEF Held
  <2>9. ASSUME NEW x \in Held(c) \ {s} PROVE Same(c, x)
    BY <1>2, <1>s, <2>5, <2>8, <2>9 DEF Same, Uses, Counts, Held
  <2>10. ~Uses(c, s)' /\ ~Counts(c, s)' BY <1>3, <2>5 DEF Uses, Counts
  <2>11. sock[s].refs + (-1) = IF Uses(c, s)' THEN 2 ELSE IF Counts(c, s)' THEN 1 ELSE 0
    BY <2>2, <2>10
  <2>12. dead(s) \/ s \in Held(c)' BY <1>3, <2>5 DEF Held
  <2>13. -1 \in Int OBVIOUS
  <2> QED BY <1>2, <2>1, <2>3, <2>5, <2>7, <2>8, <2>9, <2>11, <2>12, <2>13, OneReference
<1> QED BY <1>4, <1>5

\* The operation is over and releases its reference; the session keeps its own.
LEMMA StepOfUse ==
    ASSUME SocketInv, NEW c \in Clients, Use(c)
    PROVE  SocketInv'
<1>1. SessionOK(c) BY DEF SocketInv
<1>2. UNCHANGED <<srv, cluster, iteration>> /\ client[c].pc = "use"
  BY DEF Use, Is
<1>s. PICK s : s = client[c].s OBVIOUS
<1>3. /\ s # None /\ s \in Socks /\ s \in {client[c].ms, client[c].ss}
  BY <1>1, <1>2, <1>s DEF SessionOK, WithSocket
<1>4. s \in Held(c) BY <1>3, <1>s DEF Held
<1>5. sock[s].refs = 2
  <2>1. sock[s].refs = IF Uses(c, s) THEN 2 ELSE IF Counts(c, s) THEN 1 ELSE 0
    BY <1>4, HeldByOne
  <2>2. Uses(c, s) BY <1>2, <1>s DEF Uses
  <2> QED BY <2>1, <2>2
<1>6. sock' = Refs(s, -1) BY <1>s DEF Use
<1>7. /\ DOMAIN client' = Clients /\ \A d \in Clients \ {c} : client'[d] = client[d]
      /\ DOMAIN client'[c] = DOMAIN NoSession
      /\ client'[c].ms = client[c].ms /\ client'[c].ss = client[c].ss
      /\ client'[c].s = None /\ client'[c].pc \in {"ready", "closing"}
  BY EndedEffect DEF Use
<1>8. SessionOK(c)' BY <1>1, <1>7 DEF SessionOK, WithSocket, Acquiring
<1>9. Held(c)' = Held(c) BY <1>3, <1>7, <1>s DEF Held
<1>10. ASSUME NEW x \in Held(c) \ {s} PROVE Same(c, x)
  BY <1>2, <1>s, <1>7, <1>9, <1>10 DEF Same, Uses, Counts
<1>11. ~Uses(c, s)' /\ Counts(c, s)' BY <1>3, <1>7 DEF Uses, Counts
<1>12. sock[s].refs + (-1) = IF Uses(c, s)' THEN 2 ELSE IF Counts(c, s)' THEN 1 ELSE 0
  BY <1>5, <1>11
<1>13. -1 \in Int OBVIOUS
<1> QED BY <1>2, <1>4, <1>6, <1>7, <1>8, <1>9, <1>10, <1>12, <1>13, OneReference

\* The session reserves its socket, or panics and loses the references.
LEMMA StepOfSetSocket ==
    ASSUME SocketInv, NEW c \in Clients, setSocket(c)
    PROVE  SocketInv'
<1>1. SessionOK(c) /\ DOMAIN client[c] = DOMAIN NoSession BY DEF SocketInv, SessionOK
<1>2. UNCHANGED <<srv, cluster, iteration>> /\ client[c].pc = "reserve"
  BY DEF setSocket, Is
<1>s. PICK s : s = client[c].s OBVIOUS
<1>3. /\ s # None /\ s \in Socks /\ s \notin {client[c].ms, client[c].ss} /\ client[c].ms = None
  BY <1>1, <1>2, <1>s DEF SessionOK, WithSocket, Acquiring
<1>4. s \in Held(c) BY <1>3, <1>s DEF Held
<1>5. sock[s].refs = 1
  <2>1. sock[s].refs = IF Uses(c, s) THEN 2 ELSE IF Counts(c, s) THEN 1 ELSE 0
    BY <1>4, HeldByOne
  <2>2. ~Uses(c, s) /\ Counts(c, s) BY <1>2, <1>s DEF Uses, Counts
  <2> QED BY <2>1, <2>2
<1>6. CASE isMaster(s) \/ client[c].ss = None
  <2> DEFINE q == [client[c] EXCEPT !.slaveOk = @ /\ client[c].op = "read", !.v = None]
             m == [q EXCEPT !.pc = "use", !.ms = s]
             n == [q EXCEPT !.pc = "use", !.ss = s]
  <2>1. (Set(c, m) \/ (Set(c, n) /\ client[c].ss = None)) /\ sock' = Refs(s, 1)
    BY <1>6, <1>s DEF setSocket
  <2>2. /\ DOMAIN m = DOMAIN NoSession /\ m.pc = "use" /\ m.s = s /\ m.ms = s /\ m.ss = client[c].ss
        /\ DOMAIN n = DOMAIN NoSession /\ n.pc = "use" /\ n.s = s /\ n.ms = client[c].ms /\ n.ss = s
    BY <1>1, <1>s DEF NoSession
  <2> HIDE DEF m, n
  <2>3. /\ DOMAIN client' = Clients
        /\ \A d \in Clients \ {c} : client'[d] = client[d]
        /\ DOMAIN client'[c] = DOMAIN NoSession /\ client'[c].pc = "use" /\ client'[c].s = s
        /\ \/ client'[c].ms = s /\ client'[c].ss = client[c].ss
           \/ client[c].ss = None /\ client'[c].ms = client[c].ms /\ client'[c].ss = s
    <3>1. CASE Set(c, m) BY <2>2, <3>1, SetEffect
    <3>2. CASE Set(c, n) /\ client[c].ss = None BY <2>2, <3>2, SetEffect
    <3> QED BY <2>1, <3>1, <3>2
  <2>4. SessionOK(c)' BY <1>1, <1>3, <2>3 DEF SessionOK, WithSocket, Acquiring
  <2>5. Held(c)' = Held(c) BY <1>3, <1>s, <2>3 DEF Held
  <2>6. ASSUME NEW x \in Held(c) \ {s} PROVE Same(c, x)
    <3>1. x # None /\ x # s /\ x = client[c].ss BY <1>3, <1>s, <2>6 DEF Held
    <3>2. ~Uses(c, x) /\ ~Uses(c, x)' BY <1>s, <2>3, <3>1 DEF Uses
    <3>3. Counts(c, x) /\ Counts(c, x)' BY <2>3, <3>1 DEF Counts
    <3> QED BY <1>2, <2>3, <2>5, <2>6, <3>2, <3>3 DEF Same
  <2>7. Uses(c, s)' BY <2>3 DEF Uses
  <2>8. sock[s].refs + 1 = IF Uses(c, s)' THEN 2 ELSE IF Counts(c, s)' THEN 1 ELSE 0
    BY <1>5, <2>7
  <2>9. 1 \in Int OBVIOUS
  <2> QED BY <1>2, <1>4, <2>1, <2>3, <2>4, <2>5, <2>6, <2>8, <2>9, OneReference
<1>7. CASE ~isMaster(s) /\ client[c].ss # None
  <2>1. /\ Ended(c, client[c], "panic")
        /\ sock' = [sock EXCEPT ![s].refs = @ + 1, ![s].lost = TRUE]
    BY <1>7, <1>s DEF setSocket
  <2>2. /\ DOMAIN client' = Clients /\ \A d \in Clients \ {c} : client'[d] = client[d]
        /\ DOMAIN client'[c] = DOMAIN NoSession
        /\ client'[c].ms = client[c].ms /\ client'[c].ss = client[c].ss
        /\ client'[c].s = None /\ client'[c].pc \in {"ready", "closing"}
    BY <2>1, EndedEffect
  <2>3. /\ s \in Socks \ FreeSocks /\ sock[s] \in SocketRecords /\ Cached(s) = {}
        /\ \A d \in Clients \ {c} : s \notin Held(d)
        /\ ~dead(s) => /\ Home(s) \in Servers \ FreeServers
                       /\ \/ s \in srv[Home(s)].live
                          \/ client[c].pc = "append" /\ client[c].s = s
    BY <1>4, HeldByOne
  <2>4. /\ sock' \in [Socks -> SocketRecords \cup {None}]
        /\ sock'[s] # None /\ sock'[s].refs = 2 /\ sock'[s].lost
        /\ sock'[s].state = sock[s].state /\ sock'[s].server = sock[s].server
        /\ \A x \in Socks \ {s} : sock'[x] = sock[x]
    <3> DEFINE p == [sock[s] EXCEPT !.refs = 2]
               r == [p EXCEPT !.lost = TRUE]
    <3>1. sock \in [Socks -> SocketRecords \cup {None}] BY DEF SocketInv
    <3>2. sock' = [sock EXCEPT ![s] = [sock[s] EXCEPT !.refs = @ + 1, !.lost = TRUE]]
      BY <2>1, <2>3, <3>1
    <3>3. [sock[s] EXCEPT !.refs = @ + 1, !.lost = TRUE] = r BY <1>5
    <3>4. /\ p \in SocketRecords /\ p.state = sock[s].state /\ p.server = sock[s].server /\ p.refs = 2
          /\ DOMAIN p = {"server", "state", "refs", "lost"}
      <4>1. DOMAIN sock[s] = {"server", "state", "refs", "lost"} BY <2>3, SocketRecord
      <4>2. p \in SocketRecords
        <5>1. 2 \in Int OBVIOUS
        <5> QED BY <2>3, <5>1, SocketRecord
      <4> QED BY <4>1, <4>2
    <3> HIDE DEF p
    <3>5. /\ r \in SocketRecords /\ r.state = p.state /\ r.server = p.server /\ r.refs = p.refs
          /\ r.lost = TRUE
      <4>1. r \in SocketRecords BY <3>4, SocketRecord
      <4>2. /\ r.state = p.state /\ r.server = p.server /\ r.refs = p.refs /\ r.lost = TRUE
        BY <3>4
      <4> QED BY <4>1, <4>2
    <3> HIDE DEF r
    <3>6. r # None BY <3>5, SocketRecord
    <3> QED BY <2>3, <3>1, <3>2, <3>3, <3>4, <3>5, <3>6
  <2>5. Cached(s)' = {} /\ FreeServers' = FreeServers BY <1>2, <2>3 DEF Cached, FreeServers
  <2>6. s \notin Held(c)' BY <1>3, <2>2 DEF Held
  <2>7. SessionOK(c)' BY <1>1, <2>2 DEF SessionOK, WithSocket, Acquiring
  <2>8. SocketOK(s)'
    <3>1. ~dead(s)' => /\ Home(s)' \in Servers \ FreeServers'
                       /\ s \in srv'[Home(s)'].live
      BY <1>2, <2>3, <2>4, <2>5 DEF dead, Home
    <3> QED BY <2>2, <2>3, <2>4, <2>5, <2>6, <3>1, Touched
  <2>9. \A x \in Socks \ {s} : Same(c, x) BY <1>2, <1>s, <2>2 DEF Same, Uses, Counts, Held
  <2> DEFINE T == {s}
  <2>10. \A x \in T : /\ sock'[x] # None /\ SocketOK(x)'
                      /\ \A d \in Clients \ {c} : x \notin Held(d)
    BY <2>3, <2>4, <2>8
  <2>11. T \in SUBSET Socks /\ \A x \in Socks \ T : sock'[x] = sock[x] /\ Same(c, x)
    BY <2>3, <2>4, <2>9
  <2>12. sock' \in [Socks -> SocketRecords \cup {None}] BY <2>4
  <2> HIDE DEF T
  <2> QED BY <1>2, <2>2, <2>7, <2>10, <2>11, <2>12, CallOnSocks
<1> QED BY <1>6, <1>7

(***************************************************************************)
(* Steps at servers.                                                       *)
(***************************************************************************)

\* One server changes.
LEMMA ServerEffect ==
    ASSUME SocketInv, NEW v \in Servers \ FreeServers, NEW r \in ServerRecords,
           srv' = [srv EXCEPT ![v] = r]
    PROVE  /\ srv' \in [Servers -> ServerRecords \cup {None}]
           /\ srv'[v] = r /\ r # None /\ FreeServers' = FreeServers
           /\ \A w \in Servers \ {v} : srv'[w] = srv[w]
<1>1. srv \in [Servers -> ServerRecords \cup {None}] BY DEF SocketInv
<1>2. r # None BY ServerRecord
<1>3. srv'[v] = r /\ \A w \in Servers \ {v} : srv'[w] = srv[w] BY <1>1
<1>4. srv' \in [Servers -> ServerRecords \cup {None}] BY <1>1
<1>5. FreeServers' = FreeServers BY <1>2, <1>3 DEF FreeServers
<1> QED BY <1>2, <1>3, <1>4, <1>5

\* A used server has its record.
LEMMA UsedServer ==
    ASSUME SocketInv, NEW v \in Servers \ FreeServers
    PROVE  srv[v] \in ServerRecords /\ CacheOK(v)
BY DEF SocketInv, FreeServers

\* The sessions of clients that go on as they were.
LEMMA SessionsCarried ==
    ASSUME SocketInv, NEW C \in SUBSET Clients,
           \A v \in Servers : Stays(v),
           \A x \in Socks \ FreeSocks : (\E c \in C : x \in Held(c)) => Remains(x),
           \A c \in C : Continues(c)
    PROVE  \A c \in C : SessionOK(c)'
<1> SUFFICES ASSUME NEW c \in C PROVE SessionOK(c)'
  OBVIOUS
<1>1. SessionOK(c) BY DEF SocketInv
<1>2. client[c].s # None => client[c].s \in Held(c) BY DEF Held
<1>3. client[c].s # None => client[c].s \in Socks \ FreeSocks BY <1>2, HeldByOne
<1>4. client[c].s # None => Remains(client[c].s) BY <1>2, <1>3
<1>5. Stays(client[c].v) BY DEF Stays
<1> QED BY <1>1, <1>4, <1>5, SessionCarried

\* A step at one server and the sockets T.
LEMMA OnServer ==
    ASSUME SocketInv, NEW v \in Servers \ FreeServers, NEW r \in ServerRecords,
           srv' = [srv EXCEPT ![v] = r],
           \A i, j \in DOMAIN r.unused : r.unused[i] = r.unused[j] => i = j,
           r.closed => r.live = {} /\ r.unused = <<>>,
           sock' \in [Socks -> SocketRecords \cup {None}],
           ServersInUse', DOMAIN client' = Clients, \A c \in Clients : SessionOK(c)',
           NEW T \in SUBSET Socks,
           \A x \in Socks \ T : /\ sock'[x] = sock[x] /\ \A c \in Clients : Same(c, x)
                                /\ Contains(r.unused, x) <=> Contains(srv[v].unused, x)
                                /\ x \in r.live <=> x \in srv[v].live,
           \A x \in T : sock'[x] # None /\ SocketOK(x)'
    PROVE  SocketInv'
<1>1. /\ srv' \in [Servers -> ServerRecords \cup {None}]
      /\ srv'[v] = r /\ r # None /\ FreeServers' = FreeServers
      /\ \A w \in Servers \ {v} : srv'[w] = srv[w]
  BY ServerEffect
<1>2. \A w \in Servers \ FreeServers' : CacheOK(w)' BY <1>1 DEF SocketInv, CacheOK
<1>3. \A x \in Socks \ T : Cached(x)' = Cached(x) /\ Live(x)' = Live(x)
  BY <1>1 DEF Cached, Live
<1>4. ASSUME NEW x \in Socks \ FreeSocks' PROVE SocketOK(x)'
  <2>1. CASE x \in T BY <2>1
  <2>2. CASE x \notin T
    <3>1. sock'[x] = sock[x] /\ SocketOK(x) BY <1>4, <2>2 DEF SocketInv, FreeSocks
    <3>2. ~dead(x) /\ Home(x) \in Servers \ FreeServers =>
              srv'[Home(x)] # None /\ (x \in srv[Home(x)].live => x \in srv'[Home(x)].live)
      BY <1>1, <2>2 DEF FreeServers
    <3> QED BY <1>3, <2>2, <3>1, <3>2, SocketCarried
  <2> QED BY <2>1, <2>2
<1>5. ASSUME NEW x \in FreeSocks' PROVE (Unreferenced(x) /\ Cached(x) \cup Live(x) = {})'
  <2>1. x \notin T /\ x \in FreeSocks BY <1>4, <1>5 DEF FreeSocks
  <2> QED BY <1>3, <2>1 DEF SocketInv, Unreferenced, Same, FreeSocks
<1> QED BY <1>1, <1>2, <1>4, <1>5 DEF SocketInv

\* A server keeps its sockets, or gives up all of them; a new one has none.
KeepsLists(v) == /\ srv'[v].live = srv[v].live /\ srv'[v].unused = srv[v].unused
                 /\ srv'[v].closed = srv[v].closed
Emptied(v) == srv'[v].live = {} /\ srv'[v].unused = <<>>
ServerGoesOn(v) == IF v \in FreeServers THEN srv'[v] = None \/ Emptied(v)
                   ELSE srv'[v] # None /\ (KeepsLists(v) \/ Emptied(v))
\* A socket dies, or lives on at a server that keeps it; its references stay.
SocketGoesOn(x) ==
    IF x \in FreeSocks THEN sock'[x] = None
    ELSE /\ sock'[x] # None /\ sock'[x].refs = sock[x].refs /\ sock'[x].lost = sock[x].lost
         /\ \/ dead(x)'
            \/ /\ ~dead(x) /\ Home(x)' = Home(x)
               /\ sock'[x].state = "open" => sock[x].state = "open"
               /\ \A v \in Servers \ FreeServers : x \in srv[v].live => KeepsLists(v)

\* A step that moves no reference and no socket from one holder to another.
LEMMA AroundSockets ==
    ASSUME SocketInv, srv' \in [Servers -> ServerRecords \cup {None}],
           sock' \in [Socks -> SocketRecords \cup {None}],
           ServersInUse', DOMAIN client' = Clients,
           \A c \in Clients : SessionOK(c)' /\ \A x \in Socks : Same(c, x),
           \A v \in Servers : ServerGoesOn(v), \A x \in Socks : SocketGoesOn(x)
    PROVE  SocketInv'
<1>1. ASSUME NEW v \in Servers \ FreeServers' PROVE CacheOK(v)'
  <2>1. CASE Emptied(v) BY <2>1 DEF Emptied, CacheOK
  <2>2. CASE KeepsLists(v) /\ v \notin FreeServers BY <2>2 DEF SocketInv, CacheOK, KeepsLists
  <2> QED BY <1>1, <2>1, <2>2 DEF ServerGoesOn, FreeServers
<1>2. FreeServers' \subseteq FreeServers BY DEF ServerGoesOn, FreeServers
<1>3. FreeSocks' = FreeSocks BY DEF SocketGoesOn, FreeSocks
<1>4. ASSUME NEW x \in Socks PROVE Cached(x)' \subseteq Cached(x) /\ Live(x)' \subseteq Live(x)
  BY DEF Cached, Live, ServerGoesOn, FreeServers, Emptied, KeepsLists, Contains
<1>5. ASSUME NEW x \in Socks \ FreeSocks PROVE SocketOK(x)'
  <2>1. SocketOK(x) BY DEF SocketInv
  <2>2. References(x)' = References(x) BY DEF References, Same
  <2>3. Unreferenced(x)' <=> Unreferenced(x) BY DEF Unreferenced, Same
  <2>4. \A c, d \in Clients : x \in Held(c)' \cap Held(d)' => x \in Held(c) \cap Held(d) BY DEF Same
  <2>5. Cached(x)' \subseteq Cached(x) BY <1>4
  <2>6. sock'[x].refs = sock[x].refs /\ sock'[x].lost = sock[x].lost BY DEF SocketGoesOn
  <2>7. CASE dead(x)'
    <3>1. sock'[x].state # "open" BY <2>7 DEF dead
    <3> QED BY <2>1, <2>2, <2>3, <2>4, <2>5, <2>6, <2>7, <3>1 DEF SocketOK
  <2>8. CASE ~ dead(x)'
    <3>1. /\ ~dead(x) /\ Home(x)' = Home(x)
          /\ sock'[x].state = "open" => sock[x].state = "open"
          /\ \A v \in Servers \ FreeServers : x \in srv[v].live => KeepsLists(v)
      BY <2>8 DEF SocketGoesOn
    <3>2. Home(x) \in Servers \ FreeServers /\ Cached(x) \subseteq {Home(x)} BY <2>1, <3>1 DEF SocketOK
    <3>3. \/ x \in srv[Home(x)].live
          \/ \E c \in Clients : client[c].pc = "append" /\ client[c].s = x
      BY <2>1, <3>1 DEF SocketOK
    <3>4. (Home(x) \in Servers \ FreeServers)' BY <1>2, <3>1, <3>2
    <3>5. \/ x \in srv'[Home(x)].live
          \/ \E c \in Clients : client'[c].pc = "append" /\ client'[c].s = x
      BY <3>1, <3>2, <3>3 DEF Same, KeepsLists
    <3>6. ASSUME Cached(x) # {} PROVE Cached(x)' # {}
      <4>1. Unreferenced(x) BY <2>1, <3>6 DEF SocketOK
      <4>2. ~ \E c \in Clients : client[c].pc = "append" /\ client[c].s = x
        BY <4>1, NoneAssumption DEF Unreferenced, Held
      <4>3. KeepsLists(Home(x)) BY <3>1, <3>2, <3>3, <4>2
      <4>4. Home(x) \in Cached(x) BY <3>2, <3>6
      <4> QED BY <3>1, <3>4, <4>3, <4>4 DEF Cached, KeepsLists
    <3> QED BY <2>1, <2>2, <2>3, <2>4, <2>5, <2>6, <2>8, <3>1, <3>2, <3>4, <3>5, <3>6 DEF SocketOK
  <2> QED BY <2>7, <2>8
<1>6. ASSUME NEW x \in FreeSocks PROVE (Unreferenced(x) /\ Cached(x) \cup Live(x) = {})'
  <2>1. x \in Socks /\ Unreferenced(x) /\ Cached(x) \cup Live(x) = {} BY DEF SocketInv, FreeSocks
  <2> QED BY <1>4, <2>1 DEF Unreferenced, Same
<1> QED BY <1>1, <1>3, <1>5, <1>6 DEF SocketInv

\* A step that leaves the cluster, the iteration and the use of the servers alone.
LEMMA InUseCarried ==
    ASSUME SocketInv, UNCHANGED <<cluster, iteration>>, FreeServers' = FreeServers
    PROVE  ServersInUse'
BY DEF SocketInv, ServersInUse, cluster, iteration, Unseen

\* The clients other than the one that calls, when their sockets are left alone.
LEMMA OthersCarried ==
    ASSUME SocketInv, NEW c \in Clients, FreeServers' = FreeServers,
           \A d \in Clients \ {c} : client'[d] = client[d],
           \A x \in Socks : (\E d \in Clients \ {c} : x \in Held(d)) => sock'[x] = sock[x]
    PROVE  \A d \in Clients \ {c} : SessionOK(d)'
<1> DEFINE C == Clients \ {c}
<1>1. C \in SUBSET Clients OBVIOUS
<1>2. \A v \in Servers : Stays(v) BY DEF Stays, FreeServers
<1>3. \A x \in Socks \ FreeSocks : (\E d \in C : x \in Held(d)) => Remains(x)
  BY DEF Remains, FreeSocks, dead, Home
<1>4. \A d \in C : Continues(d) BY DEF Continues
<1> HIDE DEF C
<1>5. \A d \in C : SessionOK(d)' BY <1>1, <1>2, <1>3, <1>4, SessionsCarried
<1> QED BY <1>5 DEF C

\* The socket at the end of a cache comes out of it.
LEMMA FrontEffect ==
    ASSUME NEW q \in Seq(Socks), q # <<>>, \A i, j \in DOMAIN q : q[i] = q[j] => i = j
    PROVE  /\ Front(q) \in Seq(Socks) /\ Last(q) \in Socks /\ Contains(q, Last(q))
           /\ \A i, j \in DOMAIN Front(q) : Front(q)[i] = Front(q)[j] => i = j
           /\ \A x : Contains(Front(q), x) <=> Contains(q, x) /\ x # Last(q)
<1> DEFINE n == Len(q)
           f == Front(q)
<1>1. n \in Nat /\ n >= 1 /\ DOMAIN q = 1 .. n /\ Last(q) = q[n] BY DEF Last
<1>2. /\ f \in Seq(Socks) /\ Len(f) = n - 1 /\ DOMAIN f = 1 .. n - 1
      /\ \A i \in 1 .. n - 1 : f[i] = q[i]
  BY <1>1 DEF Front
<1> HIDE DEF n, f
<1>3. \A i, j \in DOMAIN f : f[i] = f[j] => i = j BY <1>1, <1>2
<1>4. ASSUME NEW x, Contains(f, x) PROVE Contains(q, x) /\ x # Last(q)
  BY <1>1, <1>2, <1>4 DEF Contains
<1>5. ASSUME NEW x, Contains(q, x), x # Last(q) PROVE Contains(f, x)
  BY <1>1, <1>2, <1>5 DEF Contains
<1> QED BY <1>1, <1>2, <1>3, <1>4, <1>5 DEF f, Contains

\* A socket in a cache is nobody's, has no reference and is in no other cache.
LEMMA CachedByOne ==
    ASSUME SocketInv, NEW v \in Servers \ FreeServers, NEW s \in Socks, Contains(srv[v].unused, s)
    PROVE  /\ s \in Socks \ FreeSocks /\ sock[s] \in SocketRecords /\ SocketOK(s)
           /\ ~sock[s].lost /\ sock[s].refs = 0 /\ Cached(s) = {v}
           /\ \A c \in Clients : s \notin Held(c) /\ ~Uses(c, s) /\ ~Counts(c, s)
           /\ ~dead(s) => Home(s) = v /\ s \in srv[v].live
<1>1. v \in Cached(s) BY DEF Cached
<1>2. s \in Socks \ FreeSocks BY <1>1 DEF SocketInv
<1>3. SocketOK(s) /\ sock[s] \in SocketRecords BY <1>2 DEF SocketInv, FreeSocks
<1>4. ~sock[s].lost /\ Cached(s) = {v} /\ Unreferenced(s) BY <1>1, <1>3 DEF SocketOK
<1>5. \A c \in Clients : s \notin Held(c) /\ ~Uses(c, s) /\ ~Counts(c, s)
  BY <1>4, NoneAssumption DEF Unreferenced, Held, Uses, Counts
<1>6. sock[s].refs = 0 BY <1>3, <1>4, <1>5 DEF SocketOK, References
<1>7. ~ \E c \in Clients : client[c].pc = "append" /\ client[c].s = s
  BY <1>5, NoneAssumption DEF Held
<1>8. ~dead(s) => Home(s) = v /\ s \in srv[v].live BY <1>3, <1>4, <1>7 DEF SocketOK
<1> QED BY <1>2, <1>3, <1>4, <1>5, <1>6, <1>8

\* server.AcquireSocket: the server is closed, or gives a socket from its cache, or none.
LEMMA StepOfGet ==
    ASSUME SocketInv, NEW c \in Clients, Get(c)
    PROVE  SocketInv'
<1>1. SessionOK(c) /\ DOMAIN client[c] = DOMAIN NoSession BY DEF SocketInv, SessionOK
<1>2. UNCHANGED <<sock, cluster, iteration>> /\ client[c].pc = "get" BY DEF Get, Is
<1>v. PICK v : v = client[c].v OBVIOUS
<1>3. v \in Servers \ FreeServers /\ client[c].ms = None /\ client[c].s = None
  BY <1>1, <1>2, <1>v DEF SessionOK, Acquiring, WithSocket
<1>4. srv[v] \in ServerRecords /\ CacheOK(v) BY <1>3, UsedServer
<1> DEFINE q == [client[c] EXCEPT !.abended = srv[v].abended]
<1>q. /\ DOMAIN q = DOMAIN NoSession /\ q.v = v /\ q.s = client[c].s
      /\ q.ms = client[c].ms /\ q.ss = client[c].ss
  BY <1>1, <1>v DEF NoSession
<1> HIDE DEF q
<1>5. CASE UNCHANGED srv /\ \E p \in {"drop", "connect"} : Set(c, [q EXCEPT !.pc = p])
  <2>1. PICK p \in {"drop", "connect"} : Set(c, [q EXCEPT !.pc = p]) BY <1>5
  <2> DEFINE r == [q EXCEPT !.pc = p]
  <2>2. /\ DOMAIN r = DOMAIN NoSession /\ r.pc \in {"drop", "connect"} /\ r.v = v
        /\ r.s = client[c].s /\ r.ms = client[c].ms /\ r.ss = client[c].ss
    BY <1>q DEF NoSession
  <2>3. UNCHANGED <<srv, sock, cluster, iteration>> /\ Set(c, r) BY <1>2, <1>5, <2>1
  <2> HIDE DEF r
  <2> QED BY <1>2, <1>3, <1>v, <2>2, <2>3, NextLine DEF WithSocket, Acquiring
<1>6. CASE /\ ~srv[v].closed /\ srv[v].unused # <<>> /\ srv' = Popped(v)
           /\ Set(c, [q EXCEPT !.pc = "initial", !.s = Last(srv[v].unused)])
  <2> DEFINE u == srv[v].unused
             r == [q EXCEPT !.pc = "initial", !.s = Last(u)]
             w == [srv[v] EXCEPT !.unused = Front(u)]
             T == {Last(u)}
  <2>s. PICK s : s = Last(u) OBVIOUS
  <2>1. /\ u \in Seq(Socks) /\ \A i, j \in DOMAIN u : u[i] = u[j] => i = j
    BY <1>4, ServerRecord DEF CacheOK
  <2>2. /\ Front(u) \in Seq(Socks) /\ s \in Socks /\ Contains(u, s)
        /\ \A i, j \in DOMAIN Front(u) : Front(u)[i] = Front(u)[j] => i = j
        /\ \A x : Contains(Front(u), x) <=> Contains(u, x) /\ x # s
    BY <1>6, <2>1, <2>s, FrontEffect
  <2>3. /\ s \in Socks \ FreeSocks /\ sock[s] \in SocketRecords
        /\ ~sock[s].lost /\ sock[s].refs = 0 /\ Cached(s) = {v}
        /\ \A d \in Clients : s \notin Held(d) /\ ~Uses(d, s) /\ ~Counts(d, s)
        /\ ~dead(s) => Home(s) = v /\ s \in srv[v].live
    BY <1>3, <2>2, CachedByOne
  <2>4. /\ DOMAIN r = DOMAIN NoSession /\ r.pc = "initial" /\ r.s = s /\ r.v = v
        /\ r.ms = client[c].ms /\ r.ss = client[c].ss
    BY <1>q, <2>s DEF NoSession
  <2>5. /\ w \in ServerRecords /\ w.unused = Front(u) /\ w.live = srv[v].live /\ w.closed = srv[v].closed
    <3>1. w \in ServerRecords BY <1>4, <2>2, ServerRecord
    <3>2. DOMAIN srv[v] = {"closed", "master", "abended", "live", "unused"} BY <1>4, ServerRecord
    <3> QED BY <3>1, <3>2
  <2>6. srv' = [srv EXCEPT ![v] = w]
    <3>1. DOMAIN srv = Servers BY DEF SocketInv
    <3> QED BY <1>6, <3>1 DEF Popped
  <2> HIDE DEF r, w
  <2>7. /\ DOMAIN client' = Clients /\ client'[c] = r
        /\ \A d \in Clients \ {c} : client'[d] = client[d]
    BY <1>6, SetEffect DEF r
  <2>8. /\ srv'[v] = w /\ FreeServers' = FreeServers
        /\ \A x \in Servers \ {v} : srv'[x] = srv[x]
    BY <1>3, <2>5, <2>6, ServerEffect
  <2>9. \A d \in Clients \ {c} : SessionOK(d)' BY <1>2, <2>7, <2>8, OthersCarried
  <2>10. SessionOK(c)'
    <3>1. s # None BY <2>2, NoneAssumption
    <3>2. s \notin {client[c].ms, client[c].ss} BY <2>3, <3>1 DEF Held
    <3>3. dead(s)' = dead(s) /\ Home(s)' = Home(s) BY <1>2 DEF dead, Home
    <3> QED BY <1>1, <1>3, <2>2, <2>3, <2>4, <2>7, <2>8, <3>1, <3>2, <3>3
        DEF SessionOK, WithSocket, Acquiring
  <2>11. ServersInUse' BY <1>2, <2>8, InUseCarried
  <2>12. Cached(s)' = {}
    <3>1. v \notin Cached(s)' BY <2>2, <2>5, <2>8 DEF Cached
    <3>2. \A x \in Servers \ {v} : x \in Cached(s)' => x \in Cached(s) BY <2>8 DEF Cached
    <3> QED BY <2>3, <3>1, <3>2 DEF Cached
  <2>13. SocketOK(s)'
    <3>1. ~Uses(c, s)' /\ ~Counts(c, s)' /\ s \in Held(c)'
      <4>1. s # None BY <2>2, NoneAssumption
      <4>2. s \notin {client[c].ms, client[c].ss} BY <2>3, <4>1 DEF Held
      <4> QED BY <2>4, <2>7, <4>1, <4>2 DEF Uses, Counts, Held
    <3>2. ~dead(s)' => Home(s)' \in Servers \ FreeServers' /\ s \in srv'[Home(s)'].live
      BY <1>2, <1>3, <2>3, <2>5, <2>8 DEF dead, Home
    <3> QED BY <1>2, <2>3, <2>7, <2>12, <3>1, <3>2, Touched
  <2>14. ASSUME NEW x \in Socks \ T
         PROVE  /\ sock'[x] = sock[x] /\ \A d \in Clients : Same(d, x)
                /\ Contains(w.unused, x) <=> Contains(srv[v].unused, x)
                /\ x \in w.live <=> x \in srv[v].live
    <3>1. x # None /\ x # s BY <2>s, NoneAssumption
    <3>2. Same(c, x) BY <1>2, <1>3, <2>4, <2>7, <3>1 DEF Same, Held, Uses, Counts
    <3>3. \A d \in Clients \ {c} : Same(d, x) BY <2>7 DEF Same, Held, Uses, Counts
    <3> QED BY <1>2, <2>2, <2>5, <3>1, <3>2, <3>3
  <2>15. T \in SUBSET Socks /\ \A x \in T : sock'[x] # None /\ SocketOK(x)'
    BY <1>2, <2>2, <2>3, <2>13, <2>s DEF FreeSocks
  <2>16. /\ \A i, j \in DOMAIN w.unused : w.unused[i] = w.unused[j] => i = j
         /\ ~w.closed
    BY <1>6, <2>2, <2>5
  <2>17. sock' \in [Socks -> SocketRecords \cup {None}] BY <1>2 DEF SocketInv
  <2>18. \A d \in Clients : SessionOK(d)' BY <2>9, <2>10
  <2> HIDE DEF T
  <2> QED BY <1>3, <2>5, <2>6, <2>7, <2>11, <2>14, <2>15, <2>16, <2>17, <2>18, OnServer
<1> QED BY <1>5, <1>6, <1>v DEF Get, q

\* A call at server v that moves the socket s its client has.
LEMMA CallOnServer ==
    ASSUME SocketInv, NEW c \in Clients, UNCHANGED <<sock, cluster, iteration>>,
           NEW v \in Servers \ FreeServers, NEW r \in ServerRecords, srv' = [srv EXCEPT ![v] = r],
           \A i, j \in DOMAIN r.unused : r.unused[i] = r.unused[j] => i = j, ~r.closed,
           DOMAIN client' = Clients, \A d \in Clients \ {c} : client'[d] = client[d],
           SessionOK(c)', NEW s \in Held(c), SocketOK(s)',
           \A x \in Socks \ {s} : /\ Same(c, x)
                                  /\ Contains(r.unused, x) <=> Contains(srv[v].unused, x)
                                  /\ x \in r.live <=> x \in srv[v].live
    PROVE  SocketInv'
<1> DEFINE T == {s}
<1>1. FreeServers' = FreeServers BY ServerEffect
<1>2. s \in Socks /\ sock[s] # None BY HeldByOne DEF FreeSocks
<1>3. \A d \in Clients \ {c} : SessionOK(d)' BY <1>1, OthersCarried
<1>4. \A d \in Clients : SessionOK(d)' BY <1>3
<1>5. ServersInUse' BY <1>1, InUseCarried
<1>6. ASSUME NEW x \in Socks \ T
      PROVE  /\ sock'[x] = sock[x] /\ \A d \in Clients : Same(d, x)
             /\ Contains(r.unused, x) <=> Contains(srv[v].unused, x)
             /\ x \in r.live <=> x \in srv[v].live
  <2>1. \A d \in Clients \ {c} : Same(d, x) BY DEF Same, Held, Uses, Counts
  <2> QED BY <2>1
<1>7. T \in SUBSET Socks /\ \A x \in T : sock'[x] # None /\ SocketOK(x)' BY <1>2
<1>8. sock' \in [Socks -> SocketRecords \cup {None}] BY DEF SocketInv
<1> HIDE DEF T
<1> QED BY <1>4, <1>5, <1>6, <1>7, <1>8, OnServer

\* A new connection: the socket is its client's, and not yet in its server's list.
LEMMA StepOfConnect ==
    ASSUME SocketInv, NEW c \in Clients, Connect(c)
    PROVE  SocketInv'
<1>1. SessionOK(c) /\ DOMAIN client[c] = DOMAIN NoSession BY DEF SocketInv, SessionOK
<1>2. UNCHANGED <<srv, cluster, iteration>> /\ client[c].pc = "connect" BY DEF Connect, Is
<1>3. client[c].v \in Servers \ FreeServers /\ client[c].ms = None /\ client[c].s = None
  BY <1>1, <1>2 DEF SessionOK, Acquiring, WithSocket
<1>4. CASE To(c, "drop") /\ UNCHANGED sock
  <2> DEFINE r == [client[c] EXCEPT !.pc = "drop"]
  <2>1. /\ DOMAIN r = DOMAIN NoSession /\ r.pc = "drop" /\ r.v = client[c].v
        /\ r.s = client[c].s /\ r.ms = client[c].ms /\ r.ss = client[c].ss
    BY <1>1 DEF NoSession
  <2>2. UNCHANGED <<srv, sock, cluster, iteration>> /\ Set(c, r) BY <1>2, <1>4 DEF To
  <2> HIDE DEF r
  <2> QED BY <1>2, <1>3, <2>1, <2>2, NextLine DEF WithSocket, Acquiring
<1>5. ASSUME NEW s \in Free(c, FreeSocks), sock' = [sock EXCEPT ![s] = newSocket(client[c].v)],
             Set(c, [client[c] EXCEPT !.pc = "append", !.s = s])
      PROVE  SocketInv'
  <2> DEFINE r == [client[c] EXCEPT !.pc = "append", !.s = s]
             n == newSocket(client[c].v)
             T == {s}
  <2>1. s \in FreeSocks /\ s \in Socks /\ s # None BY NoneAssumption DEF Free, FreeSocks
  <2>2. Cached(s) = {} /\ \A d \in Clients : s \notin Held(d)
    BY <2>1 DEF SocketInv, Unreferenced
  <2>3. /\ DOMAIN r = DOMAIN NoSession /\ r.pc = "append" /\ r.s = s /\ r.v = client[c].v
        /\ r.ms = client[c].ms /\ r.ss = client[c].ss
    BY <1>1 DEF NoSession
  <2>4. /\ n \in SocketRecords /\ n # None /\ n.refs = 1 /\ n.lost = FALSE
        /\ n.state = "open" /\ n.server = client[c].v
    <3>1. n \in SocketRecords BY <1>3, NewRecords
    <3>2. n # None BY <3>1, SocketRecord
    <3> QED BY <3>1, <3>2 DEF newSocket
  <2> HIDE DEF r, n
  <2>5. /\ sock' \in [Socks -> SocketRecords \cup {None}] /\ sock'[s] = n
        /\ \A x \in Socks \ {s} : sock'[x] = sock[x]
    <3>1. sock \in [Socks -> SocketRecords \cup {None}] BY DEF SocketInv
    <3>2. sock' = [sock EXCEPT ![s] = n] BY <1>5 DEF n
    <3> QED BY <2>1, <2>4, <3>1, <3>2
  <2>6. /\ DOMAIN client' = Clients /\ client'[c] = r
        /\ \A d \in Clients \ {c} : client'[d] = client[d]
    BY <1>5, SetEffect DEF r
  <2>7. FreeServers' = FreeServers /\ Cached(s)' = {} BY <1>2, <2>2 DEF FreeServers, Cached
  <2>8. s \notin {client[c].ms, client[c].ss} BY <2>1, <2>2 DEF Held
  <2>9. SessionOK(c)'
    BY <1>1, <1>3, <2>1, <2>3, <2>4, <2>5, <2>6, <2>7, <2>8
    DEF SessionOK, WithSocket, Acquiring, Home
  <2>10. SocketOK(s)'
    <3>1. ~Uses(c, s)' /\ Counts(c, s)' /\ s \in Held(c)' BY <2>1, <2>3, <2>6 DEF Uses, Counts, Held
    <3>2. (Home(s) = client[c].v)' => Home(s)' = client'[c].v BY DEF Home
    <3>3. Home(s)' = client[c].v /\ ~dead(s)' BY <2>4, <2>5 DEF Home, dead
    <3>4. sock'[s].refs = 1 /\ ~sock'[s].lost BY <2>4, <2>5
    <3>5. client'[c].pc = "append" /\ client'[c].s = s BY <2>3, <2>6
    <3> QED BY <1>3, <2>1, <2>2, <2>6, <2>7, <3>1, <3>3, <3>4, <3>5, Touched
  <2>11. ASSUME NEW x \in Socks \ T PROVE sock'[x] = sock[x] /\ Same(c, x)
    <3>1. x # s /\ x # None BY NoneAssumption
    <3>2. Same(c, x) BY <1>2, <1>3, <2>3, <2>6, <3>1 DEF Same, Held, Uses, Counts
    <3> QED BY <2>5, <3>1, <3>2
  <2>12. T \in SUBSET Socks BY <2>1
  <2>13. \A x \in T : /\ sock'[x] # None /\ SocketOK(x)'
                      /\ \A d \in Clients \ {c} : x \notin Held(d)
    BY <2>2, <2>4, <2>5, <2>10
  <2>14. sock' \in [Socks -> SocketRecords \cup {None}] BY <2>5
  <2> HIDE DEF T
  <2> QED BY <1>2, <2>6, <2>9, <2>11, <2>12, <2>13, <2>14, CallOnSocks
<1> QED BY <1>4, <1>5 DEF Connect

\* The new socket goes into its server's list, or is killed: the server was closed meanwhile.
LEMMA StepOfAppendLive ==
    ASSUME SocketInv, NEW c \in Clients, AppendLive(c)
    PROVE  SocketInv'
<1>1. SessionOK(c) /\ DOMAIN client[c] = DOMAIN NoSession BY DEF SocketInv, SessionOK
<1>2. UNCHANGED <<cluster, iteration>> /\ client[c].pc = "append" BY DEF AppendLive, Is
<1>s. PICK s : s = client[c].s OBVIOUS
<1>v. PICK v : v = client[c].v OBVIOUS
<1>3. /\ v \in Servers \ FreeServers /\ client[c].ms = None
      /\ s # None /\ s \in Socks /\ s \notin {client[c].ms, client[c].ss}
      /\ dead(s) \/ Home(s) = v
  BY <1>1, <1>2, <1>s, <1>v DEF SessionOK, Acquiring, WithSocket
<1>4. s \in Held(c) BY <1>3, <1>s DEF Held
<1>5. /\ s \in Socks \ FreeSocks /\ sock[s] \in SocketRecords
      /\ ~sock[s].lost /\ Cached(s) = {} /\ \A d \in Clients \ {c} : s \notin Held(d)
      /\ sock[s].refs = 1
  <2>1. sock[s].refs = IF Uses(c, s) THEN 2 ELSE IF Counts(c, s) THEN 1 ELSE 0
    BY <1>4, HeldByOne
  <2>2. ~Uses(c, s) /\ Counts(c, s) BY <1>2, <1>s DEF Uses, Counts
  <2> QED BY <1>4, <2>1, <2>2, HeldByOne
<1>6. CASE Gone(v)
  <2> DEFINE r == [client[c] EXCEPT !.pc = "drop", !.s = None]
             T == {s}
  <2>1. /\ sock' = [sock EXCEPT ![s].refs = @ - 1, ![s].state = "dead", ![s].server = None]
        /\ Set(c, r) /\ UNCHANGED srv
    BY <1>6, <1>s, <1>v DEF AppendLive
  <2>2. /\ DOMAIN r = DOMAIN NoSession /\ r.pc = "drop" /\ r.s = None /\ r.v = v
        /\ r.ms = client[c].ms /\ r.ss = client[c].ss
    BY <1>1, <1>v DEF NoSession
  <2> HIDE DEF r
  <2>3. /\ DOMAIN client' = Clients /\ client'[c] = r
        /\ \A d \in Clients \ {c} : client'[d] = client[d]
    BY <2>1, SetEffect
  <2>4. /\ sock' \in [Socks -> SocketRecords \cup {None}]
        /\ sock'[s] # None /\ sock'[s].refs = 0 /\ ~sock'[s].lost /\ sock'[s].state = "dead"
        /\ \A x \in Socks \ {s} : sock'[x] = sock[x]
    <3> DEFINE p == [sock[s] EXCEPT !.refs = 0]
               q == [p EXCEPT !.state = "dead"]
               d == [q EXCEPT !.server = None]
    <3>1. sock \in [Socks -> SocketRecords \cup {None}] BY DEF SocketInv
    <3>2. sock' = [sock EXCEPT ![s] = [sock[s] EXCEPT !.refs = @ - 1, !.state = "dead", !.server = None]]
      BY <1>5, <2>1, <3>1
    <3>3. [sock[s] EXCEPT !.refs = @ - 1, !.state = "dead", !.server = None] = d BY <1>5
    <3>d. DOMAIN sock[s] = {"server", "state", "refs", "lost"} BY <1>5, SocketRecord
    <3>4. p \in SocketRecords /\ p.refs = 0 /\ p.lost = sock[s].lost
      <4>1. 0 \in Int OBVIOUS
      <4>2. p \in SocketRecords BY <1>5, <4>1, SocketRecord
      <4> QED BY <3>d, <4>2
    <3> HIDE DEF p
    <3>5. q \in SocketRecords /\ q.refs = 0 /\ q.lost = p.lost /\ q.state = "dead"
      <4>1. "dead" \in SocketStates BY DEF SocketStates
      <4>2. q \in SocketRecords BY <3>4, <4>1, SocketRecord
      <4>3. DOMAIN p = {"server", "state", "refs", "lost"} BY <3>4, SocketRecord
      <4> QED BY <3>4, <4>2, <4>3
    <3> HIDE DEF q
    <3>6. d \in SocketRecords /\ d.refs = 0 /\ d.lost = q.lost /\ d.state = "dead"
      <4>1. d \in SocketRecords BY <3>5, SocketRecord
      <4>2. DOMAIN q = {"server", "state", "refs", "lost"} BY <3>5, SocketRecord
      <4> QED BY <3>5, <4>1, <4>2
    <3> HIDE DEF d
    <3>7. d # None BY <3>6, SocketRecord
    <3> QED BY <1>5, <3>1, <3>2, <3>3, <3>4, <3>5, <3>6, <3>7
  <2>5. FreeServers' = FreeServers /\ Cached(s)' = {} BY <1>5, <2>1 DEF FreeServers, Cached
  <2>6. SessionOK(c)' BY <1>1, <1>3, <2>2, <2>3, <2>5 DEF SessionOK, WithSocket, Acquiring
  <2>7. SocketOK(s)'
    <3>1. s \notin Held(c)' /\ ~Uses(c, s)' /\ ~Counts(c, s)'
      BY <1>3, <2>2, <2>3 DEF Held, Uses, Counts
    <3>2. dead(s)' /\ sock'[s].state # "open" BY <2>4 DEF dead
    <3> QED BY <1>5, <2>3, <2>4, <2>5, <3>1, <3>2, Touched
  <2>8. ASSUME NEW x \in Socks \ T PROVE sock'[x] = sock[x] /\ Same(c, x)
    <3>1. x # s /\ x # None BY NoneAssumption
    <3>2. Same(c, x) BY <1>s, <2>2, <2>3, <3>1 DEF Same, Held, Uses, Counts
    <3> QED BY <2>4, <3>1, <3>2
  <2>9. T \in SUBSET Socks BY <1>3
  <2>10. \A x \in T : /\ sock'[x] # None /\ SocketOK(x)'
                      /\ \A d \in Clients \ {c} : x \notin Held(d)
    BY <1>5, <2>4, <2>7
  <2>11. sock' \in [Socks -> SocketRecords \cup {None}] BY <2>4
  <2>12. UNCHANGED <<srv, cluster, iteration>> BY <1>2, <2>1
  <2> HIDE DEF T
  <2> QED BY <2>3, <2>6, <2>8, <2>9, <2>10, <2>11, <2>12, CallOnSocks
<1>7. CASE ~Gone(v)
  <2> DEFINE r == [client[c] EXCEPT !.pc = Got(c)]
             L == srv[v].live \cup {s}
             w == [srv[v] EXCEPT !.live = L]
  <2>1. Set(c, r) /\ UNCHANGED sock BY <1>7, <1>v DEF AppendLive, To
  <2>2. srv' = [srv EXCEPT ![v] = w]
    <3>1. DOMAIN srv = Servers BY DEF SocketInv
    <3>2. srv' = [srv EXCEPT ![v].live = @ \cup {s}] BY <1>7, <1>s, <1>v DEF AppendLive
    <3> QED BY <1>3, <3>1, <3>2
  <2>3. Got(c) \in {"verify", "reserve"} BY DEF Got
  <2>4. /\ DOMAIN r = DOMAIN NoSession /\ r.pc \in {"verify", "reserve"} /\ r.s = s
        /\ r.v = v /\ r.ms = client[c].ms /\ r.ss = client[c].ss
    BY <1>1, <1>s, <1>v, <2>3 DEF NoSession
  <2>5. srv[v] \in ServerRecords /\ CacheOK(v) BY <1>3, UsedServer
  <2>6. w \in ServerRecords /\ w.live = L /\ w.unused = srv[v].unused /\ w.closed = srv[v].closed
    <3>1. DOMAIN srv[v] = {"closed", "master", "abended", "live", "unused"} /\ srv[v].live \subseteq Socks
      BY <2>5, ServerRecord
    <3>2. L \in SUBSET Socks BY <1>3, <3>1
    <3> HIDE DEF L
    <3>3. w \in ServerRecords BY <2>5, <3>2, ServerRecord
    <3> QED BY <3>1, <3>3
  <2> HIDE DEF r, w
  <2>7. /\ DOMAIN client' = Clients /\ client'[c] = r
        /\ \A d \in Clients \ {c} : client'[d] = client[d]
    BY <2>1, SetEffect
  <2>8. /\ srv'[v] = w /\ FreeServers' = FreeServers
        /\ \A x \in Servers \ {v} : srv'[x] = srv[x]
    BY <1>3, <2>2, <2>6, ServerEffect
  <2>9. dead(s)' = dead(s) /\ Home(s)' = Home(s) BY <2>1 DEF dead, Home
  <2>10. SessionOK(c)'
    BY <1>1, <1>3, <2>4, <2>7, <2>8, <2>9 DEF SessionOK, WithSocket, Acquiring
  <2>11. Cached(s)' = {} BY <1>5, <2>6, <2>8 DEF Cached
  <2>12. SocketOK(s)'
    <3>1. s \in Held(c)' /\ ~Uses(c, s)' /\ Counts(c, s)'
      BY <1>3, <2>4, <2>7 DEF Held, Uses, Counts
    <3>2. ~dead(s)' => Home(s)' \in Servers \ FreeServers' /\ s \in srv'[Home(s)'].live
      BY <1>3, <2>6, <2>8, <2>9
    <3> QED BY <1>5, <2>1, <2>7, <2>11, <3>1, <3>2, Touched
  <2>13. ASSUME NEW x \in Socks \ {s}
         PROVE  /\ Same(c, x)
                /\ Contains(w.unused, x) <=> Contains(srv[v].unused, x)
                /\ x \in w.live <=> x \in srv[v].live
    <3>1. Same(c, x) BY <1>s, <1>2, <2>4, <2>7 DEF Same, Held, Uses, Counts
    <3> QED BY <2>6, <3>1
  <2>14. /\ \A i, j \in DOMAIN w.unused : w.unused[i] = w.unused[j] => i = j
         /\ ~w.closed
    BY <1>7, <2>5, <2>6 DEF CacheOK, Gone
  <2>15. UNCHANGED <<sock, cluster, iteration>> BY <1>2, <2>1
  <2> QED BY <1>3, <1>4, <2>2, <2>6, <2>7, <2>10, <2>12, <2>13, <2>14, <2>15, CallOnServer
<1> QED BY <1>6, <1>7

\* A socket goes on top of a cache that does not have it.
LEMMA AppendEffect ==
    ASSUME NEW q \in Seq(Socks), NEW s \in Socks, ~Contains(q, s),
           \A i, j \in DOMAIN q : q[i] = q[j] => i = j
    PROVE  /\ Append(q, s) \in Seq(Socks) /\ Contains(Append(q, s), s)
           /\ \A i, j \in DOMAIN Append(q, s) : Append(q, s)[i] = Append(q, s)[j] => i = j
           /\ \A x : x # s => (Contains(Append(q, s), x) <=> Contains(q, x))
<1> DEFINE a == Append(q, s)
           n == Len(q)
<1>1. n \in Nat /\ DOMAIN q = 1 .. n OBVIOUS
<1>2. /\ a \in Seq(Socks) /\ DOMAIN a = 1 .. n + 1 /\ Len(a) = n + 1 /\ a[n + 1] = s
      /\ \A i \in 1 .. n : a[i] = q[i]
  BY <1>1
<1> HIDE DEF a, n
<1>3. \A i \in 1 .. n : q[i] # s BY <1>1 DEF Contains
<1>4. \A i, j \in DOMAIN a : a[i] = a[j] => i = j
  <2> SUFFICES ASSUME NEW i \in DOMAIN a, NEW j \in DOMAIN a, a[i] = a[j] PROVE i = j
    OBVIOUS
  <2>1. CASE i = n + 1 /\ j = n + 1 BY <2>1
  <2>2. CASE i # n + 1 /\ j # n + 1 BY <1>1, <1>2, <2>2
  <2>3. CASE i = n + 1 /\ j # n + 1
    <3>1. j \in 1 .. n BY <1>1, <1>2, <2>3
    <3> QED BY <1>2, <1>3, <2>3, <3>1
  <2>4. CASE i # n + 1 /\ j = n + 1
    <3>1. i \in 1 .. n BY <1>1, <1>2, <2>4
    <3> QED BY <1>2, <1>3, <2>4, <3>1
  <2> QED BY <2>1, <2>2, <2>3, <2>4
<1>5. Contains(a, s)
  <2>1. n + 1 \in 1 .. Len(a) BY <1>1, <1>2
  <2> QED BY <1>2, <2>1 DEF Contains
<1>6. ASSUME NEW x, x # s PROVE Contains(a, x) <=> Contains(q, x)
  BY <1>1, <1>2, <1>6 DEF Contains
<1> QED BY <1>2, <1>4, <1>5, <1>6 DEF a

\* The last reference is gone: the socket goes back into its server's cache.
LEMMA StepOfRecycle ==
    ASSUME SocketInv, NEW c \in Clients, RecycleSocket(c)
    PROVE  SocketInv'
<1>1. SessionOK(c) /\ DOMAIN client[c] = DOMAIN NoSession BY DEF SocketInv, SessionOK
<1>2. UNCHANGED <<sock, cluster, iteration>> /\ client[c].pc \in {"recycle", "recycleClosing"}
  BY DEF RecycleSocket, Is
<1>s. PICK s : s = client[c].s OBVIOUS
<1>v. PICK v : v = client[c].v OBVIOUS
<1>3. /\ v \in Servers \ FreeServers
      /\ s # None /\ s \in Socks /\ s \notin {client[c].ms, client[c].ss}
      /\ dead(s) \/ Home(s) = v
      /\ client[c].pc = "recycle" => client[c].ms = None
  BY <1>1, <1>2, <1>s, <1>v DEF SessionOK, Acquiring, WithSocket
<1>4. s \in Held(c) BY <1>3, <1>s DEF Held
<1>5. /\ s \in Socks \ FreeSocks /\ sock[s] \in SocketRecords
      /\ ~sock[s].lost /\ Cached(s) = {} /\ \A d \in Clients \ {c} : s \notin Held(d)
      /\ sock[s].refs = 0
      /\ ~dead(s) => s \in srv[v].live
  <2>1. sock[s].refs = IF Uses(c, s) THEN 2 ELSE IF Counts(c, s) THEN 1 ELSE 0
    BY <1>4, HeldByOne
  <2>2. ~Uses(c, s) /\ ~Counts(c, s) BY <1>2, <1>3 DEF Uses, Counts
  <2>3. ~dead(s) => s \in srv[Home(s)].live \/ client[c].pc = "append" BY <1>4, HeldByOne
  <2> QED BY <1>2, <1>3, <1>4, <2>1, <2>2, <2>3, HeldByOne
<1> DEFINE r == [client[c] EXCEPT !.pc = IF @ = "recycle" THEN "pick" ELSE "closing",
                                  !.s = None, !.v = None]
<1>6. /\ DOMAIN r = DOMAIN NoSession /\ r.s = None
      /\ r.pc = IF client[c].pc = "recycle" THEN "pick" ELSE "closing"
      /\ r.ms = client[c].ms /\ r.ss = client[c].ss
  BY <1>1 DEF NoSession
<1>7. Set(c, r) BY DEF RecycleSocket
<1> HIDE DEF r
<1>8. /\ DOMAIN client' = Clients /\ client'[c] = r
      /\ \A d \in Clients \ {c} : client'[d] = client[d]
  BY <1>7, SetEffect
<1>9. SessionOK(c)' BY <1>1, <1>3, <1>6, <1>8 DEF SessionOK, WithSocket, Acquiring
<1>10. s \notin Held(c)' /\ ~Uses(c, s)' /\ ~Counts(c, s)'
  BY <1>3, <1>6, <1>8 DEF Held, Uses, Counts
<1>11. \A x \in Socks \ {s} : Same(c, x)
  <2> SUFFICES ASSUME NEW x \in Socks \ {s} PROVE Same(c, x)
    OBVIOUS
  <2>1. x # None BY NoneAssumption
  <2> QED BY <1>2, <1>s, <1>6, <1>8, <2>1 DEF Same, Held, Uses, Counts
<1>12. srv[v] \in ServerRecords /\ CacheOK(v) BY <1>3, UsedServer
<1>13. CASE srv[v].closed
  <2>1. UNCHANGED srv BY <1>13, <1>v DEF RecycleSocket, Recycled
  <2>2. dead(s) BY <1>5, <1>12, <1>13 DEF CacheOK
  <2>3. Held(c) \ {s} \subseteq Held(c)' /\ Held(c)' \subseteq Held(c)
    BY <1>3, <1>s, <1>6, <1>8 DEF Held
  <2>4. sock[s].refs + 0 = IF Uses(c, s)' THEN 2 ELSE IF Counts(c, s)' THEN 1 ELSE 0
    BY <1>5, <1>10
  <2>5. \A x \in Held(c) \ {s} : Same(c, x)
    <3>1. Held(c) \subseteq Socks BY <1>1 DEF SessionOK, Held
    <3> QED BY <1>11, <3>1
  <2>6. sock' = Refs(s, 0) \/ (0 = 0 /\ sock' = sock) BY <1>2
  <2>7. 0 \in Int OBVIOUS
  <2> QED BY <1>2, <1>4, <1>8, <1>9, <2>1, <2>2, <2>3, <2>4, <2>5, <2>6, <2>7, OneReference
<1>14. CASE ~srv[v].closed
  <2> DEFINE u == srv[v].unused
             q == Append(u, s)
             w == [srv[v] EXCEPT !.unused = q]
  <2>1. srv' = [srv EXCEPT ![v] = w]
    <3>1. DOMAIN srv = Servers BY DEF SocketInv
    <3>2. srv' = [srv EXCEPT ![v].unused = Append(@, s)] BY <1>14, <1>s, <1>v DEF RecycleSocket, Recycled
    <3> QED BY <1>3, <3>1, <3>2
  <2>2. u \in Seq(Socks) /\ ~Contains(u, s) /\ \A i, j \in DOMAIN u : u[i] = u[j] => i = j
    BY <1>3, <1>5, <1>12, ServerRecord DEF CacheOK, Cached
  <2>3. /\ q \in Seq(Socks) /\ Contains(q, s)
        /\ \A i, j \in DOMAIN q : q[i] = q[j] => i = j
        /\ \A x : x # s => (Contains(q, x) <=> Contains(u, x))
    BY <1>3, <2>2, AppendEffect
  <2> HIDE DEF q
  <2>4. w \in ServerRecords /\ w.unused = q /\ w.live = srv[v].live /\ w.closed = srv[v].closed
    <3>1. DOMAIN srv[v] = {"closed", "master", "abended", "live", "unused"} BY <1>12, ServerRecord
    <3>2. w \in ServerRecords BY <1>12, <2>3, ServerRecord
    <3> QED BY <3>1, <3>2
  <2> HIDE DEF w
  <2>5. /\ srv'[v] = w /\ FreeServers' = FreeServers
        /\ \A x \in Servers \ {v} : srv'[x] = srv[x]
    BY <1>3, <2>1, <2>4, ServerEffect
  <2>6. Cached(s)' = {v}
    <3>1. v \in Cached(s)' BY <1>3, <2>3, <2>4, <2>5 DEF Cached
    <3>2. \A x \in Servers \ {v} : x \notin Cached(s)' BY <1>5, <2>5 DEF Cached
    <3> QED BY <3>1, <3>2 DEF Cached
  <2>7. SocketOK(s)'
    <3>1. ~dead(s)' => /\ Home(s)' = v /\ v \in Servers \ FreeServers'
                       /\ s \in srv'[Home(s)'].live
      BY <1>2, <1>3, <1>5, <2>4, <2>5 DEF dead, Home
    <3> QED BY <1>2, <1>5, <1>8, <1>10, <2>6, <3>1, Touched
  <2>8. /\ \A i, j \in DOMAIN w.unused : w.unused[i] = w.unused[j] => i = j
        /\ ~w.closed
    BY <1>14, <2>3, <2>4
  <2>9. ASSUME NEW x \in Socks \ {s}
        PROVE  /\ Same(c, x)
               /\ Contains(w.unused, x) <=> Contains(srv[v].unused, x)
               /\ x \in w.live <=> x \in srv[v].live
    BY <1>11, <2>3, <2>4
  <2> QED BY <1>2, <1>3, <1>4, <1>8, <1>9, <2>1, <2>4, <2>7, <2>8, <2>9, CallOnServer
<1> QED BY <1>13, <1>14

\* A session closes: it gives back its sockets one after the other, each to its cache.
LEMMA StepOfUnsetSocket ==
    ASSUME SocketInv, NEW c \in Clients, unsetSocket(c)
    PROVE  SocketInv'
<1>1. SessionOK(c) /\ DOMAIN client[c] = DOMAIN NoSession BY DEF SocketInv, SessionOK
<1>2. UNCHANGED <<srv, cluster, iteration>> /\ client[c].pc = "closing" BY DEF unsetSocket, Is
<1>3. client[c].s = None BY <1>1, <1>2 DEF SessionOK, WithSocket
<1>s. PICK s : s = IF client[c].ms # None THEN client[c].ms ELSE client[c].ss OBVIOUS
<1>4. CASE s = None
  <2>1. Set(c, NoSession) /\ UNCHANGED sock BY <1>4, <1>s DEF unsetSocket
  <2>2. client[c].ms = None /\ client[c].ss = None BY <1>4, <1>s
  <2>3. /\ NoSession.pc = "idle" /\ NoSession.ms = None /\ NoSession.ss = None
        /\ NoSession.s = None
    BY DEF NoSession
  <2>4. PICK r : r = NoSession OBVIOUS
  <2> QED BY <1>2, <1>3, <2>1, <2>2, <2>3, <2>4, NextLine DEF WithSocket, Acquiring
<1>5. CASE s # None
  <2> DEFINE q == IF client[c].ms # None THEN [client[c] EXCEPT !.ms = None]
                                         ELSE [client[c] EXCEPT !.ss = None]
  <2>1. s \in Held(c) BY <1>5, <1>s DEF Held
  <2>2. /\ s \in Socks \ FreeSocks /\ sock[s].refs = 1
        /\ ~dead(s) => Home(s) \in Servers \ FreeServers
    <3>1. sock[s].refs = IF Uses(c, s) THEN 2 ELSE IF Counts(c, s) THEN 1 ELSE 0
      BY <2>1, HeldByOne
    <3>2. ~Uses(c, s) /\ Counts(c, s) BY <1>2, <1>s DEF Uses, Counts
    <3> QED BY <2>1, <3>1, <3>2, HeldByOne
  <2>3. sock' = Refs(s, -1) BY <1>5, <1>s DEF unsetSocket
  <2>4. sock'[s].state = sock[s].state /\ sock'[s].server = sock[s].server
    BY <2>2, <2>3, RefsEffect
  <2>5. /\ DOMAIN q = DOMAIN NoSession /\ q.pc = "closing" /\ q.s = None
        /\ {q.ms, q.ss} \subseteq {client[c].ms, client[c].ss, None} \ {s}
        /\ {client[c].ms, client[c].ss} \ {s} \subseteq {q.ms, q.ss}
        /\ q.ms # None => q.ms # q.ss
    <3>1. CASE client[c].ms # None
      <4>1. client[c].ss # s BY <1>1, <1>s, <3>1 DEF SessionOK
      <4>2. /\ q = [client[c] EXCEPT !.ms = None] /\ DOMAIN q = DOMAIN NoSession /\ q.pc = "closing"
            /\ q.s = None /\ q.ms = None /\ q.ss = client[c].ss
        BY <1>1, <1>2, <1>3, <3>1 DEF NoSession
      <4> QED BY <1>5, <1>s, <3>1, <4>1, <4>2
    <3>2. CASE client[c].ms = None
      <4>1. /\ q = [client[c] EXCEPT !.ss = None] /\ DOMAIN q = DOMAIN NoSession /\ q.pc = "closing"
            /\ q.s = None /\ q.ms = None /\ q.ss = None
        BY <1>1, <1>2, <1>3, <3>2 DEF NoSession
      <4> QED BY <1>5, <1>s, <3>2, <4>1
    <3> QED BY <3>1, <3>2
  <2>6. Set(c, IF sock[s].refs > 1 \/ dead(s) THEN q
               ELSE [q EXCEPT !.pc = "recycleClosing", !.s = s, !.v = Home(s)])
    BY <1>5, <1>s DEF unsetSocket
  <2> HIDE DEF q
  <2>7. /\ DOMAIN client' = Clients
        /\ \A d \in Clients \ {c} : client'[d] = client[d]
        /\ DOMAIN client'[c] = DOMAIN NoSession
        /\ client'[c].ms = q.ms /\ client'[c].ss = q.ss
        /\ IF dead(s) THEN client'[c].pc = "closing" /\ client'[c].s = None
                      ELSE /\ client'[c].pc = "recycleClosing" /\ client'[c].s = s
                           /\ client'[c].v = Home(s)
    <3>1. CASE dead(s)
      <4>1. Set(c, q) BY <2>6, <3>1
      <4> QED BY <2>5, <3>1, <4>1, SetEffect
    <3>2. CASE ~dead(s)
      <4> DEFINE r == [q EXCEPT !.pc = "recycleClosing", !.s = s, !.v = Home(s)]
      <4>1. Set(c, r) BY <2>2, <2>6, <3>2
      <4>2. /\ DOMAIN r = DOMAIN NoSession /\ r.pc = "recycleClosing" /\ r.s = s
            /\ r.v = Home(s) /\ r.ms = q.ms /\ r.ss = q.ss
        BY <2>5 DEF NoSession
      <4> HIDE DEF r
      <4> QED BY <3>2, <4>1, <4>2, SetEffect
    <3> QED BY <3>1, <3>2
  <2>8. FreeServers' = FreeServers BY <1>2 DEF FreeServers
  <2>9. dead(s)' = dead(s) /\ Home(s)' = Home(s) BY <2>4 DEF dead, Home
  <2>10. {q.ms, q.ss} \subseteq Socks \cup {None} BY <1>1, <2>5 DEF SessionOK
  <2>11. SessionOK(c)'
    <3>1. CASE dead(s) BY <2>5, <2>7, <2>10, <3>1 DEF SessionOK, WithSocket, Acquiring
    <3>2. CASE ~dead(s)
      BY <1>5, <2>2, <2>5, <2>7, <2>8, <2>9, <2>10, <3>2 DEF SessionOK, WithSocket, Acquiring
    <3> QED BY <3>1, <3>2
  <2>12. Held(c) \ {s} \subseteq Held(c)' /\ Held(c)' \subseteq Held(c)
    <3>1. Held(c) = {client[c].ms, client[c].ss} \ {None} BY <1>3 DEF Held
    <3>2. Held(c)' = {q.ms, q.ss, client'[c].s} \ {None} BY <2>7 DEF Held
    <3> QED BY <2>1, <2>5, <2>7, <3>1, <3>2
  <2>13. ASSUME NEW x \in Held(c) \ {s} PROVE Same(c, x)
    <3>1. x # None /\ x \in {client[c].ms, client[c].ss} /\ x \in {q.ms, q.ss}
      BY <1>3, <2>5, <2>13 DEF Held
    <3>2. x \in Held(c)' BY <2>12, <2>13
    <3>3. Counts(c, x) /\ Counts(c, x)' BY <2>7, <3>1 DEF Counts
    <3>4. ~Uses(c, x) /\ ~Uses(c, x)' BY <1>2, <2>7 DEF Uses
    <3>5. client[c].s # x /\ client'[c].s # x BY <1>3, <2>7, <2>13, <3>1
    <3> QED BY <2>13, <3>2, <3>3, <3>4, <3>5 DEF Same
  <2>14. ~Uses(c, s)' /\ ~Counts(c, s)' BY <2>5, <2>7 DEF Uses, Counts
  <2>15. sock[s].refs + (-1) = IF Uses(c, s)' THEN 2 ELSE IF Counts(c, s)' THEN 1 ELSE 0
    BY <2>2, <2>14
  <2>16. dead(s) \/ s \in Held(c)' BY <1>5, <2>7 DEF Held
  <2>17. -1 \in Int OBVIOUS
  <2> QED BY <1>2, <2>1, <2>3, <2>7, <2>11, <2>12, <2>13, <2>15, <2>16, <2>17, OneReference
<1> QED BY <1>4, <1>5

(***************************************************************************)
(* The steps that are no calls of a session.                               *)
(***************************************************************************)

\* The clients when nothing happens to them.
LEMMA ClientsCarried ==
    ASSUME SocketInv, \A v \in Servers : Stays(v),
           \A x \in Socks \ FreeSocks : (\E c \in Clients : x \in Held(c)) => Remains(x),
           client' = Woken \/ client' = client
    PROVE  /\ DOMAIN client' = Clients
           /\ \A c \in Clients : SessionOK(c)' /\ \A x \in Socks : Same(c, x)
<1>1. DOMAIN client' = Clients /\ \A c \in Clients : Continues(c) BY WokenContinues
<1>2. Clients \in SUBSET Clients OBVIOUS
<1>3. \A c \in Clients : SessionOK(c)' BY <1>1, <1>2, SessionsCarried
<1>4. \A c \in Clients : \A x \in Socks : Same(c, x) BY <1>1, SameWhenContinues
<1> QED BY <1>1, <1>3, <1>4

\* Around the sockets, when nothing happens to a client.
LEMMA AroundClients ==
    ASSUME SocketInv, srv' \in [Servers -> ServerRecords \cup {None}],
           sock' \in [Socks -> SocketRecords \cup {None}],
           ServersInUse', client' = Woken \/ client' = client,
           \A v \in Servers : ServerGoesOn(v), \A x \in Socks : SocketGoesOn(x)
    PROVE  SocketInv'
<1>1. \A v \in Servers : Stays(v) BY DEF ServerGoesOn, Stays
<1>2. \A x \in Socks \ FreeSocks : Remains(x) BY DEF SocketGoesOn, Remains, FreeSocks
<1>3. /\ DOMAIN client' = Clients
      /\ \A c \in Clients : SessionOK(c)' /\ \A x \in Socks : Same(c, x)
  BY <1>1, <1>2, ClientsCarried
<1> QED BY <1>3, AroundSockets

\* A dead socket keeps its references.
LEMMA DeadEffect ==
    ASSUME SocketInv, NEW s \in Socks \ FreeSocks
    PROVE  /\ Dead(s) \in SocketRecords /\ Dead(s) # None /\ Dead(s).state = "dead"
           /\ Dead(s).refs = sock[s].refs /\ Dead(s).lost = sock[s].lost
<1> DEFINE p == [sock[s] EXCEPT !.state = "dead"]
           d == [p EXCEPT !.server = None]
<1>1. sock[s] \in SocketRecords BY DEF SocketInv, FreeSocks
<1>2. Dead(s) = d BY DEF Dead
<1>3. p \in SocketRecords /\ p.refs = sock[s].refs /\ p.lost = sock[s].lost /\ p.state = "dead"
  <2>1. "dead" \in SocketStates BY DEF SocketStates
  <2>2. p \in SocketRecords BY <1>1, <2>1, SocketRecord
  <2>3. DOMAIN sock[s] = {"server", "state", "refs", "lost"} BY <1>1, SocketRecord
  <2> QED BY <2>2, <2>3
<1> HIDE DEF p
<1>4. d \in SocketRecords /\ d.refs = p.refs /\ d.lost = p.lost /\ d.state = p.state
  <2>1. d \in SocketRecords BY <1>3, SocketRecord
  <2>2. DOMAIN p = {"server", "state", "refs", "lost"} BY <1>3, SocketRecord
  <2> QED BY <2>1, <2>2
<1> HIDE DEF d
<1> QED BY <1>2, <1>3, <1>4, SocketRecord

\* A dead socket that leaves a cache, or stays where it was.
LEMMA DeadStaysOK ==
    ASSUME SocketInv, NEW s \in Socks \ FreeSocks, UNCHANGED client, dead(s)',
           sock'[s].refs = sock[s].refs, sock'[s].lost = sock[s].lost,
           Cached(s)' \subseteq Cached(s)
    PROVE  SocketOK(s)'
<1>1. SocketOK(s) BY DEF SocketInv
<1>2. /\ References(s)' = References(s) /\ Unreferenced(s)' = Unreferenced(s)
      /\ \A c \in Clients : Held(c)' = Held(c)
  BY DEF References, Unreferenced, Uses, Counts, Held
<1>3. sock'[s].state # "open" BY DEF dead
<1> QED BY <1>1, <1>2, <1>3 DEF SocketOK

\* readLoop of a broken connection: the socket is dead and out of its server's lists.
LEMMA StepOfKill ==
    ASSUME SocketInv, NEW s \in Socks, Kill(s)
    PROVE  SocketInv'
<1>1. /\ s \in Socks \ FreeSocks /\ ~dead(s)
      /\ UNCHANGED <<cluster, iteration, client>>
      /\ sock' = [sock EXCEPT ![s] = Dead(s)]
  BY DEF Kill, FreeSocks, dead
<1>v. PICK v : v = Home(s) OBVIOUS
<1>2. SocketOK(s) /\ v \in Servers \ FreeServers /\ Cached(s) \subseteq {v}
  BY <1>1, <1>v DEF SocketInv, SocketOK
<1>3. srv[v] \in ServerRecords /\ CacheOK(v) BY <1>2, UsedServer
<1> DEFINE u == srv[v].unused
           q == IF srv[v].closed THEN u ELSE removeSocket(u, s)
           L == srv[v].live \ {s}
           r == Abended(v, s)
           T == {s}
<1>4. u \in Seq(Socks) /\ srv[v].live \subseteq Socks
      /\ DOMAIN srv[v] = {"closed", "master", "abended", "live", "unused"}
  BY <1>3, ServerRecord
<1>5. /\ q \in Seq(Socks) /\ \A i, j \in DOMAIN q : q[i] = q[j] => i = j
      /\ \A x \in Socks : x # s => (Contains(q, x) <=> Contains(u, x))
      /\ Contains(q, s) => Contains(u, s)
  <2>1. CASE srv[v].closed BY <1>3, <1>4, <2>1 DEF CacheOK
  <2>2. CASE ~srv[v].closed
    <3>1. \A i, j \in DOMAIN u : u[i] = u[j] => i = j BY <1>3 DEF CacheOK
    <3>2. /\ removeSocket(u, s) \in Seq(Socks)
          /\ \A i, j \in DOMAIN removeSocket(u, s) : removeSocket(u, s)[i] = removeSocket(u, s)[j] => i = j
          /\ \A x : Contains(removeSocket(u, s), x) <=> Contains(u, x) /\ x # s
      BY <1>4, <3>1, Removed
    <3> QED BY <2>2, <3>2
  <2> QED BY <2>1, <2>2
<1>6. /\ r \in ServerRecords /\ r.unused = q /\ r.closed = srv[v].closed
      /\ \A x \in Socks : x # s => (x \in r.live <=> x \in srv[v].live)
      /\ r.closed => r.live = {} /\ r.unused = <<>>
  <2>1. CASE srv[v].closed
    <3>1. r = [srv[v] EXCEPT !.abended = TRUE] BY <2>1 DEF Abended
    <3>2. r \in ServerRecords BY <1>3, <3>1, ServerRecord
    <3>3. r.unused = u /\ r.live = srv[v].live /\ r.closed = srv[v].closed BY <1>4, <3>1
    <3> QED BY <1>3, <2>1, <3>2, <3>3 DEF CacheOK
  <2>2. CASE ~srv[v].closed
    <3> DEFINE f == [srv[v] EXCEPT !.abended = TRUE]
               g == [f EXCEPT !.live = L]
               h == [g EXCEPT !.unused = q]
    <3>1. r = h BY <2>2 DEF Abended
    <3>2. f \in ServerRecords /\ f.closed = srv[v].closed BY <1>3, <1>4, ServerRecord
    <3> HIDE DEF f
    <3>3. g \in ServerRecords /\ g.closed = f.closed /\ g.live = L
      <4>1. L \in SUBSET Socks BY <1>4
      <4> HIDE DEF L
      <4>2. g \in ServerRecords BY <3>2, <4>1, ServerRecord
      <4>3. DOMAIN f = {"closed", "master", "abended", "live", "unused"} BY <3>2, ServerRecord
      <4> QED BY <4>2, <4>3
    <3> HIDE DEF g, q
    <3>4. h \in ServerRecords /\ h.closed = g.closed /\ h.live = g.live /\ h.unused = q
      <4>1. h \in ServerRecords BY <1>5, <3>3, ServerRecord
      <4>2. DOMAIN g = {"closed", "master", "abended", "live", "unused"} BY <3>3, ServerRecord
      <4> QED BY <4>1, <4>2
    <3> HIDE DEF h, r
    <3> QED BY <2>2, <3>1, <3>2, <3>3, <3>4
  <2> QED BY <2>1, <2>2
<1>7. srv' = [srv EXCEPT ![v] = r] BY <1>v DEF Kill
<1> HIDE DEF r, q
<1>8. /\ srv'[v] = r /\ FreeServers' = FreeServers
      /\ \A w \in Servers \ {v} : srv'[w] = srv[w]
  BY <1>2, <1>6, <1>7, ServerEffect
<1>9. /\ Dead(s) \in SocketRecords /\ Dead(s) # None /\ Dead(s).state = "dead"
      /\ Dead(s).refs = sock[s].refs /\ Dead(s).lost = sock[s].lost
  BY <1>1, DeadEffect
<1>10. sock' \in [Socks -> SocketRecords \cup {None}] /\ sock'[s] = Dead(s)
       /\ \A x \in Socks \ {s} : sock'[x] = sock[x]
  <2>1. sock \in [Socks -> SocketRecords \cup {None}] BY DEF SocketInv
  <2> QED BY <1>1, <1>9, <2>1
<1>11. SocketOK(s)'
  <2>1. Cached(s)' \subseteq Cached(s) BY <1>2, <1>5, <1>6, <1>8 DEF Cached
  <2>2. dead(s)' BY <1>9, <1>10 DEF dead
  <2> QED BY <1>1, <1>9, <1>10, <2>1, <2>2, DeadStaysOK
<1>12. ServersInUse' BY <1>1, <1>8, InUseCarried
<1>13. /\ DOMAIN client' = Clients
       /\ \A c \in Clients : SessionOK(c)' /\ \A x \in Socks : Same(c, x)
  <2>1. \A w \in Servers : Stays(w) BY <1>8 DEF Stays, FreeServers
  <2>2. \A x \in Socks \ FreeSocks : Remains(x)
    <3>1. dead(s)' BY <1>9, <1>10 DEF dead
    <3> QED BY <1>9, <1>10, <3>1 DEF Remains, FreeSocks, dead, Home
  <2> QED BY <1>1, <2>1, <2>2, ClientsCarried
<1>14. \A x \in Socks \ T : /\ sock'[x] = sock[x] /\ \A c \in Clients : Same(c, x)
                            /\ Contains(r.unused, x) <=> Contains(srv[v].unused, x)
                            /\ x \in r.live <=> x \in srv[v].live
  BY <1>5, <1>6, <1>10, <1>13
<1>15. T \in SUBSET Socks /\ \A x \in T : sock'[x] # None /\ SocketOK(x)' BY <1>9, <1>10, <1>11
<1>16. \A i, j \in DOMAIN r.unused : r.unused[i] = r.unused[j] => i = j BY <1>5, <1>6
<1>17. /\ v \in Servers \ FreeServers /\ r \in ServerRecords
       /\ r.closed => r.live = {} /\ r.unused = <<>>
  BY <1>2, <1>6
<1>18. sock' \in [Socks -> SocketRecords \cup {None}] BY <1>10
<1>19. DOMAIN client' = Clients /\ \A c \in Clients : SessionOK(c)' BY <1>13
<1> HIDE DEF T, L
<1> QED BY <1>7, <1>12, <1>14, <1>15, <1>16, <1>17, <1>18, <1>19, OnServer

\* A nonempty set of places of a list has a last one.
LEMMA LastPlace ==
    ASSUME NEW n \in Nat, NEW S \in SUBSET (1 .. n), S # {}
    PROVE  Max(S) \in S /\ \A i \in S : i <= Max(S)
<1> DEFINE R == StrictSubsetOrdering(1 .. n)
           F == FiniteSubsetsOf(1 .. n)
           A == {(i + 1) .. n : i \in S}
<1>1. IsFiniteSet(1 .. n) BY FS_Interval
<1>2. IsWellFoundedOn(R, F) BY <1>1, FS_StrictSubsetOrderingWellFounded
<1>3. A \subseteq F /\ A # {}
  <2>1. \A i \in S : (i + 1) .. n \in SUBSET (1 .. n) OBVIOUS
  <2>2. \A X \in SUBSET (1 .. n) : IsFiniteSet(X) BY <1>1, FS_Subset
  <2> QED BY <2>1, <2>2 DEF FiniteSubsetsOf
<1>4. PICK X \in A : \A Y \in A : ~ <<Y, X>> \in R
  <2> HIDE DEF A, R, F
  <2> QED BY <1>2, <1>3, WFMin
<1>5. PICK i \in S : X = (i + 1) .. n OBVIOUS
<1>6. \A j \in S : j <= i
  <2> SUFFICES ASSUME NEW j \in S, j > i PROVE FALSE
    OBVIOUS
  <2>1. (j + 1) .. n \in A OBVIOUS
  <2>2. (j + 1) .. n \subseteq X /\ (j + 1) .. n # X
    <3>1. j \in X /\ j \notin (j + 1) .. n BY <1>5
    <3> QED BY <1>5, <3>1
  <2>3. <<(j + 1) .. n, X>> \in R
    BY <1>5, <2>2 DEF StrictSubsetOrdering
  <2> QED BY <1>4, <2>1, <2>3
<1>7. \E x \in S : \A y \in S : x >= y BY <1>6
<1>8. Max(S) \in S /\ \A y \in S : Max(S) >= y BY <1>7 DEF Max
<1> QED BY <1>8

\* The uppermost socket in a cache that is not dead; all above it are.
LEMMA LiveTopEffect ==
    ASSUME NEW v, NEW q \in Seq(Socks), srv[v].unused = q
    PROVE  /\ LiveTop(v) \in 0 .. Len(q)
           /\ \A i \in 1 .. Len(q) : i > LiveTop(v) => dead(q[i])
<1> DEFINE idle == {i \in DOMAIN srv[v].unused : ~dead(srv[v].unused[i])}
           n == Len(q)
<1>1. n \in Nat /\ idle \in SUBSET (1 .. n) /\ \A i \in 1 .. n : i \notin idle => dead(q[i])
  OBVIOUS
<1>2. LiveTop(v) = IF idle = {} THEN 0 ELSE Max(idle) BY DEF LiveTop
<1> HIDE DEF idle, n
<1>3. CASE idle = {} BY <1>1, <1>2, <1>3 DEF n
<1>4. CASE idle # {}
  <2>m. PICK m : m = Max(idle) OBVIOUS
  <2>1. m \in idle /\ \A i \in idle : i <= m BY <1>1, <1>4, <2>m, LastPlace
  <2>2. LiveTop(v) = m /\ m \in 1 .. n BY <1>1, <1>2, <1>4, <2>m, <2>1
  <2>3. ASSUME NEW i \in 1 .. n, i > m PROVE dead(q[i])
    <3>1. i \notin idle BY <1>1, <2>1, <2>2, <2>3
    <3> QED BY <1>1, <3>1
  <2> QED BY <1>1, <2>2, <2>3 DEF n
<1> QED BY <1>3, <1>4

\* syncServer: dead sockets on top of the cache are dropped, or a fresh one is made for it.
LEMMA StepOfAsked ==
    ASSUME SocketInv, NEW a, NEW v \in Servers \ FreeServers, Asked(a, v), UNCHANGED client,
           FreeServers' = FreeServers => ServersInUse'
    PROVE  SocketInv'
<1>1. srv[v] \in ServerRecords /\ CacheOK(v) /\ ~srv[v].closed BY UsedServer DEF Asked
<1>u. PICK u \in Seq(Socks) : u = srv[v].unused BY <1>1, ServerRecord
<1>k. PICK k : k = LiveTop(v) OBVIOUS
<1>2. /\ k \in 0 .. Len(u) /\ \A i \in 1 .. Len(u) : i > k => dead(u[i])
      /\ \A i, j \in DOMAIN u : u[i] = u[j] => i = j
      /\ srv[v].live \subseteq Socks
      /\ DOMAIN srv[v] = {"closed", "master", "abended", "live", "unused"}
  BY <1>1, <1>u, <1>k, LiveTopEffect, ServerRecord DEF CacheOK
<1>3. \A x \in Socks : Contains(u, x) =>
          /\ x \in Socks \ FreeSocks /\ Cached(x) = {v}
          /\ \A c \in Clients : x \notin Held(c)
  BY <1>u, CachedByOne
<1>d. DOMAIN srv = Servers /\ sock \in [Socks -> SocketRecords \cup {None}] BY DEF SocketInv
<1>4. CASE k # 0
  <2> DEFINE q == SubSeq(u, 1, k)
             r == [srv[v] EXCEPT !.unused = q]
             T == {x \in Socks : Contains(u, x) /\ ~Contains(q, x)}
  <2>1. sock' = sock /\ srv' = [srv EXCEPT ![v] = r]
    <3>1. srv' = [srv EXCEPT ![v].unused = SubSeq(@, 1, k)] /\ sock' = sock
      BY <1>4, <1>k DEF Asked
    <3> QED BY <1>u, <1>d, <3>1
  <2>2. q \in Seq(Socks) /\ Len(q) = k /\ \A i \in 1 .. k : q[i] = u[i] BY <1>2, <1>4
  <2> HIDE DEF q
  <2>3. r \in ServerRecords /\ r.unused = q /\ r.live = srv[v].live /\ r.closed = srv[v].closed
    <3>1. r \in ServerRecords BY <1>1, <2>2, ServerRecord
    <3> QED BY <1>2, <3>1
  <2> HIDE DEF r
  <2>4. /\ srv'[v] = r /\ FreeServers' = FreeServers
        /\ \A w \in Servers \ {v} : srv'[w] = srv[w]
    BY <2>1, <2>3, ServerEffect
  <2>5. \A x \in Socks : Contains(q, x) => Contains(u, x) BY <1>2, <2>2 DEF Contains
  <2>6. ASSUME NEW x \in T PROVE sock'[x] # None /\ SocketOK(x)'
    <3>1. PICK i \in 1 .. Len(u) : u[i] = x BY DEF Contains
    <3>2. i > k BY <1>2, <1>4, <2>2, <3>1 DEF Contains
    <3>3. dead(x)' BY <1>2, <2>1, <3>1, <3>2 DEF dead
    <3>4. x \in Socks \ FreeSocks BY <1>3
    <3>5. Cached(x)' \subseteq Cached(x) BY <2>3, <2>4 DEF Cached
    <3> QED BY <2>1, <3>3, <3>4, <3>5, DeadStaysOK DEF FreeSocks
  <2>7. ServersInUse' BY <2>4
  <2>8. DOMAIN client' = Clients /\ \A c \in Clients : SessionOK(c)' /\ \A x \in Socks : Same(c, x)
    <3>1. \A w \in Servers : Stays(w) BY <2>4 DEF Stays, FreeServers
    <3>2. \A x \in Socks \ FreeSocks : Remains(x) BY <2>1 DEF Remains, FreeSocks, dead, Home
    <3> QED BY <3>1, <3>2, ClientsCarried
  <2>9. \A x \in Socks \ T : /\ sock'[x] = sock[x] /\ \A c \in Clients : Same(c, x)
                             /\ Contains(r.unused, x) <=> Contains(srv[v].unused, x)
                             /\ x \in r.live <=> x \in srv[v].live
    BY <1>u, <2>1, <2>3, <2>5, <2>8
  <2>10. /\ \A i, j \in DOMAIN r.unused : r.unused[i] = r.unused[j] => i = j
         /\ ~r.closed
    BY <1>1, <1>2, <2>2, <2>3
  <2>11. sock' \in [Socks -> SocketRecords \cup {None}] /\ T \in SUBSET Socks BY <1>d, <2>1
  <2>12. DOMAIN client' = Clients /\ \A c \in Clients : SessionOK(c)' BY <2>8
  <2>13. \A x \in T : sock'[x] # None /\ SocketOK(x)' BY <2>6
  <2> HIDE DEF T
  <2> QED BY <2>1, <2>3, <2>7, <2>9, <2>10, <2>11, <2>12, <2>13, OnServer
<1>5. CASE k = 0
  <2>1. PICK s \in Free(a, FreeSocks) :
            /\ sock' = [sock EXCEPT ![s] = [newSocket(v) EXCEPT !.refs = 0]]
            /\ srv' = [srv EXCEPT ![v].live = @ \cup {s}, ![v].unused = <<s>>]
    BY <1>5, <1>k DEF Asked
  <2> DEFINE n == [newSocket(v) EXCEPT !.refs = 0]
             L == srv[v].live \cup {s}
             f == [srv[v] EXCEPT !.live = L]
             q == <<s>>
             r == [f EXCEPT !.unused = q]
             T == {x \in Socks : x = s \/ Contains(u, x)}
  <2>2. s \in FreeSocks /\ s \in Socks BY <2>1 DEF Free, FreeSocks
  <2>3. Unreferenced(s) /\ Cached(s) = {} BY <2>2 DEF SocketInv
  <2>4. /\ n \in SocketRecords /\ n # None /\ n.refs = 0 /\ n.lost = FALSE
        /\ n.state = "open" /\ n.server = v
    <3>1. newSocket(v) \in SocketRecords /\ 0 \in Int BY NewRecords
    <3>2. n \in SocketRecords BY <3>1, SocketRecord
    <3>3. n.refs = 0 /\ n.lost = FALSE /\ n.state = "open" /\ n.server = v BY DEF newSocket
    <3> HIDE DEF n
    <3> QED BY <3>2, <3>3, SocketRecord
  <2>5. /\ sock' \in [Socks -> SocketRecords \cup {None}] /\ sock'[s] = n
        /\ \A x \in Socks \ {s} : sock'[x] = sock[x]
    <3> HIDE DEF n
    <3>1. sock' = [sock EXCEPT ![s] = n] BY <2>1 DEF n
    <3> QED BY <1>d, <2>2, <2>4, <3>1
  <2>6. srv' = [srv EXCEPT ![v] = r]
    BY <1>d, <2>1
  <2>7. q \in Seq(Socks) /\ Len(q) = 1 /\ q[1] = s BY <2>2
  <2> HIDE DEF q, n
  <2>8. f \in ServerRecords /\ f.live = L /\ f.closed = srv[v].closed
    <3>1. L \in SUBSET Socks BY <1>2, <2>2
    <3> HIDE DEF L
    <3>2. f \in ServerRecords BY <1>1, <3>1, ServerRecord
    <3> QED BY <1>2, <3>2
  <2> HIDE DEF f
  <2>9. r \in ServerRecords /\ r.unused = q /\ r.live = L /\ r.closed = srv[v].closed
    <3>1. r \in ServerRecords BY <2>7, <2>8, ServerRecord
    <3>2. DOMAIN f = {"closed", "master", "abended", "live", "unused"} BY <2>8, ServerRecord
    <3> QED BY <2>8, <3>1, <3>2
  <2> HIDE DEF r
  <2>10. /\ srv'[v] = r /\ FreeServers' = FreeServers
         /\ \A w \in Servers \ {v} : srv'[w] = srv[w]
    BY <2>6, <2>9, ServerEffect
  <2>11. \A x \in Socks : Contains(q, x) <=> x = s BY <2>7 DEF Contains
  <2>12. ~Contains(u, s)
    BY <1>3, <2>2
  <2>13. SocketOK(s)'
    <3>1. /\ sock'[s].refs = 0 /\ ~sock'[s].lost /\ ~dead(s)' /\ Home(s)' = v
      BY <2>4, <2>5 DEF dead, Home
    <3>2. Cached(s)' = {v}
      <4>1. v \in Cached(s)' BY <2>2, <2>9, <2>10, <2>11 DEF Cached
      <4>2. \A w \in Servers \ {v} : w \notin Cached(s)' BY <2>3, <2>10 DEF Cached
      <4> QED BY <4>1, <4>2 DEF Cached
    <3>3. Unreferenced(s)' /\ References(s)' = 0
      <4>1. s # None BY <2>2, NoneAssumption
      <4> QED BY <2>3, <4>1 DEF Unreferenced, References, Held, Uses, Counts
    <3>4. s \in srv'[v].live BY <2>9, <2>10
    <3> QED BY <2>10, <3>1, <3>2, <3>3, <3>4 DEF SocketOK, Unreferenced
  <2>14. ASSUME NEW x \in T PROVE sock'[x] # None /\ SocketOK(x)'
    <3>1. CASE x = s BY <2>4, <2>5, <2>13, <3>1
    <3>2. CASE x # s
      <4>1. Contains(u, x) BY <3>2
      <4>2. x \in Socks \ FreeSocks /\ Cached(x) = {v} BY <1>3, <4>1
      <4>3. PICK i \in 1 .. Len(u) : u[i] = x BY <4>1 DEF Contains
      <4>4. dead(x) BY <1>2, <1>5, <4>3
      <4>5. sock'[x] = sock[x] BY <2>5, <3>2
      <4>6. dead(x)' BY <4>4, <4>5 DEF dead
      <4>7. Cached(x)' \subseteq Cached(x) BY <2>10, <4>2 DEF Cached
      <4> QED BY <4>2, <4>5, <4>6, <4>7, DeadStaysOK DEF FreeSocks
    <3> QED BY <3>1, <3>2
  <2>15. ServersInUse' BY <2>10
  <2>16. DOMAIN client' = Clients /\ \A c \in Clients : SessionOK(c)' /\ \A x \in Socks : Same(c, x)
    <3>1. \A w \in Servers : Stays(w) BY <2>10 DEF Stays, FreeServers
    <3>2. \A x \in Socks \ FreeSocks : Remains(x)
      BY <2>2, <2>5 DEF Remains, FreeSocks, dead, Home
    <3> QED BY <3>1, <3>2, ClientsCarried
  <2>17. \A x \in Socks \ T : /\ sock'[x] = sock[x] /\ \A c \in Clients : Same(c, x)
                              /\ Contains(r.unused, x) <=> Contains(srv[v].unused, x)
                              /\ x \in r.live <=> x \in srv[v].live
    BY <1>u, <2>5, <2>9, <2>11, <2>16
  <2>18. /\ \A i, j \in DOMAIN r.unused : r.unused[i] = r.unused[j] => i = j
         /\ ~r.closed
    BY <1>1, <2>7, <2>9
  <2>19. sock' \in [Socks -> SocketRecords \cup {None}] /\ T \in SUBSET Socks BY <2>5
  <2>20. DOMAIN client' = Clients /\ \A c \in Clients : SessionOK(c)' BY <2>16
  <2>21. \A x \in T : sock'[x] # None /\ SocketOK(x)' BY <2>14
  <2> HIDE DEF T, L
  <2> QED BY <2>6, <2>9, <2>15, <2>17, <2>18, <2>19, <2>20, <2>21, OnServer
<1> QED BY <1>4, <1>5

\* Servers are closed, and K lose their master flag: sockets die where they live.
LEMMA ClosingEffect ==
    ASSUME SocketInv, NEW S \in SUBSET (Servers \ FreeServers), NEW K \in SUBSET (Servers \ FreeServers),
           S \cap K = {}, sock' = Killed(S),
           srv' = [v \in Servers |-> IF v \in K THEN [srv[v] EXCEPT !.master = FALSE] ELSE Closed(S)[v]]
    PROVE  /\ srv' \in [Servers -> ServerRecords \cup {None}]
           /\ sock' \in [Socks -> SocketRecords \cup {None}]
           /\ FreeServers' = FreeServers
           /\ \A v \in Servers : ServerGoesOn(v)
           /\ \A x \in Socks : SocketGoesOn(x)
<1>1. ASSUME NEW v \in Servers
      PROVE  /\ srv'[v] \in ServerRecords \cup {None} /\ (srv'[v] = None <=> srv[v] = None)
             /\ v \notin FreeServers => IF v \in S THEN Emptied(v) ELSE KeepsLists(v)
  <2>1. CASE v \in S
    <3> DEFINE f == [srv[v] EXCEPT !.closed = TRUE]
               g == [f EXCEPT !.live = {}]
               h == [g EXCEPT !.unused = <<>>]
    <3>1. srv'[v] = h BY <2>1 DEF Closed
    <3>2. srv[v] \in ServerRecords BY <2>1, UsedServer
    <3>3. f \in ServerRecords BY <3>2, ServerRecord
    <3> HIDE DEF f
    <3>4. g \in ServerRecords /\ g.live = {}
      <4>1. g \in ServerRecords BY <3>3, ServerRecord
      <4>2. DOMAIN f = {"closed", "master", "abended", "live", "unused"} BY <3>3, ServerRecord
      <4> QED BY <4>1, <4>2
    <3> HIDE DEF g
    <3>5. h \in ServerRecords /\ h.live = g.live /\ h.unused = <<>>
      <4>1. <<>> \in Seq(Socks) OBVIOUS
      <4>2. h \in ServerRecords BY <3>4, <4>1, ServerRecord
      <4>3. DOMAIN g = {"closed", "master", "abended", "live", "unused"} BY <3>4, ServerRecord
      <4> QED BY <4>2, <4>3
    <3> HIDE DEF h
    <3>6. h # None BY <3>5, ServerRecord
    <3> QED BY <2>1, <3>1, <3>2, <3>4, <3>5, <3>6 DEF Emptied, FreeServers
  <2>2. CASE v \in K
    <3> DEFINE f == [srv[v] EXCEPT !.master = FALSE]
    <3>1. srv'[v] = f BY <2>2
    <3>2. srv[v] \in ServerRecords BY <2>2, UsedServer
    <3>3. f \in ServerRecords /\ f.live = srv[v].live /\ f.unused = srv[v].unused /\ f.closed = srv[v].closed
      <4>1. f \in ServerRecords BY <3>2, ServerRecord
      <4>2. DOMAIN srv[v] = {"closed", "master", "abended", "live", "unused"} BY <3>2, ServerRecord
      <4> QED BY <4>1, <4>2
    <3> HIDE DEF f
    <3>4. f # None BY <3>3, ServerRecord
    <3>5. v \notin S BY <2>2
    <3> QED BY <2>2, <3>1, <3>3, <3>4, <3>5 DEF KeepsLists, FreeServers
  <2>3. CASE v \notin S \cup K
    <3>1. srv'[v] = srv[v] BY <2>3 DEF Closed
    <3>2. srv[v] \in ServerRecords \cup {None} BY DEF SocketInv
    <3> QED BY <2>3, <3>1, <3>2 DEF KeepsLists
  <2> QED BY <2>1, <2>2, <2>3
<1>2. srv' \in [Servers -> ServerRecords \cup {None}] BY <1>1
<1>3. FreeServers' = FreeServers BY <1>1 DEF FreeServers
<1>4. \A v \in Servers : ServerGoesOn(v) BY <1>1 DEF ServerGoesOn, FreeServers
<1>5. ASSUME NEW x \in Socks PROVE sock'[x] \in SocketRecords \cup {None} /\ SocketGoesOn(x)
  <2>0. sock[x] \in SocketRecords \cup {None} BY DEF SocketInv
  <2>1. CASE \E v \in S : x \in srv[v].live /\ ~dead(x)
    <3>1. Live(x) # {} BY <2>1 DEF Live
    <3>2. x \in Socks \ FreeSocks BY <3>1 DEF SocketInv
    <3>3. sock'[x] = Dead(x) BY <2>1 DEF Killed
    <3>4. /\ Dead(x) \in SocketRecords /\ Dead(x) # None /\ Dead(x).state = "dead"
          /\ Dead(x).refs = sock[x].refs /\ Dead(x).lost = sock[x].lost
      BY <3>2, DeadEffect
    <3>5. dead(x)' BY <3>3, <3>4 DEF dead
    <3> QED BY <3>2, <3>3, <3>4, <3>5 DEF SocketGoesOn
  <2>2. CASE ~ \E v \in S : x \in srv[v].live /\ ~dead(x)
    <3>1. sock'[x] = sock[x] BY <2>2 DEF Killed
    <3>2. dead(x)' = dead(x) /\ Home(x)' = Home(x) BY <3>1 DEF dead, Home
    <3>3. ~dead(x) => \A v \in Servers \ FreeServers : x \in srv[v].live => KeepsLists(v)
      BY <1>1, <2>2
    <3> QED BY <2>0, <3>1, <3>2, <3>3 DEF SocketGoesOn, FreeSocks
  <2> QED BY <2>1, <2>2
<1>6. sock' \in [Socks -> SocketRecords \cup {None}]
  <2>1. DOMAIN sock' = Socks /\ sock' = [x \in Socks |-> sock'[x]] BY DEF Killed
  <2> QED BY <1>5, <2>1
<1> QED BY <1>2, <1>3, <1>4, <1>5, <1>6

\* The servers at an address are in use.
LEMMA RemovalEffect ==
    ASSUME SocketInv, NEW v \in Servers \ FreeServers, removeServer(v)
    PROVE  /\ srv' \in [Servers -> ServerRecords \cup {None}]
           /\ sock' \in [Socks -> SocketRecords \cup {None}]
           /\ FreeServers' = FreeServers
           /\ servers' \subseteq servers /\ masters' \subseteq masters
           /\ \A w \in Servers : ServerGoesOn(w)
           /\ \A x \in Socks : SocketGoesOn(x)
<1> DEFINE S == At(v[1]) \cup {v}
           K == {}
<1>1. S \in SUBSET (Servers \ FreeServers) /\ K \in SUBSET (Servers \ FreeServers) /\ S \cap K = {}
  BY DEF At, SocketInv, ServersInUse
<1>2. /\ servers' \subseteq servers /\ masters' \subseteq masters
      /\ srv' = Closed(S) /\ sock' = Killed(S)
  BY DEF removeServer, Close
<1>3. srv' = [w \in Servers |-> IF w \in K THEN [srv[w] EXCEPT !.master = FALSE] ELSE Closed(S)[w]]
  <2>1. Closed(S) = [w \in Servers |-> Closed(S)[w]] BY DEF Closed
  <2> HIDE DEF S
  <2> QED BY <1>2, <2>1
<1> HIDE DEF S, K
<1> QED BY <1>1, <1>2, <1>3, ClosingEffect

\* A call could not use its server and removes it.
LEMMA StepOfDropped ==
    ASSUME SocketInv, NEW c \in Clients, Drop(c)
    PROVE  SocketInv'
<1>1. SessionOK(c) /\ DOMAIN client[c] = DOMAIN NoSession BY DEF SocketInv, SessionOK
<1>2. UNCHANGED <<iteration>> /\ client[c].pc = "drop" /\ removeServer(client[c].v)
  BY DEF Drop, Is
<1>3. client[c].v \in Servers \ FreeServers /\ client[c].ms = None /\ client[c].s = None
  BY <1>1, <1>2 DEF SessionOK, Acquiring, WithSocket
<1>4. /\ srv' \in [Servers -> ServerRecords \cup {None}]
      /\ sock' \in [Socks -> SocketRecords \cup {None}]
      /\ FreeServers' = FreeServers
      /\ servers' \subseteq servers /\ masters' \subseteq masters
      /\ \A w \in Servers : ServerGoesOn(w)
      /\ \A x \in Socks : SocketGoesOn(x)
  BY <1>2, <1>3, RemovalEffect
<1>5. ServersInUse' BY <1>2, <1>4 DEF SocketInv, ServersInUse, iteration, Unseen
<1> DEFINE r == [client[c] EXCEPT !.pc = "pick", !.v = None]
<1>6. Set(c, r) BY DEF Drop
<1>7. /\ DOMAIN r = DOMAIN NoSession /\ r.pc = "pick" /\ r.s = client[c].s
      /\ r.ms = client[c].ms /\ r.ss = client[c].ss
  BY <1>1 DEF NoSession
<1> HIDE DEF r
<1>8. /\ DOMAIN client' = Clients /\ client'[c] = r
      /\ \A d \in Clients \ {c} : client'[d] = client[d]
  BY <1>6, SetEffect
<1>9. SessionOK(c)' BY <1>1, <1>3, <1>7, <1>8 DEF SessionOK, WithSocket, Acquiring
<1>10. \A d \in Clients \ {c} : SessionOK(d)'
  <2> DEFINE C == Clients \ {c}
  <2>1. \A v \in Servers : Stays(v) BY <1>4 DEF Stays, ServerGoesOn
  <2>2. \A x \in Socks \ FreeSocks : Remains(x) BY <1>4 DEF SocketGoesOn, Remains, FreeSocks
  <2>3. \A d \in C : Continues(d) BY <1>8 DEF Continues
  <2>4. C \in SUBSET Clients OBVIOUS
  <2> HIDE DEF C
  <2>5. \A d \in C : SessionOK(d)' BY <2>1, <2>2, <2>3, <2>4, SessionsCarried
  <2> QED BY <2>5 DEF C
<1>11. \A d \in Clients : \A x \in Socks : Same(d, x)
  <2>1. \A x \in Socks : Same(c, x) BY <1>2, <1>7, <1>8 DEF Same, Held, Uses, Counts
  <2>2. \A d \in Clients \ {c} : \A x \in Socks : Same(d, x) BY <1>8 DEF Same, Held, Uses, Counts
  <2> QED BY <2>1, <2>2
<1>12. \A d \in Clients : SessionOK(d)' /\ \A x \in Socks : Same(d, x) BY <1>9, <1>10, <1>11
<1> QED BY <1>4, <1>5, <1>8, <1>12, AroundSockets

\* The goroutine of an address goes on with its server, or is done.
LEMMA PeerInUse ==
    ASSUME SocketInv, NEW a \in Addrs, NEW r, peer' = [peer EXCEPT ![a] = r],
           DOMAIN r = DOMAIN Unseen, r.isMaster \in BOOLEAN,
           r.pc \in {"ask", "add"} => r.v \in Servers \ FreeServers,
           FreeServers' = FreeServers,
           servers' \cup masters' \cup notYetAdded' \subseteq Servers \ FreeServers
    PROVE  ServersInUse'
<1>1. ServersInUse BY DEF SocketInv
<1>2. DOMAIN peer' = Addrs /\ peer'[a] = r /\ \A b \in Addrs \ {a} : peer'[b] = peer[b]
  BY <1>1 DEF ServersInUse
<1>3. DOMAIN Unseen = {"pc", "v", "isMaster"} BY DEF Unseen
<1>4. DOMAIN Unseen' = DOMAIN Unseen BY DEF Unseen
<1> QED BY <1>1, <1>2, <1>4 DEF ServersInUse

\* A server joins the cluster; whoever waits looks again.
LEMMA AddingEffect ==
    ASSUME SocketInv, NEW v \in Servers \ FreeServers, NEW role \in BOOLEAN, addServer(v, role),
           UNCHANGED sock
    PROVE  /\ srv' \in [Servers -> ServerRecords \cup {None}]
           /\ FreeServers' = FreeServers
           /\ servers' \subseteq servers \cup {v} /\ masters' \subseteq masters \cup {v}
           /\ \A w \in Servers : ServerGoesOn(w)
           /\ \A x \in Socks : SocketGoesOn(x)
<1> DEFINE b == Marked(v, role)
           r == [srv[v] EXCEPT !.master = b]
<1>1. srv[v] \in ServerRecords BY UsedServer
<1>2. b \in BOOLEAN
  <2>1. srv[v].master \in BOOLEAN BY <1>1 DEF ServerRecords
  <2> QED BY <2>1 DEF Marked
<1> HIDE DEF b
<1>3. r \in ServerRecords /\ r.live = srv[v].live /\ r.unused = srv[v].unused /\ r.closed = srv[v].closed
  <2>1. r \in ServerRecords BY <1>1, <1>2, ServerRecord
  <2>2. DOMAIN srv[v] = {"closed", "master", "abended", "live", "unused"} BY <1>1, ServerRecord
  <2> QED BY <2>1, <2>2
<1> HIDE DEF r
<1>4. srv' = [srv EXCEPT ![v] = r] BY DEF addServer, r, b
<1>5. /\ srv' \in [Servers -> ServerRecords \cup {None}]
      /\ srv'[v] = r /\ r # None /\ FreeServers' = FreeServers
      /\ \A w \in Servers \ {v} : srv'[w] = srv[w]
  BY <1>3, <1>4, ServerEffect
<1>6. \A w \in Servers \ FreeServers : KeepsLists(w) BY <1>3, <1>5 DEF KeepsLists
<1>7. \A w \in Servers : ServerGoesOn(w) BY <1>5, <1>6 DEF ServerGoesOn, FreeServers
<1>8. \A x \in Socks : SocketGoesOn(x) BY <1>6 DEF SocketGoesOn, FreeSocks, dead, Home
<1>9. servers' \subseteq servers \cup {v} /\ masters' \subseteq masters \cup {v}
  BY DEF addServer, Listed
<1> QED BY <1>5, <1>7, <1>8, <1>9

\* The goroutine that asks a member.
LEMMA StepOfPeerSockets ==
    ASSUME SocketInv, NEW a \in Addrs, PeerStep(a)
    PROVE  SocketInv'
<1>v. PICK v : v = peer[a].v OBVIOUS
<1>1. /\ v \in Servers \ FreeServers /\ DOMAIN peer[a] = DOMAIN Unseen
      /\ peer[a].isMaster \in BOOLEAN
      /\ servers \cup masters \cup notYetAdded \subseteq Servers \ FreeServers
  <2>1. peer[a].pc \in {"ask", "add"} BY DEF PeerStep, Answer, NoAnswer, Add
  <2> QED BY <1>v, <2>1 DEF SocketInv, ServersInUse
<1>d. DOMAIN Done = DOMAIN Unseen /\ Done.isMaster \in BOOLEAN /\ Done.pc = "done"
  BY DEF Done, Unseen
<1>2. CASE Answer(a)
  <2>1. Asked(a, v) /\ UNCHANGED <<cluster, client>> BY <1>2, <1>v DEF Answer
  <2>2. ASSUME FreeServers' = FreeServers PROVE ServersInUse'
    <3>1. CASE Vouched(a)
      <4> DEFINE r == [peer[a] EXCEPT !.pc = "add", !.isMaster = (primary = a)]
      <4>1. peer' = [peer EXCEPT ![a] = r] /\ UNCHANGED notYetAdded
        <5>1. DOMAIN peer = Addrs BY DEF SocketInv, ServersInUse
        <5> QED BY <1>2, <3>1, <5>1 DEF Answer
      <4>2. DOMAIN r = DOMAIN Unseen /\ r.isMaster \in BOOLEAN /\ r.v = v
        BY <1>1, <1>v DEF Unseen
      <4> HIDE DEF r
      <4>3. servers' \cup masters' \cup notYetAdded' \subseteq Servers \ FreeServers
        BY <1>1, <2>1, <4>1 DEF cluster
      <4> QED BY <1>1, <2>2, <4>1, <4>2, <4>3, PeerInUse
    <3>2. CASE ~Vouched(a)
      <4>1. peer' = [peer EXCEPT ![a] = Done] /\ notYetAdded' = notYetAdded \cup {v}
        BY <1>2, <1>v, <3>2 DEF Answer
      <4>2. servers' \cup masters' \cup notYetAdded' \subseteq Servers \ FreeServers
        BY <1>1, <2>1, <4>1 DEF cluster
      <4> QED BY <1>1, <1>d, <2>2, <4>1, <4>2, PeerInUse
    <3> QED BY <3>1, <3>2
  <2> QED BY <1>1, <2>1, <2>2, StepOfAsked
<1>3. CASE NoAnswer(a)
  <2>1. /\ removeServer(v) /\ peer' = [peer EXCEPT ![a] = Done]
        /\ UNCHANGED <<notYetAdded, client>>
    BY <1>3, <1>v DEF NoAnswer
  <2>2. /\ srv' \in [Servers -> ServerRecords \cup {None}]
        /\ sock' \in [Socks -> SocketRecords \cup {None}]
        /\ FreeServers' = FreeServers
        /\ servers' \subseteq servers /\ masters' \subseteq masters
        /\ \A w \in Servers : ServerGoesOn(w)
        /\ \A x \in Socks : SocketGoesOn(x)
    BY <1>1, <2>1, RemovalEffect
  <2>3. servers' \cup masters' \cup notYetAdded' \subseteq Servers \ FreeServers
    BY <1>1, <2>1, <2>2
  <2>4. ServersInUse' BY <1>d, <2>1, <2>2, <2>3, PeerInUse
  <2> QED BY <2>1, <2>2, <2>4, AroundClients
<1>4. CASE Add(a)
  <2>1. /\ addServer(v, peer[a].isMaster) /\ peer' = [peer EXCEPT ![a] = Done]
        /\ UNCHANGED <<notYetAdded, sock>>
    BY <1>4, <1>v DEF Add
  <2>2. /\ srv' \in [Servers -> ServerRecords \cup {None}]
        /\ FreeServers' = FreeServers
        /\ servers' \subseteq servers \cup {v} /\ masters' \subseteq masters \cup {v}
        /\ \A w \in Servers : ServerGoesOn(w)
        /\ \A x \in Socks : SocketGoesOn(x)
    BY <1>1, <2>1, AddingEffect
  <2>3. servers' \cup masters' \cup notYetAdded' \subseteq Servers \ FreeServers
    BY <1>1, <2>1, <2>2
  <2>4. ServersInUse' BY <1>d, <2>1, <2>2, <2>3, PeerInUse
  <2>5. client' = Woken /\ sock' \in [Socks -> SocketRecords \cup {None}]
    BY <2>1 DEF addServer, SocketInv
  <2> QED BY <2>2, <2>4, <2>5, AroundClients
<1> QED BY <1>2, <1>3, <1>4 DEF PeerStep

\* A new server has no sockets.
LEMMA AskingEffect ==
    ASSUME SocketInv, NEW A, Ask(A), UNCHANGED <<sock, cluster, notYetAdded>>
    PROVE  /\ srv' \in [Servers -> ServerRecords \cup {None}]
           /\ ServersInUse'
           /\ \A w \in Servers : ServerGoesOn(w)
           /\ \A x \in Socks : SocketGoesOn(x)
<1> DEFINE who == [a \in A |-> CHOOSE v \in server(a) : TRUE]
<1>1. /\ \A a \in A : server(a) # {}
      /\ peer' = [a \in Addrs |-> IF a \in A THEN Asking(who[a]) ELSE peer[a]]
      /\ srv' = [v \in Servers |-> IF srv[v] = None /\ \E a \in A : who[a] = v
                                   THEN newServer ELSE srv[v]]
  BY DEF Ask
<1>2. \A a \in A : who[a] \in Servers
  <2>1. \A a \in A : who[a] \in server(a) BY <1>1
  <2>2. \A a \in A : server(a) \subseteq Servers
    BY DEF server, At, Free, FreeServers, SocketInv, ServersInUse
  <2> QED BY <2>1, <2>2
<1> HIDE DEF who
<1>3. newServer \in ServerRecords /\ newServer # None /\ newServer.live = {} /\ newServer.unused = <<>>
  <2>1. newServer \in ServerRecords BY NewRecords
  <2>2. newServer # None BY <2>1, ServerRecord
  <2> QED BY <2>1, <2>2 DEF newServer
<1>4. srv' \in [Servers -> ServerRecords \cup {None}]
  <2>1. srv \in [Servers -> ServerRecords \cup {None}] BY DEF SocketInv
  <2> QED BY <1>1, <1>3, <2>1
<1>5. \A w \in Servers \ FreeServers : srv'[w] = srv[w] /\ KeepsLists(w)
  BY <1>1 DEF KeepsLists, FreeServers
<1>6. \A w \in Servers : ServerGoesOn(w)
  <2>1. \A w \in FreeServers : srv'[w] = None \/ srv'[w] = newServer BY <1>1 DEF FreeServers
  <2> QED BY <1>3, <1>5, <2>1 DEF ServerGoesOn, FreeServers, Emptied
<1>7. \A x \in Socks : SocketGoesOn(x) BY <1>5 DEF SocketGoesOn, FreeSocks, dead, Home
<1>8. ServersInUse'
  <2>1. FreeServers' \subseteq FreeServers BY <1>5 DEF FreeServers
  <2>2. ServersInUse BY DEF SocketInv
  <2>3. \A a \in A : who[a] \in Servers \ FreeServers'
    <3>1. \A a \in A : srv'[who[a]] # None BY <1>1, <1>2, <1>3
    <3> QED BY <1>2, <3>1 DEF FreeServers
  <2>4. ASSUME NEW a \in Addrs
        PROVE  /\ DOMAIN peer'[a] = DOMAIN Unseen' /\ peer'[a].isMaster \in BOOLEAN
               /\ peer'[a].pc \in {"ask", "add"} => peer'[a].v \in Servers \ FreeServers'
    <3>0. DOMAIN Unseen' = DOMAIN Unseen BY DEF Unseen
    <3>1. CASE a \in A
      <4>1. peer'[a] = Asking(who[a]) BY <1>1, <3>1
      <4>2. peer'[a].v = who[a] /\ peer'[a].isMaster = FALSE /\ DOMAIN peer'[a] = DOMAIN Unseen
        BY <4>1 DEF Asking, Unseen
      <4> QED BY <2>3, <3>0, <3>1, <4>2
    <3>2. CASE a \notin A
      <4>1. peer'[a] = peer[a] BY <1>1, <3>2
      <4> QED BY <2>1, <2>2, <3>0, <4>1 DEF ServersInUse
    <3> QED BY <3>1, <3>2
  <2>5. DOMAIN peer' = Addrs BY <1>1
  <2>6. servers' \cup masters' \cup notYetAdded' \subseteq Servers \ FreeServers'
    BY <2>1, <2>2 DEF ServersInUse, cluster
  <2> QED BY <2>4, <2>5, <2>6 DEF ServersInUse
<1> QED BY <1>4, <1>6, <1>7, <1>8

\* The goroutines that the answers start.
LEMMA StepOfSpawnedSockets ==
    ASSUME SocketInv, NEW a \in Addrs, SpawnStep(a)
    PROVE  SocketInv'
<1>1. servers \cup masters \cup notYetAdded \subseteq Servers \ FreeServers
  BY DEF SocketInv, ServersInUse
<1>s. sock \in [Socks -> SocketRecords \cup {None}] BY DEF SocketInv
<1>2. CASE AddNamed(a)
  <2>1. PICK v \in notYetAdded : addServer(v, FALSE) /\ notYetAdded' = notYetAdded \ {v}
    BY <1>2 DEF AddNamed, Waiting
  <2>2. v \in Servers \ FreeServers /\ FALSE \in BOOLEAN /\ UNCHANGED <<sock, peer>>
    BY <1>1, <1>2 DEF AddNamed
  <2>3. /\ srv' \in [Servers -> ServerRecords \cup {None}]
        /\ FreeServers' = FreeServers
        /\ servers' \subseteq servers \cup {v} /\ masters' \subseteq masters \cup {v}
        /\ \A w \in Servers : ServerGoesOn(w)
        /\ \A x \in Socks : SocketGoesOn(x)
    BY <2>1, <2>2, AddingEffect
  <2>4. ServersInUse'
    BY <1>1, <2>1, <2>2, <2>3 DEF SocketInv, ServersInUse, Unseen
  <2>5. client' = Woken BY <2>1 DEF addServer
  <2> QED BY <1>s, <2>2, <2>3, <2>4, <2>5, AroundClients
<1>3. ASSUME NEW byMaster, spawnSync(a, byMaster) PROVE SocketInv'
  <2>1. UNCHANGED <<sock, cluster, notYetAdded, client>> BY <1>3 DEF spawnSync
  <2>2. CASE UNCHANGED <<peer, srv>>
    <3>1. ServersInUse' BY <2>1, <2>2 DEF SocketInv, ServersInUse, cluster, FreeServers, Unseen
    <3>2. \A w \in Servers : ServerGoesOn(w)
      BY <2>2 DEF ServerGoesOn, KeepsLists, FreeServers
    <3>3. \A x \in Socks : SocketGoesOn(x)
      BY <2>1, <2>2 DEF SocketGoesOn, KeepsLists, FreeSocks, dead, Home
    <3>4. srv' \in [Servers -> ServerRecords \cup {None}] BY <2>2 DEF SocketInv
    <3> QED BY <1>s, <2>1, <3>1, <3>2, <3>3, <3>4, AroundClients
  <2>3. CASE Ask({a})
    <3>1. /\ srv' \in [Servers -> ServerRecords \cup {None}]
          /\ ServersInUse'
          /\ \A w \in Servers : ServerGoesOn(w)
          /\ \A x \in Socks : SocketGoesOn(x)
      BY <2>1, <2>3, AskingEffect
    <3> QED BY <1>s, <2>1, <3>1, AroundClients
  <2> QED BY <1>3, <2>2, <2>3 DEF spawnSync
<1> QED BY <1>2, <1>3 DEF SpawnStep

\* The loop of the cluster.
LEMMA StepOfLoopSockets ==
    ASSUME SocketInv, LoopStep
    PROVE  SocketInv'
<1>1. servers \cup masters \cup notYetAdded \subseteq Servers \ FreeServers
  BY DEF SocketInv, ServersInUse
<1>s. sock \in [Socks -> SocketRecords \cup {None}] BY DEF SocketInv
<1>2. CASE StartSync
  <2>1. UNCHANGED <<sock, cluster, notYetAdded, client>> /\ Ask(getKnownAddrs) BY <1>2 DEF StartSync
  <2>2. /\ srv' \in [Servers -> ServerRecords \cup {None}]
        /\ ServersInUse'
        /\ \A w \in Servers : ServerGoesOn(w)
        /\ \A x \in Socks : SocketGoesOn(x)
    BY <2>1, AskingEffect
  <2> QED BY <1>s, <2>1, <2>2, AroundClients
<1>3. CASE Poke
  <2>1. UNCHANGED <<srv, sock, cluster, peer, notYetAdded>> /\ client' = Woken BY <1>3 DEF Poke
  <2>2. ServersInUse' BY <2>1 DEF SocketInv, ServersInUse, cluster, FreeServers, Unseen
  <2>3. \A w \in Servers : ServerGoesOn(w)
    BY <2>1 DEF ServerGoesOn, KeepsLists, FreeServers
  <2>4. \A x \in Socks : SocketGoesOn(x)
    BY <2>1 DEF SocketGoesOn, KeepsLists, FreeSocks, dead, Home
  <2>5. srv' \in [Servers -> ServerRecords \cup {None}] BY <2>1 DEF SocketInv
  <2> QED BY <1>s, <2>1, <2>2, <2>3, <2>4, <2>5, AroundClients
<1>4. CASE EndSync
  <2> DEFINE addrs == {v[1] : v \in notYetAdded}
             others == UNION {At(a) : a \in addrs}
             known == notYetAdded \cap servers
  <2>1. others \subseteq servers BY DEF At
  <2>2. \E S, K \in SUBSET (Servers \ FreeServers) :
          /\ S \cap K = {} /\ sock' = Killed(S)
          /\ srv' = [v \in Servers |-> IF v \in K THEN [srv[v] EXCEPT !.master = FALSE] ELSE Closed(S)[v]]
    <3>1. CASE complete
      <4> DEFINE S == notYetAdded \cup others
                 K == {}
      <4>1. S \in SUBSET (Servers \ FreeServers) /\ K \in SUBSET (Servers \ FreeServers) /\ S \cap K = {}
        BY <1>1, <2>1
      <4>2. srv' = Closed(S) /\ sock' = Killed(S) BY <1>4, <3>1 DEF EndSync, Close
      <4>3. Closed(S) = [v \in Servers |-> Closed(S)[v]] BY DEF Closed
      <4> HIDE DEF S
      <4>4. srv' = [v \in Servers |-> IF v \in K THEN [srv[v] EXCEPT !.master = FALSE] ELSE Closed(S)[v]]
        BY <4>2, <4>3
      <4> QED BY <4>1, <4>2, <4>4
    <3>2. CASE ~complete
      <4> DEFINE S == notYetAdded \ known
      <4>1. S \in SUBSET (Servers \ FreeServers) /\ known \in SUBSET (Servers \ FreeServers) /\ S \cap known = {}
        BY <1>1
      <4>2. /\ srv' = [v \in Servers |-> IF v \in known THEN [srv[v] EXCEPT !.master = FALSE]
                                                        ELSE Closed(S)[v]]
            /\ sock' = Killed(S)
        BY <1>4, <3>2 DEF EndSync
      <4> HIDE DEF S, known
      <4> QED BY <4>1, <4>2
    <3> QED BY <3>1, <3>2
  <2>3. /\ srv' \in [Servers -> ServerRecords \cup {None}]
        /\ sock' \in [Socks -> SocketRecords \cup {None}]
        /\ FreeServers' = FreeServers
        /\ \A v \in Servers : ServerGoesOn(v)
        /\ \A x \in Socks : SocketGoesOn(x)
    BY <2>2, ClosingEffect
  <2>4. /\ servers' \subseteq servers /\ masters' \subseteq masters /\ notYetAdded' = {}
        /\ peer' = [a \in Addrs |-> Unseen]
        /\ client' = Woken \/ client' = client
    <3>1. notYetAdded' = {} /\ peer' = [a \in Addrs |-> Unseen] BY <1>4 DEF EndSync
    <3>2. CASE complete BY <1>4, <3>1, <3>2 DEF EndSync
    <3>3. CASE ~complete BY <1>4, <3>1, <3>3 DEF EndSync
    <3> QED BY <3>2, <3>3
  <2>5. ServersInUse' BY <1>1, <2>3, <2>4 DEF ServersInUse, Unseen
  <2> QED BY <2>3, <2>4, <2>5, AroundClients
<1> QED BY <1>2, <1>3, <1>4 DEF LoopStep

\* The network cuts connections.
LEMMA StepOfNet ==
    ASSUME SocketInv, UNCHANGED <<srv, cluster, iteration, client>>,
           \A x \in Socks : \/ sock'[x] = sock[x]
                            \/ /\ sock[x] # None /\ sock[x].state = "open"
                               /\ sock'[x] = [sock[x] EXCEPT !.state = "broken"],
           DOMAIN sock' = Socks, sock' = [x \in Socks |-> sock'[x]]
    PROVE  SocketInv'
<1>1. ASSUME NEW x \in Socks PROVE sock'[x] \in SocketRecords \cup {None} /\ SocketGoesOn(x)
  <2>0. sock[x] \in SocketRecords \cup {None} BY DEF SocketInv
  <2>k. \A v \in Servers : KeepsLists(v) BY DEF KeepsLists
  <2>1. CASE sock'[x] = sock[x]
    BY <2>0, <2>1, <2>k DEF SocketGoesOn, FreeSocks, dead, Home
  <2>2. CASE /\ sock[x] # None /\ sock[x].state = "open"
             /\ sock'[x] = [sock[x] EXCEPT !.state = "broken"]
    <3> DEFINE r == [sock[x] EXCEPT !.state = "broken"]
    <3>1. /\ r \in SocketRecords /\ r.refs = sock[x].refs /\ r.lost = sock[x].lost
          /\ r.server = sock[x].server /\ r.state = "broken"
      <4>1. "broken" \in SocketStates BY DEF SocketStates
      <4>2. sock[x] \in SocketRecords BY <2>0, <2>2
      <4>3. r \in SocketRecords BY <4>1, <4>2, SocketRecord
      <4>4. DOMAIN sock[x] = {"server", "state", "refs", "lost"} BY <4>2, SocketRecord
      <4> QED BY <4>3, <4>4
    <3>2. sock'[x] = r BY <2>2
    <3> HIDE DEF r
    <3>3. r # None BY <3>1, SocketRecord
    <3>4. /\ ~dead(x) /\ Home(x)' = Home(x) /\ sock'[x].state # "open"
      BY <2>2, <3>1, <3>2 DEF dead, Home
    <3> QED BY <2>2, <2>k, <3>1, <3>2, <3>3, <3>4 DEF SocketGoesOn, FreeSocks
  <2> QED BY <2>1, <2>2
<1>2. sock' \in [Socks -> SocketRecords \cup {None}] BY <1>1
<1>3. FreeServers' = FreeServers BY DEF FreeServers
<1>4. ServersInUse' BY <1>3, InUseCarried
<1>5. \A w \in Servers : ServerGoesOn(w) BY DEF ServerGoesOn, KeepsLists, FreeServers
<1>6. srv' \in [Servers -> ServerRecords \cup {None}] BY DEF SocketInv
<1> QED BY <1>1, <1>2, <1>4, <1>5, <1>6, AroundClients

\* A member stops, comes back or is elected, or one connection is cut.
LEMMA StepOfFaults ==
    ASSUME SocketInv, NetStep
    PROVE  SocketInv'
<1>d. DOMAIN sock = Socks /\ sock = [x \in Socks |-> sock[x]] BY DEF SocketInv
<1>1. ASSUME NEW a, sock' = Broken(a), UNCHANGED <<srv, cluster, iteration, client>>
      PROVE  SocketInv'
  <2>1. DOMAIN sock' = Socks /\ sock' = [x \in Socks |-> sock'[x]] BY <1>1 DEF Broken
  <2>2. \A x \in Socks : \/ sock'[x] = sock[x]
                         \/ /\ sock[x] # None /\ sock[x].state = "open"
                            /\ sock'[x] = [sock[x] EXCEPT !.state = "broken"]
    BY <1>1 DEF Broken
  <2> QED BY <1>1, <2>1, <2>2, StepOfNet
<1>2. ASSUME NEW a, Up(a) PROVE SocketInv'
  <2>1. UNCHANGED <<srv, sock, cluster, iteration, client>> BY <1>2 DEF Up
  <2> QED BY <1>d, <2>1, StepOfNet
<1>3. ASSUME NEW s \in Socks, Cut(s) PROVE SocketInv'
  <2>1. /\ UNCHANGED <<srv, cluster, iteration, client>> /\ sock[s] # None /\ sock[s].state = "open"
        /\ sock' = [sock EXCEPT ![s].state = "broken"]
    BY <1>3 DEF Cut
  <2>2. \A x \in Socks : \/ sock'[x] = sock[x]
                         \/ /\ sock[x] # None /\ sock[x].state = "open"
                            /\ sock'[x] = [sock[x] EXCEPT !.state = "broken"]
    BY <1>d, <2>1
  <2>3. DOMAIN sock' = Socks /\ sock' = [x \in Socks |-> sock'[x]] BY <1>d, <2>1
  <2> QED BY <2>1, <2>2, <2>3, StepOfNet
<1>4. ASSUME NEW a, Down(a) \/ Elect(a) PROVE SocketInv'
  <2>1. (\E b : sock' = Broken(b)) /\ UNCHANGED <<srv, cluster, iteration, client>>
    BY <1>4 DEF Down, Elect
  <2> QED BY <1>1, <2>1
<1> QED BY <1>2, <1>3, <1>4 DEF NetStep

\* What is collected is of no use to anything that stays.
LEMMA StepOfCollect ==
    ASSUME SocketInv, masters \subseteq servers, Collect
    PROVE  SocketInv'
<1>1. /\ sock' = [s \in Socks |-> IF s \in Garbage THEN None ELSE sock[s]]
      /\ srv' = [v \in Servers |-> IF v \in GarbageServers THEN None ELSE srv[v]]
      /\ UNCHANGED <<cluster, iteration, client>>
  BY DEF Collect
<1>2. FreeServers' = FreeServers \cup GarbageServers /\ FreeSocks' = FreeSocks \cup Garbage
  BY <1>1 DEF FreeServers, FreeSocks, Garbage, GarbageServers
<1>3. srv' \in [Servers -> ServerRecords \cup {None}] /\ sock' \in [Socks -> SocketRecords \cup {None}]
  <2>1. srv \in [Servers -> ServerRecords \cup {None}] /\ sock \in [Socks -> SocketRecords \cup {None}]
    BY DEF SocketInv
  <2> QED BY <1>1, <2>1
<1>4. \A v \in GarbageServers :
          /\ v \notin servers \cup notYetAdded
          /\ \A a \in Addrs : peer[a].v # v
          /\ \A c \in Clients : client[c].v # v
          /\ \A s \in Socks \ FreeSocks : Home(s) # v
  BY DEF GarbageServers
<1>5. \A s \in Garbage : /\ dead(s) /\ Cached(s) \cup Live(s) = {} /\ Unreferenced(s)
  BY DEF Garbage, dead, Unreferenced
<1>6. ServersInUse' BY <1>1, <1>2, <1>4 DEF SocketInv, ServersInUse, cluster, iteration, Unseen
<1>7. ASSUME NEW c \in Clients PROVE SessionOK(c)'
  <2>1. SessionOK(c) BY DEF SocketInv
  <2>2. Continues(c) BY <1>1 DEF Continues
  <2>3. Stays(client[c].v) BY <1>1, <1>4 DEF Stays, FreeServers
  <2>4. ASSUME client[c].s # None PROVE Remains(client[c].s)
    <3>1. client[c].s \in Held(c) BY <2>4 DEF Held
    <3>2. client[c].s \in Socks \ FreeSocks BY <3>1, HeldByOne
    <3>3. client[c].s \notin Garbage BY <1>5, <3>1 DEF Unreferenced
    <3>4. sock'[client[c].s] = sock[client[c].s] BY <1>1, <3>2, <3>3
    <3> QED BY <1>1, <3>2, <3>4 DEF Remains, FreeSocks, dead, Home
  <2> QED BY <2>1, <2>2, <2>3, <2>4, SessionCarried
<1>8. \A v \in Servers \ FreeServers' : srv'[v] = srv[v] /\ CacheOK(v)'
  <2>1. \A v \in Servers \ FreeServers' : v \in Servers \ FreeServers /\ srv'[v] = srv[v]
    BY <1>1, <1>2
  <2> QED BY <2>1 DEF SocketInv, CacheOK
<1>9. \A s \in Socks : Cached(s)' \subseteq Cached(s) /\ Live(s)' \subseteq Live(s)
  BY <1>2, <1>8 DEF Cached, Live
<1>10. ASSUME NEW s \in Socks \ FreeSocks' PROVE SocketOK(s)'
  <2>1. s \in Socks \ FreeSocks /\ sock'[s] = sock[s] BY <1>1, <1>2
  <2>2. SocketOK(s) BY <2>1 DEF SocketInv
  <2>3. CASE dead(s)
    <3>1. dead(s)' BY <2>1, <2>3 DEF dead
    <3> QED BY <1>1, <1>9, <2>1, <3>1, DeadStaysOK
  <2>4. CASE ~dead(s)
    <3>1. Home(s) \in Servers \ FreeServers /\ Cached(s) \subseteq {Home(s)} BY <2>2, <2>4 DEF SocketOK
    <3>2. Home(s) \in Servers \ FreeServers' /\ srv'[Home(s)] = srv[Home(s)] /\ srv[Home(s)] # None
      <4>1. Home(s) \notin GarbageServers BY <1>4, <2>1
      <4> QED BY <1>2, <1>8, <3>1, <4>1 DEF FreeServers
    <3>3. Cached(s)' = Cached(s)
      <4>1. Home(s) \in Cached(s) => Home(s) \in Cached(s)' BY <3>1, <3>2 DEF Cached
      <4> QED BY <1>9, <3>1, <4>1
    <3>4. \A c \in Clients : Same(c, s) BY <1>1 DEF Same, Held, Uses, Counts
    <3> QED BY <2>1, <2>2, <3>2, <3>3, <3>4, SocketCarried
  <2> QED BY <2>3, <2>4
<1>11. ASSUME NEW s \in FreeSocks' PROVE (Unreferenced(s) /\ Cached(s) \cup Live(s) = {})'
  <2>1. s \in Socks /\ Unreferenced(s) /\ Cached(s) \cup Live(s) = {}
    BY <1>2, <1>5 DEF SocketInv, FreeSocks, Garbage
  <2>2. Unreferenced(s)' BY <1>1, <2>1 DEF Unreferenced, Held
  <2> QED BY <1>9, <2>1, <2>2
<1>12. DOMAIN client' = Clients BY <1>1 DEF SocketInv
<1> QED BY <1>3, <1>6, <1>7, <1>8, <1>10, <1>11, <1>12 DEF SocketInv

\* Every step keeps the books of the sockets.
LEMMA SocketStep ==
    ASSUME SocketInv, TopologySound, [Next]_vars
    PROVE  SocketInv'
<1>1. CASE Collect BY <1>1, StepOfCollect DEF TopologySound
<1>2. CASE SyncStep BY <1>2, StepOfPeerSockets, StepOfSpawnedSockets, StepOfLoopSockets DEF SyncStep
<1>3. ASSUME NEW s \in Socks, Kill(s) PROVE SocketInv'
  BY <1>3, StepOfKill
<1>4. ASSUME NEW c \in Clients, Start(c) PROVE SocketInv'
  BY <1>4, StepOfAcquire DEF Start
<1>5. ASSUME NEW c \in Clients, Call(c) PROVE SocketInv'
  <2>1. CASE Pick(c) BY <2>1, StepOfPick
  <2>2. CASE Wait(c) \/ Unreachable(c) \/ Limited(c) BY <2>2, StepOfWait
  <2>3. CASE Get(c) BY <2>3, StepOfGet
  <2>4. CASE InitialAcquire(c) BY <2>4, StepOfInitialAcquire
  <2>5. CASE Connect(c) BY <2>5, StepOfConnect
  <2>6. CASE AppendLive(c) BY <2>6, StepOfAppendLive
  <2>7. CASE Drop(c) BY <2>7, StepOfDropped
  <2>8. CASE Verify(c) BY <2>8, StepOfVerify
  <2>9. CASE setSocket(c) BY <2>9, StepOfSetSocket
  <2>10. CASE Use(c) BY <2>10, StepOfUse
  <2>11. CASE unsetSocket(c) BY <2>11, StepOfUnsetSocket
  <2>12. CASE RecycleSocket(c) BY <2>12, StepOfRecycle
  <2> QED BY <1>5, <2>1, <2>2, <2>3, <2>4, <2>5, <2>6, <2>7, <2>8, <2>9, <2>10, <2>11, <2>12 DEF Call
<1>6. CASE NetStep BY <1>6, StepOfFaults
<1>7. CASE UNCHANGED vars
  <2>1. UNCHANGED <<srv, sock, cluster, iteration, client>> BY <1>7 DEF vars, cluster, iteration
  <2>2. DOMAIN sock = Socks /\ sock = [x \in Socks |-> sock[x]] BY DEF SocketInv
  <2> QED BY <2>1, <2>2, StepOfNet
<1> QED BY <1>1, <1>2, <1>3, <1>4, <1>5, <1>6, <1>7 DEF Next, Step

\* At first there are no servers and no sockets.
LEMMA SocketsAtFirst == Init => SocketInv
<1> SUFFICES ASSUME Init PROVE SocketInv
  OBVIOUS
<1>1. FreeServers = Servers /\ FreeSocks = Socks BY DEF Init, FreeServers, FreeSocks
<1>2. srv \in [Servers -> ServerRecords \cup {None}] /\ sock \in [Socks -> SocketRecords \cup {None}]
  BY DEF Init
<1>3. ServersInUse BY DEF Init, ServersInUse, Unseen
<1>4. ASSUME NEW c \in Clients PROVE SessionOK(c) /\ \A s \in Socks : s \notin Held(c)
  <2>1. client[c] = NoSession BY DEF Init
  <2>2. /\ NoSession.pc = "idle" /\ NoSession.ms = None /\ NoSession.ss = None
        /\ NoSession.s = None
    BY DEF NoSession
  <2> QED BY <2>1, <2>2 DEF SessionOK, Held, WithSocket, Acquiring
<1>5. \A s \in Socks : Unreferenced(s) /\ Cached(s) \cup Live(s) = {}
  BY <1>1, <1>4 DEF Unreferenced, Cached, Live
<1> QED BY <1>1, <1>2, <1>3, <1>4, <1>5 DEF Init, SocketInv

\* The inductive invariant holds.
THEOREM SocketsKept == Spec => []SocketInv
<1>1. Init => SocketInv BY SocketsAtFirst
<1>2. SocketInv /\ TopologySound /\ [Next]_vars => SocketInv' BY SocketStep
<1> QED BY <1>1, <1>2, OneServerPerAddress, PTL DEF Spec

\* What the steps of clients, goroutines and readLoops leave has its type: a server's live and
\* cached sockets are sockets, the references of a socket are never negative (Release panics
\* when they are), and the cluster lists only servers that exist.
THEOREM TypeCorrect == Spec => []TypeOK
<1>1. ASSUME SocketInv PROVE TypeOK
  <2>1. ASSUME NEW v \in Servers, srv[v] # None
        PROVE  srv[v].live \subseteq Socks /\ ToSet(srv[v].unused) \subseteq Socks
    <3>1. srv[v] \in ServerRecords BY <1>1, <2>1 DEF SocketInv
    <3>2. srv[v].live \subseteq Socks /\ srv[v].unused \in Seq(Socks) BY <3>1, ServerRecord
    <3> QED BY <3>2 DEF ToSet
  <2>2. ASSUME NEW s \in Socks, sock[s] # None
        PROVE  sock[s].state \in SocketStates /\ sock[s].refs \in Nat
    <3>1. sock[s] \in SocketRecords /\ SocketOK(s) BY <1>1, <2>2 DEF SocketInv, FreeSocks
    <3>2. sock[s].state \in SocketStates BY <3>1, SocketRecord
    <3>3. sock[s].refs \in {0, 1, 2} BY <3>1 DEF SocketOK, References
    <3> QED BY <3>2, <3>3
  <2>3. servers \cup masters \subseteq Servers \ FreeServers BY <1>1 DEF SocketInv, ServersInUse
  <2> QED BY <2>1, <2>2, <2>3 DEF TypeOK
<1> QED BY <1>1, SocketsKept, PTL

\* Whatever a step of another goroutine did to its server, an open connection is among the
\* live ones that closing the server kills, or about to be; and it is in its server's cache,
\* or a session or a call has it, exactly when setSocket has not panicked over it.
THEOREM NoConnectionLeaks == Spec => []NothingLeaks
<1>1. SocketInv => NothingLeaks
  <2> SUFFICES ASSUME SocketInv, NEW s \in Socks \ FreeSocks, sock[s].state = "open"
               PROVE  /\ \/ s \in srv[Home(s)].live
                         \/ \E c \in Clients : Is(c, "append") /\ client[c].s = s
                      /\ sock[s].lost <=> Cached(s) = {} /\ \A c \in Clients : s \notin Held(c)
    BY DEF NothingLeaks
  <2>1. SocketOK(s) /\ ~dead(s) BY DEF SocketInv, dead
  <2>2. sock[s].lost \in BOOLEAN BY DEF SocketInv, FreeSocks, SocketRecords
  <2>3. \/ s \in srv[Home(s)].live
        \/ \E c \in Clients : Is(c, "append") /\ client[c].s = s
    BY <2>1 DEF SocketOK, Is
  <2>4. sock[s].lost => Cached(s) = {} /\ Unreferenced(s) BY <2>1 DEF SocketOK
  <2>5. ~sock[s].lost => Cached(s) # {} \/ ~Unreferenced(s) BY <2>1 DEF SocketOK
  <2> QED BY <2>2, <2>3, <2>4, <2>5 DEF Unreferenced
<1> QED BY <1>1, SocketsKept, PTL

\* A set of one or two.
LEMMA Sizes ==
    ASSUME NEW x, NEW y, x # y
    PROVE  Cardinality({x}) = 1 /\ Cardinality({x, y}) = 2 /\ Cardinality({}) = 0
<1>1. Cardinality({}) = 0 BY FS_EmptySet
<1>2. IsFiniteSet({x}) /\ Cardinality({x}) = 1 BY FS_Singleton
<1>3. {x, y} = {x} \cup {y} /\ y \notin {x} OBVIOUS
<1>4. Cardinality({x} \cup {y}) = Cardinality({x}) + 1 BY <1>2, <1>3, FS_AddElement
<1> QED BY <1>1, <1>2, <1>3, <1>4

\* The references of a socket are its holders.
LEMMA ReferencesAreHolders ==
    ASSUME SocketInv, NEW s \in Socks \ FreeSocks
    PROVE  References(s) = Cardinality(Holders(s))
<1>n. s # None BY NoneAssumption
<1>k. DOMAIN NoSession = {"pc", "op", "ms", "ss", "slaveOk", "s", "v", "waits", "abended", "n"}
  BY DEF NoSession
<1>1. CASE Unreferenced(s)
  <2>1. \A c \in Clients : client[c].ms # s /\ client[c].ss # s /\ client[c].s # s
    BY <1>1, <1>n DEF Unreferenced, Held
  <2>2. References(s) = 0 BY <2>1 DEF References, Uses, Counts
  <2>3. Holders(s) = {} BY <2>1 DEF Holders
  <2> QED BY <2>2, <2>3, Sizes
<1>2. ASSUME NEW c \in Clients, s \in Held(c) PROVE References(s) = Cardinality(Holders(s))
  <2>1. SessionOK(c) /\ SocketOK(s) BY DEF SocketInv
  <2>2. \A d \in Clients \ {c} : client[d].ms # s /\ client[d].ss # s /\ client[d].s # s
    BY <1>2, <1>n, <2>1 DEF SocketOK, Held
  <2>3. References(s) = IF Uses(c, s) THEN 2 ELSE IF Counts(c, s) THEN 1 ELSE 0
    BY <2>2 DEF References, Uses, Counts
  <2>4. \A h : h \in Holders(s) <=>
            \/ h = <<c, "ms">> /\ client[c].ms = s
            \/ h = <<c, "ss">> /\ client[c].ss = s
            \/ /\ h = <<c, "s">> /\ client[c].s = s
               /\ client[c].pc \notin {"initial", "recycle", "recycleClosing"}
    <3>1. ASSUME NEW h \in Holders(s)
          PROVE  \/ h = <<c, "ms">> /\ client[c].ms = s
                 \/ h = <<c, "ss">> /\ client[c].ss = s
                 \/ /\ h = <<c, "s">> /\ client[c].s = s
                    /\ client[c].pc \notin {"initial", "recycle", "recycleClosing"}
      <4>1. PICK d \in Clients, f \in {"ms", "ss", "s"} :
                /\ h = <<d, f>> /\ client[d][f] = s
                /\ f = "s" => client[d].pc \notin {"initial", "recycle", "recycleClosing"}
        BY DEF Holders
      <4>2. d = c BY <2>2, <4>1
      <4> QED BY <4>1, <4>2
    <3>2. client[c].ms = s => <<c, "ms">> \in Holders(s) BY DEF Holders
    <3>3. client[c].ss = s => <<c, "ss">> \in Holders(s) BY DEF Holders
    <3>4. client[c].s = s /\ client[c].pc \notin {"initial", "recycle", "recycleClosing"}
             => <<c, "s">> \in Holders(s)
      BY DEF Holders
    <3> QED BY <3>1, <3>2, <3>3, <3>4
  <2>5. /\ Cardinality({<<c, "s">>, <<c, "ms">>}) = 2 /\ Cardinality({<<c, "s">>, <<c, "ss">>}) = 2
        /\ Cardinality({<<c, "s">>}) = 1 /\ Cardinality({<<c, "ms">>}) = 1
        /\ Cardinality({<<c, "ss">>}) = 1 /\ Cardinality({}) = 0
    <3>1. <<c, "s">> # <<c, "ms">> /\ <<c, "s">> # <<c, "ss">> OBVIOUS
    <3>2. \A x, y : x # y => Cardinality({x}) = 1 /\ Cardinality({x, y}) = 2 BY Sizes
    <3>3. Cardinality({<<c, "s">>}) = 1 /\ Cardinality({<<c, "s">>, <<c, "ms">>}) = 2 BY <3>1, <3>2
    <3>4. Cardinality({<<c, "s">>, <<c, "ss">>}) = 2 BY <3>1, <3>2
    <3>5. Cardinality({<<c, "ms">>}) = 1 /\ Cardinality({<<c, "ss">>}) = 1 BY <3>1, <3>2
    <3> QED BY <3>3, <3>4, <3>5, FS_EmptySet
  <2>6. CASE Uses(c, s)
    <3>1. client[c].s = s /\ client[c].pc = "use" BY <2>6 DEF Uses
    <3>2. (client[c].ms = s /\ client[c].ss # s) \/ (client[c].ss = s /\ client[c].ms # s)
      BY <1>n, <2>1, <3>1 DEF SessionOK
    <3>3. Holders(s) = {<<c, "s">>, <<c, "ms">>} \/ Holders(s) = {<<c, "s">>, <<c, "ss">>}
      BY <2>4, <3>1, <3>2
    <3> QED BY <2>3, <2>5, <2>6, <3>3
  <2>7. CASE ~Uses(c, s) /\ Counts(c, s)
    <3>1. CASE s \in {client[c].ms, client[c].ss}
      <4>1. client[c].s # s BY <1>n, <2>1, <2>7, <3>1 DEF SessionOK, Uses
      <4>2. (client[c].ms = s /\ client[c].ss # s) \/ (client[c].ss = s /\ client[c].ms # s)
        BY <1>n, <2>1, <3>1 DEF SessionOK
      <4>3. Holders(s) = {<<c, "ms">>} \/ Holders(s) = {<<c, "ss">>} BY <2>4, <4>1, <4>2
      <4> QED BY <2>3, <2>5, <2>7, <4>3
    <3>2. CASE s \notin {client[c].ms, client[c].ss}
      <4>1. client[c].s = s /\ client[c].pc \in {"append", "verify", "reserve"}
        BY <2>7, <3>2 DEF Counts
      <4>2. Holders(s) = {<<c, "s">>} BY <2>4, <3>2, <4>1
      <4> QED BY <2>3, <2>5, <2>7, <4>2
    <3> QED BY <3>1, <3>2
  <2>8. CASE ~Uses(c, s) /\ ~Counts(c, s)
    <3>1. client[c].s = s /\ s \notin {client[c].ms, client[c].ss} BY <1>2, <2>8 DEF Counts, Held
    <3>2. client[c].pc \in {"initial", "recycle", "recycleClosing"}
      BY <1>n, <2>1, <2>8, <3>1 DEF SessionOK, WithSocket, Uses, Counts
    <3>3. Holders(s) = {} BY <2>4, <3>1, <3>2
    <3> QED BY <2>3, <2>5, <2>8, <3>3
  <2> QED BY <2>6, <2>7, <2>8
<1> QED BY <1>1, <1>2 DEF Unreferenced

\* A set with no two members has at most one.
LEMMA AtMostOne ==
    ASSUME NEW S, \A x, y \in S : x = y
    PROVE  Cardinality(S) <= 1 /\ (S # {} => Cardinality(S) = 1)
<1>1. CASE S = {} BY <1>1, FS_EmptySet
<1>2. ASSUME NEW x \in S PROVE Cardinality(S) = 1
  <2>1. S = {x} OBVIOUS
  <2> QED BY <2>1, FS_Singleton
<1> QED BY <1>1, <1>2

\* A socket has one reference for every session and call that holds it, a cached one is held
\* by nobody and is in its server's cache once, and no two sessions have the same, whatever
\* closes, kills and removes it on the way.
THEOREM ReferencesBalance == Spec => []SocketsBalanced
<1>1. ASSUME SocketInv, NEW s \in Socks \ FreeSocks
      PROVE  /\ sock[s].refs = IF sock[s].lost THEN 2 ELSE Cardinality(Holders(s))
             /\ Cached(s) # {} =>
                  /\ \A c \in Clients : s \notin Held(c)
                  /\ \A v \in Cached(s) : v = Home(s) \/ dead(s)
                  /\ Cardinality(Cached(s)) = 1
             /\ Cardinality({c \in Clients : s \in Held(c)}) <= 1
  <2>1. SocketOK(s) BY <1>1 DEF SocketInv
  <2>2. sock[s].refs = IF sock[s].lost THEN 2 ELSE Cardinality(Holders(s))
    BY <1>1, <2>1, ReferencesAreHolders DEF SocketOK
  <2>3. Cached(s) # {} => Cardinality(Cached(s)) = 1
    <3>1. \A v, w \in Cached(s) : v = w BY <2>1 DEF SocketOK
    <3> QED BY <3>1, AtMostOne
  <2>4. Cached(s) # {} => /\ \A c \in Clients : s \notin Held(c)
                          /\ \A v \in Cached(s) : v = Home(s) \/ dead(s)
    BY <2>1 DEF SocketOK, Unreferenced
  <2>5. Cardinality({c \in Clients : s \in Held(c)}) <= 1
    <3> DEFINE S == {c \in Clients : s \in Held(c)}
    <3>1. \A c, d \in S : c = d BY <2>1 DEF SocketOK
    <3> HIDE DEF S
    <3>2. Cardinality(S) <= 1 BY <3>1, AtMostOne
    <3> QED BY <3>2 DEF S
  <2> QED BY <2>2, <2>3, <2>4, <2>5
<1>2. SocketInv => SocketsBalanced BY <1>1 DEF SocketsBalanced
<1> QED BY <1>2, SocketsKept, PTL

=============================================================================
