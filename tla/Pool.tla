-------------------------------- MODULE Pool --------------------------------
(***************************************************************************)
(* The connections of the mongo driver: labix.org/v2/mgo's sessions, the   *)
(* cluster and its synchronisation loop, the servers with their caches of  *)
(* sockets, and the references that decide when a socket goes back into a  *)
(* cache.  A request of the server opens a session and closes it again;    *)
(* the expiry loop keeps one.                                              *)
(*                                                                         *)
(* A step is a section under a lock or a call to the network.  The objects *)
(* of mongoServer and mongoSocket have ids that are used again (Collect)   *)
(* when nothing refers to them.                                            *)
(***************************************************************************)
EXTENDS Integers, SequencesExt, FiniteSetsExt

CONSTANTS
    Addrs,      \* the addresses of the members of the replica set
    Seeds,      \* the addresses that were dialled
    Clients,    \* what uses sessions
    Steady,     \* the clients that keep their session for ever
    Scenarios,  \* the cases: [members, primary, clients, limit (of sockets), request (its operations), faults (how many), kinds]
    MaxObjects, \* how many objects of one origin there are at a time (a bound)
    MaxWaits,   \* how often an operation waits for a server before it times out (a bound)
    None

ASSUME PoolAssumption ==
    /\ Seeds \subseteq Addrs /\ Seeds # {} /\ Steady \subseteq Clients
    /\ Addrs \cap Clients = {} /\ MaxObjects \in Nat /\ MaxWaits \in Nat \ {0}

\* A mongoServer is named after its address, a mongoSocket after who connected it, a client
\* or the synchronisation of an address.
Servers == Addrs \X (1 .. MaxObjects)
Socks == (Addrs \cup Clients) \X (1 .. MaxObjects)

VARIABLES
    up,         \* up[a]: the member at a answers
    primary,    \* the member that is master
    scenario,   \* the case, with the faults still to come
    srv,        \* srv[v]: a mongoServer, or None
    sock,       \* sock[s]: a mongoSocket, or None
    servers,    \* cluster.servers
    masters,    \* cluster.masters
    dynaSeeds,  \* cluster.dynaSeeds
    loop,       \* where syncServersLoop is
    peer,       \* peer[a]: the goroutine of the iteration that asks a
    spawned,    \* goroutines that have just been started: address and byMaster
    notYetAdded, addIfFound, complete,          \* the iteration's
    client,     \* client[c]: its session and the call it is in
    answer      \* answer[c]: how its last operation ended

net == <<up, primary, scenario>>
cluster == <<servers, masters, dynaSeeds>>
iteration == <<loop, peer, spawned, notYetAdded, addIfFound, complete>>
Members == scenario.members
Active == scenario.clients
vars == <<net, srv, sock, cluster, iteration, client, answer>>

-----------------------------------------------------------------------------
(* Objects.                                                                *)

\* A socket: connected; cut off, but its readLoop has not seen it; killed.
SocketStates == {"open", "broken", "dead"}
dead(s) == sock[s].state = "dead"
Home(s) == sock[s].server

ServerRecords == [closed : BOOLEAN, master : BOOLEAN, abended : BOOLEAN,
                  live : SUBSET Socks, unused : Seq(Socks)]
SocketRecords == [server : Servers \cup {None}, state : SocketStates, refs : Int, lost : BOOLEAN]

ASSUME NoneAssumption ==
    None \notin Servers \cup Socks /\ None \notin ServerRecords /\ None \notin SocketRecords

newSocket(v) == [server |-> v, state |-> "open", refs |-> 1, lost |-> FALSE]
newServer == [closed |-> FALSE, master |-> FALSE, abended |-> FALSE,
                 live |-> {}, unused |-> <<>>]

FreeServers == {v \in Servers : srv[v] = None}
FreeSocks == {s \in Socks : sock[s] = None}
Free(o, ids) == {x \in ids : x[1] = o /\ \A y \in ids : y[1] = o => x[2] <= y[2]}
At(a) == {v \in servers : v[1] = a}

Held(c) == {client[c].ms, client[c].ss, client[c].s} \ {None}
Cached(s) == {v \in Servers \ FreeServers : Contains(srv[v].unused, s)}
Live(s) == {v \in Servers \ FreeServers : s \in srv[v].live}

Garbage == {s \in Socks \ FreeSocks :
    /\ sock[s].state = "dead" /\ (sock[s].refs = 0 \/ sock[s].lost)
    /\ Cached(s) \cup Live(s) = {} /\ \A c \in Clients : s \notin Held(c)}
GarbageServers == {v \in Servers \ FreeServers :
    /\ v \notin servers \cup notYetAdded
    /\ \A a \in Addrs : peer[a].v # v
    /\ \A c \in Clients : client[c].v # v
    /\ \A s \in Socks \ FreeSocks : Home(s) # v}
Clean == Garbage = {} /\ GarbageServers = {}

\* The garbage collector goes before every other step.
Collect ==
    /\ ~Clean
    /\ sock' = [s \in Socks |-> IF s \in Garbage THEN None ELSE sock[s]]
    /\ srv' = [v \in Servers |-> IF v \in GarbageServers THEN None ELSE srv[v]]
    /\ UNCHANGED <<net, cluster, iteration, client, answer>>

-----------------------------------------------------------------------------
(* Sockets and servers.                                                    *)

Refs(s, n) == [sock EXCEPT ![s].refs = @ + n]

Dead(s) == [sock[s] EXCEPT !.state = "dead", !.server = None]

\* Close: closed, its lists emptied, its live sockets killed.
Closed(S) == [v \in Servers |-> IF v \in S THEN [srv[v] EXCEPT !.closed = TRUE, !.live = {},
                                                    !.unused = <<>>]
                                           ELSE srv[v]]
Killed(S) == [s \in Socks |-> IF \E v \in S : s \in srv[v].live /\ ~dead(s) THEN Dead(s)
                                                                          ELSE sock[s]]
Close(S) == srv' = Closed(S) /\ sock' = Killed(S)

\* RecycleSocket, unless the server is closed.
Recycled(v, s) == IF srv[v].closed THEN srv ELSE [srv EXCEPT ![v].unused = Append(@, s)]

\* A list of sockets without one of them.
removeSocket(q, s) ==
    IF Contains(q, s) THEN RemoveAt(q, CHOOSE i \in DOMAIN q : q[i] = s) ELSE q

\* readLoop finds the connection gone: kill, and AbendSocket at the server.
Abended(v, s) == IF srv[v].closed THEN [srv[v] EXCEPT !.abended = TRUE]
                 ELSE [srv[v] EXCEPT !.abended = TRUE, !.live = @ \ {s}, !.unused = removeSocket(@, s)]
Kill(s) ==
    /\ sock[s] # None /\ sock[s].state = "broken"
    /\ sock' = [sock EXCEPT ![s] = Dead(s)]
    /\ srv' = [srv EXCEPT ![Home(s)] = Abended(Home(s), s)]
    /\ UNCHANGED <<net, cluster, iteration, client, answer>>

\* MostAvailable: a slave if there is one; pings decide the rest.
MostAvailable(S) == LET slaves == {v \in S : ~srv[v].master}
                    IN  IF slaves = {} THEN S ELSE slaves

-----------------------------------------------------------------------------
(* The cluster.                                                            *)

\* removeServer takes out whatever server has the address.
removeServer(v) ==
    LET others == At(v[1])
    IN  /\ servers' = servers \ others
        /\ masters' = {w \in masters : w[1] # v[1]}
        /\ Close(others \cup {v})

\* Broadcast: everyone who waits for the cluster looks at it again.
Woken == [c \in Clients |-> IF client[c].pc = "waiting" THEN [client[c] EXCEPT !.pc = "pick"]
                                                        ELSE client[c]]

\* addServer in a complete sync.  A server that was removed meanwhile is added again as it
\* is: its master flag is set but never reset here.
Marked(v, isMaster) == IF At(v[1]) = {} THEN isMaster \/ srv[v].master ELSE isMaster
\* Mutant of Listed: a server that is no longer master stays in the list.
ListedStill(v, isMaster) == IF isMaster THEN masters \cup {v} ELSE masters
Listed(v, isMaster) ==
    IF At(v[1]) # {} /\ srv[v].master = isMaster THEN masters
    ELSE IF isMaster THEN masters \cup {v} ELSE masters \ {v}
addServer(v, isMaster) ==
    /\ servers' = servers \cup {v}
    /\ masters' = Listed(v, isMaster)
    /\ srv' = [srv EXCEPT ![v].master = Marked(v, isMaster)]
    /\ client' = Woken

getKnownAddrs == Seeds \cup dynaSeeds \cup {v[1] : v \in servers}

Asking(v) == [pc |-> "ask", v |-> v, isMaster |-> FALSE]
Unseen == [pc |-> "unseen", v |-> None, isMaster |-> FALSE]
Done == [Unseen EXCEPT !.pc = "done"]

\* Mutant of server: a new object for an address that has one.
serverNew(a) == Free(a, FreeServers)
\* cluster.server: the one that has the address, or a new one.
server(a) == IF At(a) # {} THEN At(a) ELSE Free(a, FreeServers)

\* The goroutines that ask the members at the addresses A (as far as MaxObjects allows).
Ask(A) ==
    LET who == [a \in A |-> CHOOSE v \in server(a) : TRUE]
    IN  /\ \A a \in A : server(a) # {}
        /\ peer' = [a \in Addrs |-> IF a \in A THEN Asking(who[a]) ELSE peer[a]]
        /\ srv' = [v \in Servers |-> IF srv[v] = None /\ \E a \in A : who[a] = v
                                     THEN newServer ELSE srv[v]]

\* syncServersLoop starts an iteration with every known address.
StartSync ==
    /\ loop = "wait"
    /\ loop' = "run"
    /\ Ask(getKnownAddrs)
    /\ UNCHANGED <<net, sock, cluster, spawned, notYetAdded, addIfFound, complete, client, answer>>

\* syncServer: a socket, "ismaster" and Release, and what follows from the answer, in one
\* step.  Dead sockets on top of the cache are dropped; of the three tries the last counts.
LiveTop(v) == LET idle == {i \in DOMAIN srv[v].unused : ~dead(srv[v].unused[i])}
              IN  IF idle = {} THEN 0 ELSE Max(idle)
Asked(a, v) ==
    /\ ~srv[v].closed
    /\ IF LiveTop(v) # 0
       THEN /\ sock[srv[v].unused[LiveTop(v)]].state = "open"
            /\ srv' = [srv EXCEPT ![v].unused = SubSeq(@, 1, LiveTop(v))]
            /\ UNCHANGED sock
       ELSE \E s \in Free(a, FreeSocks) :
            /\ sock' = [sock EXCEPT ![s] = [newSocket(v) EXCEPT !.refs = 0]]
            /\ srv' = [srv EXCEPT ![v].live = @ \cup {s}, ![v].unused = <<s>>]

\* A member knows all the others.  One that is asked already is not asked again, but counts
\* as named by the master.
Spawned(a, byMaster) ==
    spawned \cup {<<b, byMaster>> : b \in {b \in Members \ {a} : byMaster \/ peer[b] = Unseen}}

\* The answer of the master counts, and of a member that the master has named; the others wait.
\* Mutant of Vouched: being named by the master does not count.
VouchedByRole(a) == primary = a
Vouched(a) == primary = a \/ a \in addIfFound
Answer(a) ==
    /\ peer[a].pc = "ask" /\ up[a]
    /\ Asked(a, peer[a].v)
    /\ IF Vouched(a)
       THEN /\ complete' = TRUE
            /\ peer' = [peer EXCEPT ![a] = [@ EXCEPT !.pc = "add", !.isMaster = (primary = a)]]
            /\ UNCHANGED <<notYetAdded, spawned>>
       ELSE /\ notYetAdded' = notYetAdded \cup {peer[a].v}
            /\ spawned' = Spawned(a, FALSE)
            /\ peer' = [peer EXCEPT ![a] = Done]
            /\ UNCHANGED complete
    /\ UNCHANGED <<net, cluster, loop, addIfFound, client, answer>>
NoAnswer(a) ==
    /\ peer[a].pc = "ask"
    /\ ~up[a] \/ srv[peer[a].v].closed
    /\ removeServer(peer[a].v)
    /\ peer' = [peer EXCEPT ![a] = Done]
    /\ UNCHANGED <<net, dynaSeeds, loop, spawned, notYetAdded, addIfFound, complete,
                   client, answer>>
Add(a) ==
    /\ peer[a].pc = "add"
    /\ addServer(peer[a].v, peer[a].isMaster)
    /\ spawned' = Spawned(a, peer[a].isMaster)
    /\ peer' = [peer EXCEPT ![a] = Done]
    /\ UNCHANGED <<net, sock, dynaSeeds, loop, notYetAdded, addIfFound, complete, answer>>

\* spawnSync: a member named by the master is added if it has answered before.
Waiting(a) == {v \in notYetAdded : v[1] = a}
AddNamed(a) ==
    /\ <<a, TRUE>> \in spawned
    /\ \E v \in Waiting(a) : addServer(v, FALSE) /\ notYetAdded' = notYetAdded \ {v}
    /\ spawned' = spawned \ {<<a, TRUE>>}
    /\ UNCHANGED <<net, sock, dynaSeeds, loop, peer, addIfFound, complete, answer>>
spawnSync(a, byMaster) ==
    /\ <<a, byMaster>> \in spawned
    /\ byMaster => Waiting(a) = {}
    /\ spawned' = spawned \ {<<a, byMaster>>}
    /\ addIfFound' = IF byMaster THEN addIfFound \cup {a} ELSE addIfFound
    /\ IF peer[a] = Unseen THEN Ask({a}) ELSE UNCHANGED <<peer, srv>>
    /\ UNCHANGED <<net, sock, cluster, loop, notYetAdded, complete, client, answer>>

\* The iteration is over.  Known servers that no master named are dropped after a complete
\* sync; after a partial one they are slaves, and unknown ones are closed.
EndSync ==
    /\ loop = "run" /\ spawned = {}
    /\ \A a \in Addrs : peer[a].pc \in {"unseen", "done"}
    /\ LET addrs == {v[1] : v \in notYetAdded}
           others == UNION {At(a) : a \in addrs}
           known == notYetAdded \cap servers
       IN  IF complete
           THEN /\ servers' = servers \ others
                /\ masters' = {v \in masters : v[1] \notin addrs}
                /\ Close(notYetAdded \cup others)
                /\ dynaSeeds' = {v[1] : v \in servers \ others}
                /\ UNCHANGED client
           ELSE /\ masters' = masters \ known
                /\ srv' = [v \in Servers |-> IF v \in known THEN [srv[v] EXCEPT !.master = FALSE]
                                                            ELSE Closed(notYetAdded \ known)[v]]
                /\ sock' = Killed(notYetAdded \ known)
                /\ client' = IF known = {} THEN client ELSE Woken
                /\ UNCHANGED <<servers, dynaSeeds>>
    /\ loop' = "sleep"
    /\ peer' = [a \in Addrs |-> Unseen]
    /\ notYetAdded' = {} /\ addIfFound' = {} /\ complete' = FALSE
    /\ UNCHANGED <<net, spawned, answer>>

\* Nobody is about to remove a server: that takes no call to the network.
Prompt == \A c \in Clients : ~(client[c].pc = "drop" \/ (client[c].pc = "get" /\ srv[client[c].v].closed))

\* Half a second later, which outlasts a removal, all waiters are poked.  The next iteration
\* starts at once, when it is asked for or after 30 seconds: cluster.sync only brings it forward.
Poke ==
    /\ loop = "sleep" /\ Prompt
    /\ loop' = "wait"
    /\ client' = Woken
    /\ UNCHANGED <<net, srv, sock, cluster, peer, spawned, notYetAdded, addIfFound, complete, answer>>

-----------------------------------------------------------------------------
(* Sessions: an operation takes the reserved socket or acquires one.       *)

NoSession == [pc |-> "idle", op |-> "read", ms |-> None, ss |-> None, slaveOk |-> TRUE,
              s |-> None, v |-> None, waits |-> 0, abended |-> FALSE, n |-> 0]
Is(c, pc) == client[c].pc = pc
Set(c, r) == client' = [client EXCEPT ![c] = r]
To(c, pc) == Set(c, [client[c] EXCEPT !.pc = pc])
slaveOk(c) == client[c].op = "read" /\ client[c].slaveOk

\* The operation is over; a request makes two, then closes its session.
Ended(c, r, a) ==
    /\ answer' = [answer EXCEPT ![c] = a]
    /\ Set(c, [r EXCEPT !.pc = IF c \in Steady THEN "ready"
                               ELSE IF r.n + 1 = Len(scenario.request) \/ a = "panic" THEN "closing" ELSE "ready",
                        !.n = IF c \in Steady THEN 0 ELSE @ + 1,
                        !.op = "read", !.s = None, !.v = None, !.waits = 0, !.abended = FALSE])

\* session.acquireSocket: the socket the session holds, dead or not.  The expiry loop only
\* removes what it has found.
reserved(c, op) == IF client[c].ms # None THEN client[c].ms
                   ELSE IF op = "read" /\ client[c].slaveOk THEN client[c].ss ELSE None
acquireSocket(c, op) ==
    /\ c \in Active
    /\ client[c].pc \in {"idle", "ready"}
    /\ op = scenario.request[client[c].n + 1]
    /\ c \in Steady /\ op = "write" => answer[c] = "ok"
    /\ LET s == reserved(c, op)
       IN  IF s # None
           THEN /\ sock' = Refs(s, 1)
                /\ Set(c, [client[c] EXCEPT !.pc = "use", !.op = op, !.s = s])
           ELSE /\ Set(c, [client[c] EXCEPT !.pc = "pick", !.op = op])
                /\ UNCHANGED sock
    /\ UNCHANGED <<net, srv, cluster, iteration, answer>>

\* cluster.AcquireSocket: a server, or wait for one.
Candidates(c) == IF slaveOk(c) THEN servers ELSE masters
Pick(c) ==
    /\ Is(c, "pick")
    /\ \E v \in MostAvailable(Candidates(c)) : Set(c, [client[c] EXCEPT !.pc = "get", !.v = v])
    /\ UNCHANGED <<net, srv, sock, cluster, iteration, answer>>
Wait(c) ==
    /\ Is(c, "pick")
    /\ Candidates(c) = {}
    /\ client[c].waits < MaxWaits
    /\ Set(c, [client[c] EXCEPT !.pc = "waiting", !.waits = @ + 1])
    /\ UNCHANGED <<net, srv, sock, cluster, iteration, answer>>
Unreachable(c) ==
    /\ Is(c, "pick")
    /\ Candidates(c) = {}
    /\ client[c].waits > 0
    /\ Ended(c, client[c], "error")
    /\ UNCHANGED <<net, srv, sock, cluster, iteration>>

InUse(v) == Cardinality(srv[v].live) - Len(srv[v].unused)
\* Mutant of Popped: the socket stays in the cache.
PoppedNot(v) == srv
Popped(v) == [srv EXCEPT ![v].unused = Front(@)]
Get(c) ==
    /\ Is(c, "get")
    /\ LET v == client[c].v
           r == [client[c] EXCEPT !.abended = srv[v].abended]
           unused == srv[v].unused
       IN  /\ srv[v].closed \/ InUse(v) < scenario.limit
           /\ IF srv[v].closed
              THEN Set(c, [r EXCEPT !.pc = "drop"]) /\ UNCHANGED srv
              ELSE IF unused # <<>>
              THEN /\ srv' = Popped(v)
                   /\ Set(c, [r EXCEPT !.pc = "initial", !.s = Last(unused)])
              ELSE Set(c, [r EXCEPT !.pc = "connect"]) /\ UNCHANGED srv
    /\ UNCHANGED <<net, sock, cluster, iteration, answer>>
\* Sleep and look at the servers again.
Limited(c) ==
    /\ Is(c, "get")
    /\ LET v == client[c].v IN ~srv[v].closed /\ InUse(v) >= scenario.limit
    /\ Set(c, [client[c] EXCEPT !.pc = "pick", !.v = None])
    /\ UNCHANGED <<net, srv, sock, cluster, iteration, answer>>

\* A server that has lost a socket must show that it is still master before it is written to.
Got(c) == IF client[c].abended /\ ~slaveOk(c) THEN "verify" ELSE "reserve"
InitialAcquire(c) ==
    /\ Is(c, "initial")
    /\ IF dead(client[c].s)
       THEN Set(c, [client[c] EXCEPT !.pc = "get", !.s = None]) /\ UNCHANGED sock
       ELSE To(c, Got(c)) /\ sock' = Refs(client[c].s, 1)
    /\ UNCHANGED <<net, srv, cluster, iteration, answer>>
Connect(c) ==
    /\ Is(c, "connect")
    /\ IF up[client[c].v[1]]
       THEN \E s \in Free(c, FreeSocks) :
               /\ sock' = [sock EXCEPT ![s] = newSocket(client[c].v)]
               /\ Set(c, [client[c] EXCEPT !.pc = "append", !.s = s])
       ELSE To(c, "drop") /\ UNCHANGED sock
    /\ UNCHANGED <<net, srv, cluster, iteration, answer>>
\* The connection took a while: the server may be closed now, the socket may be dead.
\* Mutant of Gone: nobody looks whether the server was closed meanwhile.
GoneNever(v) == FALSE
Gone(v) == srv[v].closed
AppendLive(c) ==
    /\ Is(c, "append")
    /\ LET v == client[c].v
           s == client[c].s
       IN  IF Gone(v)
           THEN /\ sock' = [sock EXCEPT ![s].refs = @ - 1,
                                        ![s].state = "dead", ![s].server = None]
                /\ Set(c, [client[c] EXCEPT !.pc = "drop", !.s = None])
                /\ UNCHANGED srv
           ELSE /\ srv' = [srv EXCEPT ![v].live = @ \cup {s}]
                /\ To(c, Got(c))
                /\ UNCHANGED sock
    /\ UNCHANGED <<net, cluster, iteration, answer>>
Drop(c) ==
    /\ Is(c, "drop")
    /\ removeServer(client[c].v)
    /\ Set(c, [client[c] EXCEPT !.pc = "pick", !.v = None])
    /\ UNCHANGED <<net, dynaSeeds, iteration, answer>>

Confirmed(c) == sock[client[c].s].state = "open" /\ primary = client[c].v[1]
Verify(c) ==
    /\ Is(c, "verify")
    /\ IF Confirmed(c)
       THEN To(c, "reserve") /\ UNCHANGED sock
       ELSE /\ sock' = Refs(client[c].s, -1)
            /\ Set(c, IF dead(client[c].s)
                      THEN [client[c] EXCEPT !.pc = "pick", !.s = None, !.v = None]
                      ELSE [client[c] EXCEPT !.pc = "recycle"])
    /\ UNCHANGED <<net, srv, cluster, iteration, answer>>

\* setSocket: as the master's socket if it is one now, else as a slave's.
isMaster(s) == ~dead(s) /\ srv[Home(s)].master
setSocket(c) ==
    /\ Is(c, "reserve")
    /\ LET s == client[c].s
           r == [client[c] EXCEPT !.slaveOk = @ /\ client[c].op = "read", !.v = None]
       IN  IF isMaster(s)
           THEN /\ Set(c, [r EXCEPT !.pc = "use", !.ms = s])
                /\ sock' = Refs(s, 1)
                /\ UNCHANGED answer
           ELSE IF client[c].ss = None
           THEN /\ Set(c, [r EXCEPT !.pc = "use", !.ss = s])
                /\ sock' = Refs(s, 1)
                /\ UNCHANGED answer
           \* "existing slave socket reserved": the two references are never given back.
           ELSE /\ Ended(c, client[c], "panic")
                /\ sock' = [sock EXCEPT ![s].refs = @ + 1, ![s].lost = TRUE]
    /\ UNCHANGED <<net, srv, cluster, iteration>>

\* The operation itself, and the Release of its reference.
Works(c) == LET s == client[c].s
            IN  sock[s].state = "open" /\ (primary = Home(s)[1] \/ slaveOk(c))
Use(c) ==
    /\ Is(c, "use")
    /\ Ended(c, client[c], IF Works(c) THEN "ok" ELSE "error")
    /\ sock' = Refs(client[c].s, -1)
    /\ UNCHANGED <<net, srv, cluster, iteration>>

\* Close: the reserved sockets are released; the last reference puts one back in its cache.
unsetSocket(c) ==
    /\ Is(c, "closing")
    /\ LET s == IF client[c].ms # None THEN client[c].ms ELSE client[c].ss
           r == IF client[c].ms # None THEN [client[c] EXCEPT !.ms = None]
                                       ELSE [client[c] EXCEPT !.ss = None]
       IN  IF s = None
           THEN Set(c, NoSession) /\ UNCHANGED sock
           ELSE /\ sock' = Refs(s, -1)
                /\ Set(c, IF sock[s].refs > 1 \/ dead(s) THEN r
                          ELSE [r EXCEPT !.pc = "recycleClosing", !.s = s, !.v = Home(s)])
    /\ UNCHANGED <<net, srv, cluster, iteration, answer>>
RecycleSocket(c) ==
    /\ Is(c, "recycle") \/ Is(c, "recycleClosing")
    /\ srv' = Recycled(client[c].v, client[c].s)
    /\ Set(c, [client[c] EXCEPT !.pc = IF @ = "recycle" THEN "pick" ELSE "closing",
                                !.s = None, !.v = None])
    /\ UNCHANGED <<net, sock, cluster, iteration, answer>>

-----------------------------------------------------------------------------
(* The network (external).  A member that stops, or loses an election,     *)
(* drops its connections.                                                  *)

Broken(a) == [s \in Socks |->
    IF sock[s] # None /\ sock[s].state = "open" /\ Home(s)[1] = a
    THEN [sock[s] EXCEPT !.state = "broken"] ELSE sock[s]]
Fault(kind) == kind \in scenario.kinds /\ scenario.faults > 0 /\ scenario' = [scenario EXCEPT !.faults = @ - 1]

Down(a) ==
    /\ up[a] /\ Fault("down")
    /\ up' = [up EXCEPT ![a] = FALSE]
    /\ sock' = Broken(a)
    /\ UNCHANGED <<primary, srv, cluster, iteration, client, answer>>
Up(a) ==
    /\ ~up[a]
    /\ up' = [up EXCEPT ![a] = TRUE]
    /\ UNCHANGED <<primary, scenario, srv, sock, cluster, iteration, client, answer>>
Elect(a) ==
    /\ a # primary /\ up[a] /\ Fault("elect")
    /\ primary' = a
    /\ sock' = Broken(primary)
    /\ UNCHANGED <<up, srv, cluster, iteration, client, answer>>
Cut(s) ==
    /\ sock[s] # None /\ sock[s].state = "open" /\ Fault("cut")
    /\ sock' = [sock EXCEPT ![s].state = "broken"]
    /\ UNCHANGED <<up, primary, srv, cluster, iteration, client, answer>>

-----------------------------------------------------------------------------
Init ==
    /\ scenario \in Scenarios
    /\ up = [a \in Addrs |-> TRUE] /\ primary = scenario.primary
    /\ srv = [v \in Servers |-> None] /\ sock = [s \in Socks |-> None]
    /\ servers = {} /\ masters = {} /\ dynaSeeds = {}
    /\ loop = "wait" /\ peer = [a \in Addrs |-> Unseen] /\ spawned = {}
    /\ notYetAdded = {} /\ addIfFound = {} /\ complete = FALSE
    /\ client = [c \in Clients |-> NoSession] /\ answer = [c \in Clients |-> "none"]

LoopStep == StartSync \/ EndSync \/ Poke
PeerStep(a) == Answer(a) \/ NoAnswer(a) \/ Add(a)
SpawnStep(a) == AddNamed(a) \/ spawnSync(a, TRUE) \/ spawnSync(a, FALSE)
SyncStep == LoopStep \/ \E a \in Addrs : PeerStep(a) \/ SpawnStep(a)
Start(c) == \E op \in {"read", "write"} : acquireSocket(c, op)
Call(c) ==
    \/ Pick(c) \/ Wait(c) \/ Unreachable(c) \/ Get(c) \/ Limited(c) \/ InitialAcquire(c)
    \/ Connect(c) \/ AppendLive(c) \/ Drop(c) \/ Verify(c) \/ setSocket(c) \/ Use(c)
    \/ unsetSocket(c) \/ RecycleSocket(c)
NetStep == \/ \E a \in Members : Down(a) \/ Up(a) \/ Elect(a)
           \/ \E s \in Socks : Cut(s)

Step ==
    \/ SyncStep
    \/ \E s \in Socks : Kill(s)
    \/ \E c \in Clients : Start(c) \/ Call(c)
    \/ NetStep
Next == Collect \/ (Clean /\ Step)

Spec == Init /\ [][Next]_vars

\* Goroutines run; a member that is down comes back; the clients keep asking.  The goroutines
\* of an iteration, and the sockets that are cut, are finitely many: one condition for all.
FairSpec ==
    /\ Spec
    /\ WF_vars(Collect) /\ WF_vars(SyncStep)
    /\ WF_vars(\E s \in Socks : Kill(s)) /\ WF_vars(\E a \in Addrs : Up(a))
    /\ \A c \in Clients : WF_vars(Start(c) \/ Call(c))

-----------------------------------------------------------------------------
(* Properties.                                                             *)

\* Every variable keeps its type.
TypeOK ==
    /\ \A v \in Servers : srv[v] = None \/
        (srv[v].live \subseteq Socks /\ ToSet(srv[v].unused) \subseteq Socks)
    /\ \A s \in Socks : sock[s] = None \/
        (sock[s].state \in SocketStates /\ sock[s].refs \in Nat)
    /\ servers \cup masters \subseteq Servers \ FreeServers

\* Sessions that hold a socket, calls that have one in hand.
Holders(s) == {h \in Clients \X {"ms", "ss", "s"} :
                  /\ client[h[1]][h[2]] = s
                  /\ h[2] = "s" => client[h[1]].pc \notin {"initial", "recycle", "recycleClosing"}}

\* A socket is counted once for every session and call that holds it, a cached one is held
\* by nobody and is in one cache once, and no two sessions have the same.  The one exception
\* is a socket over which setSocket has panicked: it keeps two references that nobody holds.
SocketsBalanced ==
    \A s \in Socks \ FreeSocks :
        /\ sock[s].refs = IF sock[s].lost THEN 2 ELSE Cardinality(Holders(s))
        /\ Cached(s) # {} =>
             /\ \A c \in Clients : s \notin Held(c)
             /\ \A v \in Cached(s) : v = Home(s) \/ dead(s)
             /\ Cardinality(Cached(s)) = 1
        /\ Cardinality({c \in Clients : s \in Held(c)}) <= 1

\* An open socket can still be closed and can still be used: its server has it among its
\* live ones, which Close kills, or the call that connected it is about to put it there;
\* and it is in a cache or with a client.  setSocket's panic alone takes a socket out of
\* use: nobody has it any more, and it stays open until its server is closed.
NothingLeaks ==
    \A s \in Socks \ FreeSocks : sock[s].state = "open" =>
        /\ \/ s \in srv[Home(s)].live
           \/ \E c \in Clients : Is(c, "append") /\ client[c].s = s
        /\ sock[s].lost <=> Cached(s) = {} /\ \A c \in Clients : s \notin Held(c)

\* An address has one server, and addServer never meets another than its own.
TopologySound ==
    /\ masters \subseteq servers
    /\ \A v, w \in servers : v[1] = w[1] => v = w
    /\ \A a \in Addrs : peer[a].pc \in {"ask", "add"} =>
                            At(a) \subseteq {peer[a].v}
    /\ \A v \in notYetAdded : At(v[1]) \subseteq {v}

\* An operation ends, or it finds as many sockets of the server with others as the limit
\* allows.  A stranded socket counts with them for ever, and the operation then waits for
\* ever: one that setSocket's panic took out of use, or one whose readLoop found the
\* connection gone before AcquireSocket had put it among the live ones.
Stranded(v) == {s \in srv[v].live : dead(s) \/ sock[s].lost}
WithOthers(c, v) == {s \in srv[v].live : \E d \in Clients \ {c} : s \in Held(d)}
AtLimit(c) ==
    LET v == client[c].v IN
    /\ Is(c, "get")
    /\ Cardinality(Stranded(v) \cup WithOthers(c, v)) >= scenario.limit
Busy(c) == client[c].pc \notin {"idle", "ready"}

\* When the members stay up and connected, requests work again, unless stranded sockets
\* have used up the limit.
LockedOut(c) == Is(c, "get") /\ Cardinality(Stranded(client[c].v)) >= scenario.limit
RequestsRecover ==
    \A c \in Clients \ Steady :
        <>[](answer[c] \notin {"error", "panic"}) \/ []<>LockedOut(c)

\* The cluster finds its members and its master.
Converged == {v[1] : v \in masters} = {primary} /\ {v[1] : v \in servers} = Members
TopologyConverges == <>[]Converged

\* As server.go:687 says of messages: 3 months old and they are gone.
ExpiryRecovers == \A c \in Steady : <>[](answer[c] \notin {"error", "panic"})

(***************************************************************************)
(* The inductive invariant of TopologySound.  Within an iteration an       *)
(* address is asked once, and its server is with its goroutine, or in      *)
(* notYetAdded, or added: cluster.server gives out no second one.          *)
(***************************************************************************)
PeerOK(a) ==
    /\ DOMAIN peer[a] = DOMAIN Unseen
    /\ peer[a].pc \in {"ask", "add"} => peer[a].v[1] = a /\ At(a) \subseteq {peer[a].v}

AddedOnce ==
    \A v, w \in notYetAdded :
        /\ At(v[1]) \subseteq {v} /\ peer[v[1]].pc = "done"
        /\ v[1] = w[1] => v = w

TopologyInv ==
    /\ masters \subseteq servers
    /\ \A v, w \in servers : v[1] = w[1] => v = w
    /\ DOMAIN peer = Addrs /\ \A a \in Addrs : PeerOK(a)
    /\ AddedOnce
    /\ loop # "run" => notYetAdded = {} /\ spawned = {} /\ peer = [a \in Addrs |-> Unseen]
    /\ \A v \in notYetAdded : v[1] \in Addrs

(***************************************************************************)
(* The inductive invariant of SocketsBalanced and NothingLeaks: what a     *)
(* session, a call, a cache and a socket say of each other.                *)
(***************************************************************************)
ServersInUse ==
    /\ servers \cup masters \cup notYetAdded \subseteq Servers \ FreeServers
    /\ DOMAIN peer = Addrs
    /\ \A a \in Addrs : /\ DOMAIN peer[a] = DOMAIN Unseen /\ peer[a].isMaster \in BOOLEAN
                        /\ peer[a].pc \in {"ask", "add"} => peer[a].v \in Servers \ FreeServers

\* A call has a socket in hand from the cache or the connection to the end of the operation,
\* and again when it gives one back; a server from its choice until the socket is reserved.
WithSocket == {"initial", "append", "verify", "reserve", "use", "recycle", "recycleClosing"}
Acquiring == {"initial", "connect", "append", "drop", "verify", "reserve", "recycle", "get"}
SessionOK(c) ==
    LET r == client[c] IN
    /\ DOMAIN r = DOMAIN NoSession
    /\ {r.ms, r.ss, r.s} \subseteq Socks \cup {None}
    /\ r.s # None <=> r.pc \in WithSocket
    /\ r.s # None => (r.s \in {r.ms, r.ss} <=> r.pc = "use")
    /\ r.ms # None => r.ms # r.ss
    /\ r.pc \in {"pick", "waiting"} \cup Acquiring => r.ms = None
    /\ r.pc \in Acquiring \cup {"recycleClosing"} => r.v \in Servers \ FreeServers
    /\ r.pc \in WithSocket \ {"use"} => dead(r.s) \/ Home(r.s) = r.v

\* No socket twice in a cache; a closed server has none.
CacheOK(v) ==
    /\ \A i, j \in DOMAIN srv[v].unused : srv[v].unused[i] = srv[v].unused[j] => i = j
    /\ srv[v].closed => srv[v].live = {} /\ srv[v].unused = <<>>

\* The references of a session and of a call: an operation has one besides its session's.
Uses(c, s) == client[c].pc = "use" /\ client[c].s = s
Counts(c, s) ==
    \/ s \in {client[c].ms, client[c].ss}
    \/ client[c].s = s /\ client[c].pc \in {"append", "verify", "reserve"}
References(s) == IF \E c \in Clients : Uses(c, s) THEN 2
                 ELSE IF \E c \in Clients : Counts(c, s) THEN 1 ELSE 0

Unreferenced(s) == \A c \in Clients : s \notin Held(c)
SocketOK(s) ==
    /\ sock[s].refs = IF sock[s].lost THEN 2 ELSE References(s)
    /\ sock[s].lost => Unreferenced(s) /\ Cached(s) = {}
    /\ Cached(s) # {} => Unreferenced(s)
    /\ \A c, d \in Clients : s \in Held(c) \cap Held(d) => c = d
    /\ \A v, w \in Cached(s) : v = w
    /\ ~dead(s) => /\ Cached(s) \subseteq {Home(s)}
                   /\ Home(s) \in Servers \ FreeServers
                   /\ \/ s \in srv[Home(s)].live
                      \/ \E c \in Clients : client[c].pc = "append" /\ client[c].s = s
    /\ sock[s].state = "open" /\ ~sock[s].lost => Cached(s) # {} \/ ~Unreferenced(s)

SocketInv ==
    /\ srv \in [Servers -> ServerRecords \cup {None}]
    /\ sock \in [Socks -> SocketRecords \cup {None}]
    /\ ServersInUse
    /\ DOMAIN client = Clients /\ \A c \in Clients : SessionOK(c)
    /\ \A v \in Servers \ FreeServers : CacheOK(v)
    /\ \A s \in Socks \ FreeSocks : SocketOK(s)
    /\ \A s \in FreeSocks : Unreferenced(s) /\ Cached(s) \cup Live(s) = {}

=============================================================================
