----------------------------- MODULE PoolProofs -----------------------------
(***************************************************************************)
(* Proofs about Pool: an address of the replica set has one server object, *)
(* in cluster.servers and in the hands of the goroutines of an iteration,  *)
(* although calls remove servers while the iteration goes on.              *)
(***************************************************************************)
EXTENDS Pool, TLAPS

\* The steps that leave the cluster and the iteration alone.
LEMMA TopologyCarried ==
    ASSUME TopologyInv, UNCHANGED <<cluster, iteration>>
    PROVE  TopologyInv'
BY DEF TopologyInv, cluster, iteration, PeerOK, AddedOnce, At

\* The servers dropped from the cluster are dropped from the masters as well.
LEMMA Removal ==
    ASSUME TopologyInv, NEW A, servers' = {w \in servers : w[1] \notin A},
           masters' \subseteq {w \in masters : w[1] \notin A}
    PROVE  /\ masters' \subseteq servers'
           /\ \A v, w \in servers' : v[1] = w[1] => v = w
           /\ \A a : At(a)' \subseteq At(a)
BY DEF TopologyInv, At

\* A server is added to an address that has no other.
LEMMA Addition ==
    ASSUME TopologyInv, NEW v, NEW role, At(v[1]) \subseteq {v}, addServer(v, role)
    PROVE  /\ masters' \subseteq servers'
           /\ \A u, w \in servers' : u[1] = w[1] => u = w
           /\ \A a : a # v[1] => At(a)' = At(a)
           /\ At(v[1])' \subseteq {v}
<1>1. servers' = servers \cup {v} /\ masters' \subseteq masters \cup {v}
  BY DEF addServer, Listed
<1>2. \A w \in servers : w[1] = v[1] => w = v BY DEF At
<1> QED BY <1>1, <1>2 DEF TopologyInv, At

\* Asking an address takes its server, or a new one.
LEMMA AskEffect ==
    ASSUME TopologyInv, NEW A, Ask(A)
    PROVE  /\ DOMAIN peer' = Addrs
           /\ \A a \in A \cap Addrs :
                           /\ peer'[a].pc = "ask" /\ DOMAIN peer'[a] = DOMAIN Unseen
                           /\ peer'[a].v[1] = a /\ At(a) \subseteq {peer'[a].v}
           /\ \A a \in Addrs \ A : peer'[a] = peer[a]
<1> DEFINE who == [a \in A |-> CHOOSE v \in server(a) : TRUE]
<1>1. /\ \A a \in A : server(a) # {}
      /\ peer' = [a \in Addrs |-> IF a \in A THEN Asking(who[a]) ELSE peer[a]]
  BY DEF Ask
<1>2. ASSUME NEW a \in A PROVE who[a][1] = a /\ At(a) \subseteq {who[a]}
  <2>1. who[a] \in server(a) BY <1>1
  <2>2. CASE At(a) # {} BY <2>1, <2>2 DEF server, At, TopologyInv
  <2>3. CASE At(a) = {} BY <2>1, <2>3 DEF server, Free
  <2> QED BY <2>2, <2>3
<1> HIDE DEF who
<1>3. \A a \in A \cap Addrs : peer'[a] = Asking(who[a]) BY <1>1
<1> QED BY <1>1, <1>2, <1>3 DEF Asking, Unseen

\* The goroutine of an address is done: the cluster has no more servers than before, and
\* whatever it did not add stays out.
LEMMA StepOfPeer ==
    ASSUME TopologyInv, NEW a \in Addrs, PeerStep(a)
    PROVE  TopologyInv'
<1> USE DEF cluster, iteration
<1> DEFINE v == peer[a].v
<1>1. peer[a].pc \in {"ask", "add"} BY DEF PeerStep, Answer, NoAnswer, Add
<1>2. /\ loop = "run" /\ loop' = loop
      /\ v[1] = a /\ At(a) \subseteq {v} /\ DOMAIN peer = Addrs /\ DOMAIN peer[a] = DOMAIN Unseen
      /\ \A w \in notYetAdded : w[1] # a
  <2>1. peer # [b \in Addrs |-> Unseen] BY <1>1 DEF Unseen
  <2>2. loop = "run" BY <2>1 DEF TopologyInv
  <2>3. loop' = loop BY DEF PeerStep, Answer, NoAnswer, Add
  <2>4. v[1] = a /\ At(a) \subseteq {v} /\ DOMAIN peer = Addrs /\ DOMAIN peer[a] = DOMAIN Unseen
    BY <1>1 DEF TopologyInv, PeerOK
  <2>5. \A w \in notYetAdded : w[1] # a BY <1>1 DEF TopologyInv, AddedOnce
  <2> QED BY <2>2, <2>3, <2>4, <2>5
<1>3. CASE Answer(a)
  <2>1. UNCHANGED cluster /\ \A b : At(b)' = At(b) BY <1>3 DEF Answer, At
  <2>2. CASE Vouched(a)
    <3>1. /\ peer' = [peer EXCEPT ![a] = [peer[a] EXCEPT !.pc = "add", !.isMaster = (primary = a)]]
          /\ notYetAdded' = notYetAdded
      BY <1>3, <2>2 DEF Answer
    <3>2. /\ \A b \in Addrs \ {a} : peer'[b] = peer[b]
          /\ DOMAIN peer'[a] = DOMAIN Unseen /\ peer'[a].v = v
      BY <1>2, <3>1 DEF Unseen
    <3>3. \A b \in Addrs : PeerOK(b)' BY <1>2, <2>1, <3>2 DEF TopologyInv, PeerOK
    <3>4. AddedOnce' BY <1>2, <2>1, <3>1, <3>2 DEF TopologyInv, AddedOnce
    <3> QED BY <1>2, <2>1, <3>1, <3>3, <3>4 DEF TopologyInv
  <2>3. CASE ~ Vouched(a)
    <3>1. peer' = [peer EXCEPT ![a] = Done] /\ notYetAdded' = notYetAdded \cup {v}
      BY <1>3, <2>3 DEF Answer
    <3>2. (\A b \in Addrs \ {a} : peer'[b] = peer[b]) /\ peer'[a] = Done
      BY <1>2, <3>1
    <3>3. \A b \in Addrs : PeerOK(b)' BY <2>1, <3>2 DEF TopologyInv, PeerOK, Done, Unseen
    <3>4. AddedOnce'
      BY <1>2, <2>1, <3>1, <3>2 DEF TopologyInv, AddedOnce, Done, Unseen
    <3> QED BY <1>2, <2>1, <3>1, <3>3, <3>4 DEF TopologyInv
  <2> QED BY <2>2, <2>3
<1>4. CASE NoAnswer(a) \/ Add(a)
  <2>1. peer' = [peer EXCEPT ![a] = Done] /\ notYetAdded' = notYetAdded
    BY <1>4 DEF NoAnswer, Add
  <2>2. (\A b \in Addrs \ {a} : peer'[b] = peer[b]) /\ peer'[a] = Done BY <1>2, <2>1
  <2>3. /\ masters' \subseteq servers'
        /\ \A u, w \in servers' : u[1] = w[1] => u = w
        /\ \A b : b # a => At(b)' \subseteq At(b)
    <3>1. CASE NoAnswer(a)
      <4>1. /\ servers' = {w \in servers : w[1] \notin {v[1]}}
            /\ masters' \subseteq {w \in masters : w[1] \notin {v[1]}}
        BY <3>1 DEF NoAnswer, removeServer, At
      <4> QED BY <4>1, Removal
    <3>2. CASE Add(a)
      <4>1. addServer(v, peer[a].isMaster) BY <3>2 DEF Add
      <4> QED BY <1>2, <4>1, Addition
    <3> QED BY <1>4, <3>1, <3>2
  <2>4. \A b \in Addrs : PeerOK(b)' BY <2>2, <2>3 DEF TopologyInv, PeerOK, Done, Unseen
  <2>5. AddedOnce' BY <1>2, <2>1, <2>2, <2>3 DEF TopologyInv, AddedOnce
  <2> QED BY <1>2, <2>1, <2>3, <2>4, <2>5 DEF TopologyInv
<1> QED BY <1>3, <1>4 DEF PeerStep

\* A goroutine that was started adds what has answered, or asks an address not yet asked.
LEMMA StepOfSpawned ==
    ASSUME TopologyInv, NEW a \in Addrs, SpawnStep(a)
    PROVE  TopologyInv'
<1> USE DEF cluster, iteration
<1>1. loop = "run" /\ loop' = loop /\ DOMAIN peer = Addrs
  BY DEF TopologyInv, SpawnStep, AddNamed, spawnSync
<1>2. CASE AddNamed(a)
  <2>1. PICK v \in notYetAdded :
            v[1] = a /\ addServer(v, FALSE) /\ notYetAdded' = notYetAdded \ {v}
    BY <1>2 DEF AddNamed, Waiting
  <2>2. At(v[1]) \subseteq {v} /\ peer[a].pc = "done" BY <2>1 DEF TopologyInv, AddedOnce
  <2>3. /\ masters' \subseteq servers'
        /\ \A u, w \in servers' : u[1] = w[1] => u = w
        /\ \A b : b # a => At(b)' = At(b)
    BY <2>1, <2>2, Addition
  <2>4. peer' = peer BY <1>2 DEF AddNamed
  <2>5. \A b \in Addrs : PeerOK(b)' BY <2>2, <2>3, <2>4 DEF TopologyInv, PeerOK
  <2>6. AddedOnce' BY <2>1, <2>3, <2>4 DEF TopologyInv, AddedOnce
  <2> QED BY <1>1, <2>1, <2>3, <2>4, <2>5, <2>6 DEF TopologyInv
<1>3. ASSUME NEW byMaster, spawnSync(a, byMaster) PROVE TopologyInv'
  <2>1. UNCHANGED <<servers, masters, notYetAdded>> /\ \A b : At(b)' = At(b)
    BY <1>3 DEF spawnSync, At
  <2>2. CASE peer' = peer
    <3>1. \A b \in Addrs : PeerOK(b)' BY <2>1, <2>2 DEF TopologyInv, PeerOK
    <3>2. AddedOnce' BY <2>1, <2>2 DEF TopologyInv, AddedOnce
    <3> QED BY <1>1, <2>1, <2>2, <3>1, <3>2 DEF TopologyInv
  <2>3. CASE peer[a] = Unseen /\ Ask({a})
    <3>1. /\ DOMAIN peer' = Addrs
          /\ DOMAIN peer'[a] = DOMAIN Unseen
          /\ peer'[a].v[1] = a /\ At(a) \subseteq {peer'[a].v}
          /\ \A b \in Addrs \ {a} : peer'[b] = peer[b]
      BY <2>3, AskEffect
    <3>2. \A w \in notYetAdded : w[1] # a BY <2>3 DEF TopologyInv, AddedOnce, Unseen
    <3>3. \A b \in Addrs : PeerOK(b)' BY <2>1, <3>1 DEF TopologyInv, PeerOK
    <3>4. AddedOnce' BY <2>1, <3>1, <3>2 DEF TopologyInv, AddedOnce
    <3> QED BY <1>1, <2>1, <3>1, <3>3, <3>4 DEF TopologyInv
  <2> QED BY <1>3, <2>2, <2>3 DEF spawnSync
<1> QED BY <1>2, <1>3 DEF SpawnStep

\* An iteration starts with nothing in hand and ends with nothing in hand.
LEMMA StepOfLoop ==
    ASSUME TopologyInv, LoopStep
    PROVE  TopologyInv'
<1> USE DEF cluster, iteration
<1>1. CASE StartSync
  <2>1. /\ loop' = "run" /\ notYetAdded = {} /\ peer = [a \in Addrs |-> Unseen]
        /\ UNCHANGED <<servers, masters, notYetAdded>> /\ Ask(getKnownAddrs)
    BY <1>1 DEF StartSync, TopologyInv
  <2>2. /\ DOMAIN peer' = Addrs
        /\ \A a \in getKnownAddrs \cap Addrs :
              /\ DOMAIN peer'[a] = DOMAIN Unseen
              /\ peer'[a].v[1] = a /\ At(a) \subseteq {peer'[a].v}
        /\ \A a \in Addrs \ getKnownAddrs : peer'[a] = peer[a]
    BY <2>1, AskEffect
  <2>3. \A a : At(a)' = At(a) BY <2>1 DEF At
  <2>4. \A a \in Addrs : PeerOK(a)' BY <2>1, <2>2, <2>3 DEF PeerOK, Unseen
  <2> QED BY <2>1, <2>2, <2>4 DEF TopologyInv, AddedOnce
<1>2. CASE EndSync
  <2> DEFINE addrs == {v[1] : v \in notYetAdded}
  <2>1. /\ loop' = "sleep" /\ spawned' = {} /\ notYetAdded' = {}
        /\ peer' = [a \in Addrs |-> Unseen]
    BY <1>2 DEF EndSync
  <2>2. masters' \subseteq servers' /\ \A v, w \in servers' : v[1] = w[1] => v = w
    <3>1. CASE complete
      <4>1. servers' = servers \ UNION {At(a) : a \in addrs} BY <1>2, <3>1 DEF EndSync
      <4>2. servers' = {w \in servers : w[1] \notin addrs} BY <4>1 DEF At
      <4>3. masters' \subseteq {w \in masters : w[1] \notin addrs} BY <1>2, <3>1 DEF EndSync
      <4> QED BY <4>2, <4>3, Removal
    <3>2. CASE ~ complete
      <4>1. servers' = servers /\ masters' \subseteq masters BY <1>2, <3>2 DEF EndSync
      <4> QED BY <4>1 DEF TopologyInv
    <3> QED BY <3>1, <3>2
  <2>3. \A a \in Addrs : PeerOK(a)' BY <2>1 DEF PeerOK, Unseen
  <2> QED BY <2>1, <2>2, <2>3 DEF TopologyInv, AddedOnce
<1>3. CASE Poke
  <2>1. UNCHANGED <<servers, masters, peer, spawned, notYetAdded>> /\ loop = "sleep"
    BY <1>3 DEF Poke
  <2> QED BY <2>1 DEF TopologyInv, PeerOK, AddedOnce, At
<1> QED BY <1>1, <1>2, <1>3 DEF LoopStep

\* A call removes a server in the middle of an iteration.
LEMMA StepOfDrop ==
    ASSUME TopologyInv, NEW c \in Clients, Drop(c)
    PROVE  TopologyInv'
<1> USE DEF cluster, iteration
<1> DEFINE v == client[c].v
<1>1. /\ servers' = {w \in servers : w[1] \notin {v[1]}}
      /\ masters' \subseteq {w \in masters : w[1] \notin {v[1]}}
      /\ UNCHANGED iteration
  BY DEF Drop, removeServer, At
<1>2. /\ masters' \subseteq servers'
      /\ \A u, w \in servers' : u[1] = w[1] => u = w
      /\ \A a : At(a)' \subseteq At(a)
  BY <1>1, Removal
<1>3. \A a \in Addrs : PeerOK(a)' BY <1>1, <1>2 DEF TopologyInv, PeerOK
<1>4. AddedOnce' BY <1>1, <1>2 DEF TopologyInv, AddedOnce
<1> QED BY <1>1, <1>2, <1>3, <1>4 DEF TopologyInv

\* Every step keeps one server per address.
LEMMA TopologyStep ==
    ASSUME TopologyInv, [Next]_vars
    PROVE  TopologyInv'
<1>1. CASE Collect BY <1>1, TopologyCarried DEF Collect
<1>2. CASE SyncStep BY <1>2, StepOfPeer, StepOfSpawned, StepOfLoop DEF SyncStep
<1>3. ASSUME NEW s \in Socks, Kill(s) PROVE TopologyInv'
  BY <1>3, TopologyCarried DEF Kill
<1>4. ASSUME NEW c \in Clients, Start(c) PROVE TopologyInv'
  BY <1>4, TopologyCarried DEF Start, acquireSocket
<1>5. ASSUME NEW c \in Clients, Call(c) PROVE TopologyInv'
  BY <1>5, StepOfDrop, TopologyCarried
  DEF Call, Pick, Wait, Unreachable, Get, Limited, InitialAcquire, Connect, AppendLive,
      Verify, setSocket, Use, unsetSocket, RecycleSocket
<1>6. CASE NetStep BY <1>6, TopologyCarried DEF NetStep, Down, Up, Elect, Cut
<1>7. CASE UNCHANGED vars BY <1>7, TopologyCarried DEF vars, cluster, iteration
<1> QED BY <1>1, <1>2, <1>3, <1>4, <1>5, <1>6, <1>7 DEF Next, Step

\* An address has one server in cluster.servers, the masters are among them, and neither
\* a goroutine of syncServers nor spawnSync adds a second one, although calls remove
\* servers while the iteration goes on: addServer never panics on a duplicated server.
THEOREM OneServerPerAddress == Spec => []TopologySound
<1>1. Init => TopologyInv BY DEF Init, TopologyInv, PeerOK, AddedOnce, Unseen
<1>2. TopologyInv /\ [Next]_vars => TopologyInv' BY TopologyStep
<1>3. TopologyInv => TopologySound BY DEF TopologyInv, TopologySound, PeerOK, AddedOnce
<1> QED BY <1>1, <1>2, <1>3, PTL DEF Spec

=============================================================================
