\* Requests of two clients to one member, of one to a member that stops, of one to two
\* members that elect a new master.
SPECIFICATION FairSpec
CONSTANTS
    Addrs = {1, 2}
    Seeds = {1}
    Clients = {3, 4, 5}
    Steady = {5}
    Scenarios <- Requests
    MaxObjects = 4
    MaxWaits = 1
    None = None
INVARIANTS
    SocketsBalanced
    NothingLeaks
    TopologySound
PROPERTIES
    
    RequestsRecover
    TopologyConverges
