\* The expiry loop keeps its session; one connection is lost.
SPECIFICATION FairSpec
CONSTANTS
    Addrs = {1, 2}
    Seeds = {1}
    Clients = {3, 4, 5}
    Steady = {5}
    Scenarios <- Expiry
    MaxObjects = 4
    MaxWaits = 1
    None = None
PROPERTIES
    ExpiryRecovers
