\* Two overlapping logins of a user, peers vanishing anywhere, and a shutdown.
CONSTANTS
    c1 = c1
    c2 = c2
    alice = alice
    Conns = {c1, c2}
    Users = {alice}
    Owner <- OwnerAlice
    None = None
SPECIFICATION Spec
CHECK_DEADLOCK FALSE
INVARIANTS
    LiveSessionRegistered
    GhostOnlyAfterEarlyReturn
    MapHoldsLiveHandles
PROPERTIES
    OnlySelfOrSuccessorCloses
    DroppedSessionEnds
    CurrentSessionListens
    ReloadFreesPorts
    DirectoryReachesClients
