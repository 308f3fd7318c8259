\* A listener, a UDP port and three visitors: the visitors' queue fills up; channels get lost and break.
CONSTANTS
    t1 = t1
    u1 = u1
    v1 = v1
    v2 = v2
    v3 = v3
    None = None
    Closed = Closed
    TcpPorts = {t1}
    UdpPorts = {u1}
    Visitors = {v1, v2, v3}
    PoolSize = 1
    ChanSize = 1
    MaxFaults = 2
SPECIFICATION Spec
CHECK_DEADLOCK FALSE
INVARIANTS
    ChannelsConserved
    ChannelsBounded
PROPERTIES
    VisitorServed
    AllEnd
