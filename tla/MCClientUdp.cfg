\* Two visitors with queues of one packet; each may get a forwarder again
\* after its first one ended.
CONSTANTS
    v1 = v1
    v2 = v2
    f1 = f1
    f2 = f2
    Visitors = {v1, v2}
    Fwds = {f1, f2}
    NoFwd = NoFwd
    Main = Main
    QueueSize = 1
    OutSize = 1
SPECIFICATION Spec
CHECK_DEADLOCK FALSE
INVARIANTS
    OneForwarderPerVisitor
PROPERTIES
    PacketHandled
    ForwardersEnd
