\* Every sequence of inserts, lookups, removals and the drop, on three boxes that are used again.
CONSTANTS
    u1 = u1
    u2 = u2
    n1 = n1
    n2 = n2
    h1 = h1
    h2 = h2
    b1 = b1
    b2 = b2
    b3 = b3
    K1 = {u1, u2}
    K2 = {n1, n2}
    V = {h1, h2}
    Ok = Ok
    Refused = Refused
    Missing = Missing
    Boxes = {b1, b2, b3}
    Free = Free
SPECIFICATION Spec
CHECK_DEADLOCK FALSE
INVARIANTS
    MemorySafe
PROPERTY
    TwoKeyMap
