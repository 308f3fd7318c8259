\* The registry over restarts and reloads with changed user tables, writes that fail, overlap or are cut off.
CONSTANTS
    Users = {"alice", "bob"}
    MaxPort = 5
    LocalPorts = {2, 4}
    Tables <- MCTables
    MaxNonce = 3
    MaxInstances = 2
    Parts <- MCParts
    Torn = Torn
    NoCall = NoCall
SPECIFICATION Spec
CHECK_DEADLOCK FALSE
INVARIANTS
    OwnPortsDistinct
    OnlinePortsExclusive
    OnlineFullyMapped
    ConfigSound
    OnlineIffLatestOpen
    OnlineIsDurable
PROPERTIES
    AllocationsStable
