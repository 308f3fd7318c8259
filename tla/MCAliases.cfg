\* Two ports, and six events: sessions, directories, changes of services.
SPECIFICATION Spec
CONSTANTS
    Ports = {1, 2}
    Me = "alice"
    Directories <- FewDirectories
    None = None
    Channels = {1, 2}
    Slots = 2
    MaxEvents = 6
INVARIANT NoOrphans
PROPERTY AliasesSettle
PROPERTY ListeningSettles
CHECK_DEADLOCK FALSE
