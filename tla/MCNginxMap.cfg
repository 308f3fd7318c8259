\* Three changes of the directory, two failed commands or server reloads anywhere.
CONSTANTS
    m1 = m1
    m2 = m2
    m3 = m3
    Maps = {m1, m2, m3}
    MaxChanges = 3
    MaxFaults = 2
    Torn = Torn
    None = None
SPECIFICATION Spec
CHECK_DEADLOCK FALSE
PROPERTIES
    NginxFollows
