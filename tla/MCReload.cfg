\* No flags: a and b run, both cannot, none and bad are invalid; three edits at any time.
CONSTANTS
    a = a
    b = b
    both = both
    none = none
    bad = bad
    Contents = {a, b, both, none, bad}
    Parses = {a, b, both, none}
    Sections <- SectionsOf
    Flags = {}
    Builds = {a, b, both}
    MaxEdits = 3
SPECIFICATION Spec
CHECK_DEADLOCK FALSE
INVARIANTS
    NoIdleRestart
PROPERTIES
    StopIsHeard
    CtrlCEnds
    LastConfigRuns
