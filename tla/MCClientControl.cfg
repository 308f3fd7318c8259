\* A hot reload with both instances alive; four toggles of the port or of the
\* local service, lost sessions and failed logins.
CONSTANTS
    NumInstances = 2
    MaxEvents = 4
SPECIFICATION Spec
CHECK_DEADLOCK FALSE
PROPERTIES
    ReportSettles
    StoppedInstanceEnds
    LastInstanceServes
