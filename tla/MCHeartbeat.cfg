\* A timeout shorter than the probe interval: the heartbeat test works.
CONSTANTS
    Interval = 3
    Timeout = 4
    Probe = 5
    MaxToggles = 2
SPECIFICATION Spec
INVARIANTS
    NoFalseAlarm
PROPERTY
    SilenceDetected
