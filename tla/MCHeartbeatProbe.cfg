\* The proportions of the defaults (30, 40, 5): the probe restarts the timeout.
CONSTANTS
    Interval = 6
    Timeout = 8
    Probe = 1
    MaxToggles = 2
SPECIFICATION Spec
PROPERTY
    SilenceDetected
