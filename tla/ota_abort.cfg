SPECIFICATION Spec
CONSTANTS
    Devices = {b1}
    Versions = {v1, v2}
    Factory = v1
    MaxRollouts = 1
    MaxQueue = 1
    MaxNest = 1
    Scenarios = {{}}
PROPERTY AbortSticks
