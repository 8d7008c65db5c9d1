SPECIFICATION FairSpec
CONSTANTS
    Devices = {b1}
    Versions = {v1, v2}
    Factory = v1
    MaxRollouts = 1
    MaxQueue = 2
    MaxNest = 1
    Scenarios = {{}, {"loss", "power", "wrap", "broker", "server"}}
INVARIANT VersionHasEvidence
PROPERTIES ProgressIsForward EventSettles
