SPECIFICATION Spec
CONSTANTS
    Devices = {b1}
    Versions = {v1, v2}
    Factory = v1
    MaxRollouts = 2
    MaxQueue = 1
    MaxNest = 2
    Scenarios = {{"power"}}
INVARIANTS TypeOK NothingUnrecorded
PROPERTIES SettledStays ReportedSuccessIsReal LedgerKept
