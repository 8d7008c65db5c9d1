SPECIFICATION Spec
CONSTANTS
    Devices = {b1}
    Period = 3
    Threshold = 6
    Interval = 3
    MaxDelay = 1
    MaxAlert = 2
    MaxCrashes = 0
    MayLose = TRUE
    BrokerFails = FALSE
PROPERTY SingleBlipTolerated
