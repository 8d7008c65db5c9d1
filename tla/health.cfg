SPECIFICATION FairSpec
CONSTANTS
    Devices = {b1}
    Period = 3
    Threshold = 6
    Interval = 3
    MaxDelay = 1
    MaxAlert = 3
    MaxCrashes = 1
    MayLose = TRUE
    BrokerFails = TRUE
INVARIANTS TypeOK DetectedWithin DeathsAnnounced HeardWithin
PROPERTY Revives
